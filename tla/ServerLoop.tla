----------------------------- MODULE ServerLoop -----------------------------
(***************************************************************************)
(* The request lifecycle of the ty language server: the main loop, its     *)
(* event queue, the worker pool and the parts of the session a request can *)
(* be parked in (crates/ty_server/src/server/main_loop.rs, schedule.rs,    *)
(* schedule/thread/pool.rs, api.rs, session.rs, session/client.rs,         *)
(* session/request_queue.rs).                                              *)
(*                                                                         *)
(* One thread, the main loop, owns the session.  It takes an event, runs   *)
(* its handler and comes back for the next.  A handler either finishes on  *)
(* that thread, or snapshots the session into a job for the pool, or       *)
(* writes to the database, which makes it wait until every snapshot is     *)
(* dropped.  Workers answer by queueing events for the main loop.          *)
(*                                                                         *)
(* The client is the environment: it sends each request at most once, may  *)
(* cancel it at any time after, edits the one modelled document, adds      *)
(* workspace folders, and shuts the server down.                           *)
(***************************************************************************)
EXTENDS Naturals, Sequences, FiniteSets

CONSTANTS
    Requests,        \* the ids of the requests the client may send
    Kind,            \* Kind[r]: which task the router makes of request r
    Retriable,       \* the requests whose handler has RETRY_ON_CANCELLATION
    Wanted,          \* Wanted[r]: the text a document request names, 0 for none
    Workers,         \* the threads of the background pool
    PoolCapacity,    \* how many jobs the pool's queue holds
    SupportsConfig,  \* does the client support workspace/configuration
    ConfigMayFail,   \* may it answer that request with an error
    MaxEdits,        \* bound: document edits the client sends
    MaxFsChanges,    \* bound: batches the file system watcher reports
    MaxFolders,      \* bound: workspace folders the client adds
    NoRequest        \* the id of a message or job that is about no request

Kinds == {"sync", "shutdown", "session", "document", "longpoll", "checkworkspace"}

ASSUME RequestsAssumption ==
    /\ Kind \in [Requests -> Kinds]
    /\ Retriable \subseteq Requests
    /\ Wanted \in [Requests -> Nat]
    /\ NoRequest \notin Requests
    /\ \A r, s \in Requests : Kind[r] = "shutdown" /\ Kind[s] = "shutdown" => r = s

ASSUME PoolAssumption == PoolCapacity \in Nat \ {0}

ASSUME ClientAssumption ==
    /\ SupportsConfig \in BOOLEAN
    /\ ConfigMayFail \in BOOLEAN
    /\ MaxEdits \in Nat
    /\ MaxFsChanges \in Nat
    /\ MaxFolders \in Nat

VARIABLES
    \* the main loop
    pc,          \* where the main thread is
    job,         \* the job it is handing to the pool, while pc = "spawn"
    purpose,     \* what it writes to the database for, while pc = "write"
    mainq,       \* the unbounded queue of events for the main loop
    \* the session
    pending,     \* Incoming.pending
    tokens,      \* the requests whose cancellation token is cancelled
    held,        \* Session.held_requests
    suspended,   \* Session.suspended_workspace_diagnostics_requests
    deferred,    \* Session.deferred_messages
    revision,    \* Session.revision
    text,        \* the text of the document: 0 while it is not open
    folders,     \* how many workspace folders have a project
    adding,      \* registered workspace folders that are not initialized
    config,      \* workspace/configuration requests awaiting a response
    uv,          \* the script environment: "pending", "signalled" or "done"
    shutdown,    \* Session.shutdown_requested
    \* the pool
    pool,        \* the pool's queue of jobs
    worker,      \* what each worker thread is doing
    \* time and the client
    late,        \* the requests registered longer than HOLD_LIMIT ago
    sent,        \* the requests the client has sent
    cancelSent,  \* the requests the client has cancelled
    cancelSeen,  \* the requests whose cancel notification has been handled
    answers,     \* answers[r]: how many responses to r the client was sent
    editsSent, fsSent, foldersSent

sessionVars == <<pending, tokens, held, suspended, deferred, revision, text,
                 folders, adding, config, uv, shutdown>>
clientVars  == <<late, sent, cancelSent, cancelSeen, answers, editsSent, fsSent,
                 foldersSent>>
vars == <<pc, job, purpose, mainq, sessionVars, pool, worker, clientVars>>

-----------------------------------------------------------------------------
(* Messages, events and jobs.                                              *)

Messages == [t : {"request", "cancel"}, id : Requests]
              \cup [t : {"edit", "folder", "exit"}, id : {NoRequest}]

Events == [t : {"respond", "retry"}, id : Requests, rev : {0}]
            \cup [t : {"hold", "suspend"}, id : Requests, rev : Nat]
            \cup [t : {"fs", "init"}, id : {NoRequest}, rev : {0}]

Respond(r) == [t |-> "respond", id |-> r, rev |-> 0]
Retry(r)   == [t |-> "retry", id |-> r, rev |-> 0]
Hold(j)    == [t |-> "hold", id |-> j.id, rev |-> j.rev]
Suspend(j) == [t |-> "suspend", id |-> j.id, rev |-> j.rev]
FsChanges  == [t |-> "fs", id |-> NoRequest, rev |-> 0]
InitializeWorkspaces == [t |-> "init", id |-> NoRequest, rev |-> 0]

\* A job carries what its snapshot holds: the revision, the text of the document
\* and the projects.  A "hold" job carries no snapshot: the builder found that
\* the document is not open.
Jobs  == [id : Requests, mode : {"run", "hold"}, rev : Nat, text : Nat]
NoJob == [id |-> NoRequest, mode |-> "none", rev |-> 0, text |-> 0]

Parked == [id : Requests, rev : Nat]

\* Whether every registered workspace folder is initialized.
all_initialized == adding = 0

\* The snapshots of the database that are alive: a queued job owns one, and so
\* does a running one.  An unwound session request has dropped its snapshot before
\* panic_response queues anything, a document request drops it right after.
HoldsSnapshot(j) == j.mode = "run"
KeepsSnapshot(w) ==
    /\ HoldsSnapshot(worker[w].job)
    /\ \/ worker[w].phase = "run"
       \/ worker[w].phase = "unwound" /\ Kind[worker[w].job.id] = "document"
LiveSnapshots ==
    \/ \E i \in DOMAIN pool : HoldsSnapshot(pool[i])
    \/ \E w \in Workers : KeepsSnapshot(w)

TypeOK ==
    /\ pc \in {"next", "select", "spawn", "write", "resume", "answer", "stopped", "panicked"}
    /\ job \in Jobs \cup {NoJob}
    /\ pc = "spawn" => job \in Jobs
    /\ purpose \in {"none", "edit", "fs", "uv", "shutdown"}
    /\ mainq \in Seq(Events)
    /\ pending \subseteq Requests
    /\ tokens \subseteq Requests
    /\ held \subseteq Parked
    /\ suspended \subseteq Parked
    /\ deferred \in Seq(Messages)
    /\ revision \in Nat
    /\ text \in Nat
    /\ folders \in Nat
    /\ adding \in Nat
    /\ config \in Nat
    /\ uv \in {"pending", "signalled", "done"}
    /\ shutdown \in BOOLEAN
    /\ pool \in Seq(Jobs)
    /\ worker \in [Workers -> [phase : {"idle", "run", "unwound"}, job : Jobs \cup {NoJob}]]
    /\ \A w \in Workers : worker[w].phase # "idle" => worker[w].job \in Jobs
    /\ late \subseteq Requests
    /\ sent \subseteq Requests
    /\ cancelSent \subseteq Requests
    /\ cancelSeen \subseteq Requests
    /\ answers \in [Requests -> Nat]
    /\ editsSent \in Nat /\ fsSent \in Nat /\ foldersSent \in Nat

\* main_loop starts by asking for the configuration of the folders the client
\* opened with; a client that cannot be asked has them initialized at once.
Init ==
    /\ pc = "next" /\ job = NoJob /\ purpose = "none"
    /\ mainq = <<>>
    /\ pending = {} /\ tokens = {} /\ held = {} /\ suspended = {}
    /\ deferred = <<>>
    /\ revision = 0 /\ text = 0
    /\ IF SupportsConfig
         THEN folders = 0 /\ adding = 1 /\ config = 1
         ELSE folders = 1 /\ adding = 0 /\ config = 0
    /\ uv \in {"pending", "done"}
    /\ shutdown = FALSE
    /\ pool = <<>>
    /\ worker = [w \in Workers |-> [phase |-> "idle", job |-> NoJob]]
    /\ late = {} /\ sent = {} /\ cancelSent = {} /\ cancelSeen = {}
    /\ answers = [r \in Requests |-> 0]
    /\ editsSent = 0 /\ fsSent = 0 /\ foldersSent = 0

-----------------------------------------------------------------------------
(* next_event: release the held requests, then take the next event.        *)

\* (Mutant of Stale: the revision is not compared.)
NeverStale(rev) == FALSE

\* Has the session changed since the revision a parked request ran against?
Stale(rev) == rev # revision

\* (Mutant of MustRelease: the age of a held request is not looked at.)
MustReleaseUnlessOld(h) == h.id \notin pending \/ Stale(h.rev)

\* release_held_requests takes a request from its list if it was cancelled, if the
\* session changed, or if it is too old ...
MustRelease(h) == h.id \notin pending \/ Stale(h.rev) \/ h.id \in late

\* (Mutants of Released: a stale request is dropped instead of asked again, and
\* one that is both stale and old is asked again and answered.)
ReleasedAndDropped(h) ==
    IF h.id \notin pending \/ Stale(h.rev) THEN <<>> ELSE <<Respond(h.id)>>
ReleasedTwice(h) ==
    (IF h.id \in pending /\ Stale(h.rev) THEN <<Retry(h.id)>> ELSE <<>>)
      \o (IF h.id \in pending \cap late THEN <<Respond(h.id)>> ELSE <<>>)

\* ... and forgets it, asks it again, or answers it.
Released(h) ==
    IF h.id \notin pending THEN <<>>
    ELSE IF Stale(h.rev) THEN <<Retry(h.id)>>
    ELSE <<Respond(h.id)>>

ReleaseHeld(h) ==
    /\ pc = "next"
    /\ h \in held
    /\ MustRelease(h)
    /\ mainq' = mainq \o Released(h)
    /\ held' = held \ {h}
    /\ UNCHANGED <<pc, job, purpose, pending, tokens, suspended, deferred, revision, text,
                   folders, adding, config, uv, shutdown, pool, worker, clientVars>>

ReleasedHeld ==
    /\ pc = "next"
    /\ \A h \in held : ~MustRelease(h)
    /\ pc' = "select"
    /\ UNCHANGED <<job, purpose, mainq, sessionVars, pool, worker, clientVars>>

\* The queue is served first, then the deferred messages, then uv, then the client.
QueueEmpty  == mainq = <<>>
NoDeferred  == ~all_initialized \/ deferred = <<>>
ClientsTurn == pc = "select" /\ QueueEmpty /\ NoDeferred /\ uv # "signalled"

\* held_requests_deadline passes while the loop waits in select.
DeadlinePassed ==
    /\ ClientsTurn
    /\ \E h \in held : h.id \in pending \cap late
    /\ pc' = "next"
    /\ UNCHANGED <<job, purpose, mainq, sessionVars, pool, worker, clientVars>>

-----------------------------------------------------------------------------
(* Dispatching a request.                                                  *)

\* The job the builder of a background task makes of the session now.
JobFor(r) ==
    [id |-> r, rev |-> revision, text |-> text,
     mode |-> IF Kind[r] = "document" /\ Wanted[r] # 0 /\ text = 0 THEN "hold" ELSE "run"]

\* api::request and Scheduler::dispatch.  A sync request is answered through the
\* queue; a background one takes the cancellation token of a pending request,
\* and `expect`s there to be one.  `stillPending` says whether it is pending as
\* the builder runs.
Dispatch(r, q, stillPending) ==
    \/ /\ Kind[r] = "sync"
       /\ mainq' = Append(q, Respond(r))
       /\ pc' = "next"
       /\ UNCHANGED <<job, purpose>>
    \/ /\ Kind[r] = "shutdown"
       /\ mainq' = q
       /\ pc' = "answer"
       /\ UNCHANGED <<job, purpose>>
    \/ /\ Kind[r] \notin {"sync", "shutdown"}
       /\ mainq' = q
       /\ IF stillPending
            THEN pc' = "spawn" /\ job' = JobFor(r)
            ELSE pc' = "panicked" /\ UNCHANGED job
       /\ UNCHANGED purpose

\* Pool::spawn blocks until the queue has room.
SpawnJob ==
    /\ pc = "spawn"
    /\ Len(pool) < PoolCapacity
    /\ pool' = Append(pool, job)
    /\ job' = NoJob
    /\ pc' = "next"
    /\ UNCHANGED <<purpose, mainq, sessionVars, worker, clientVars>>

-----------------------------------------------------------------------------
(* Messages from the client.                                               *)

HandleRequest(r) ==
    /\ pending' = pending \cup {r}
    /\ IF shutdown
         THEN /\ mainq' = Append(mainq, Respond(r))
              /\ pc' = "next"
              /\ UNCHANGED <<job, purpose>>
         ELSE Dispatch(r, mainq, TRUE)
    /\ UNCHANGED <<tokens, held, suspended, revision, text, folders, adding, config, uv,
                   shutdown, cancelSeen, answers>>

\* Client::cancel answers a pending request itself, past the queue.
HandleCancel(r) ==
    /\ IF r \in pending
         THEN /\ pending' = pending \ {r}
              /\ tokens' = tokens \cup {r}
              /\ answers' = [answers EXCEPT ![r] = @ + 1]
         ELSE UNCHANGED <<pending, tokens, answers>>
    /\ cancelSeen' = cancelSeen \cup {r}
    /\ pc' = "resume"
    /\ UNCHANGED <<job, purpose, mainq, held, suspended, revision, text, folders, adding,
                   config, uv, shutdown>>

\* didOpen and didChange take the index from the database, so they wait for
\* every snapshot: see WriteDone for what they do then.
HandleEdit ==
    /\ pc' = "write"
    /\ purpose' = "edit"
    /\ UNCHANGED <<job, mainq, pending, tokens, held, suspended, revision, text, folders,
                   adding, config, uv, shutdown, cancelSeen, answers>>

\* didChangeWorkspaceFolders registers the folder and asks for its configuration,
\* or initializes it at once for a client that cannot be asked.
HandleAddFolder ==
    /\ IF SupportsConfig
         THEN adding' = adding + 1 /\ config' = config + 1 /\ UNCHANGED folders
         ELSE folders' = folders + 1 /\ UNCHANGED <<adding, config>>
    /\ pc' = "resume"
    /\ UNCHANGED <<job, purpose, mainq, pending, tokens, held, suspended, revision, text, uv,
                   shutdown, cancelSeen, answers>>

HandleExit ==
    /\ pc' = "stopped"
    /\ UNCHANGED <<job, purpose, mainq, pending, tokens, held, suspended, revision, text,
                   folders, adding, config, uv, shutdown, cancelSeen, answers>>

Handle(m) ==
    \/ m.t = "request" /\ HandleRequest(m.id)
    \/ m.t = "cancel"  /\ HandleCancel(m.id)
    \/ m.t = "edit"    /\ HandleEdit
    \/ m.t = "folder"  /\ HandleAddFolder
    \/ m.t = "exit"    /\ HandleExit

\* (Mutant of Bypasses: a cancellation is not deferred with its request.)
BypassesCancel(m) == m.t \in {"cancel", "exit"} \/ (m.t = "request" /\ Kind[m.id] = "shutdown")

\* should_defer_message: until every folder is initialized only the shutdown
\* request and the exit notification are let through.
Bypasses(m) ==
    \/ m.t = "request" /\ Kind[m.id] = "shutdown"
    \/ m.t = "exit"

Defer(m) ==
    /\ deferred' = Append(deferred, m)
    /\ pc' = "next"
    /\ UNCHANGED <<job, purpose, mainq, pending, tokens, held, suspended, revision, text,
                   folders, adding, config, uv, shutdown, cancelSeen, answers>>

\* What the client may send next.
MaySend(m) ==
    \/ m.t = "request" /\ m.id \notin sent
    \/ m.t = "cancel"  /\ m.id \in sent \ cancelSent
    \/ m.t = "edit"    /\ editsSent < MaxEdits
    \/ m.t = "folder"  /\ foldersSent < MaxFolders
    \/ m.t = "exit"

CountSent(m) ==
    /\ sent'        = IF m.t = "request" THEN sent \cup {m.id} ELSE sent
    /\ cancelSent'  = IF m.t = "cancel" THEN cancelSent \cup {m.id} ELSE cancelSent
    /\ editsSent'   = IF m.t = "edit" THEN editsSent + 1 ELSE editsSent
    /\ foldersSent' = IF m.t = "folder" THEN foldersSent + 1 ELSE foldersSent
    /\ UNCHANGED <<late, fsSent>>

ReceiveMessage(m) ==
    /\ ClientsTurn
    /\ MaySend(m)
    /\ CountSent(m)
    /\ IF all_initialized \/ Bypasses(m)
         THEN Handle(m) /\ UNCHANGED deferred
         ELSE Defer(m)
    /\ UNCHANGED <<pool, worker>>

\* take_deferred_messages: once every folder is initialized, oldest first, and
\* before anything new from the client.
TakeDeferred ==
    /\ pc = "select"
    /\ QueueEmpty
    /\ all_initialized
    /\ deferred # <<>>
    /\ Handle(Head(deferred))
    /\ deferred' = Tail(deferred)
    /\ UNCHANGED <<pool, worker, late, sent, cancelSent, editsSent, fsSent, foldersSent>>

\* (Mutant of ResponseExpected: any response is taken.)
AnyResponse == TRUE

\* A response is handled only if a request of the server's awaits it.
ResponseExpected == config > 0

\* The response to workspace/configuration: its handler queues the
\* initialization, or only logs an error.
ConfigResponse(ok) ==
    /\ ClientsTurn
    /\ ResponseExpected
    /\ ok \/ ConfigMayFail
    /\ config' = config - 1
    /\ mainq' = IF ok THEN Append(mainq, InitializeWorkspaces) ELSE mainq
    /\ pc' = "next"
    /\ UNCHANGED <<job, purpose, pending, tokens, held, suspended, deferred, revision, text,
                   folders, adding, uv, shutdown, pool, worker, clientVars>>

-----------------------------------------------------------------------------
(* Events from the queue.                                                  *)

TakeEvent(t) ==
    /\ pc = "select"
    /\ ~QueueEmpty
    /\ Head(mainq).t = t

\* (Mutant of Completes: every response is sent on.)
CompletesAny(r) == TRUE

\* Incoming::complete finds the request only while it is pending.
Completes(r) == r \in pending

\* Action::SendResponse: the response to a request that is no longer pending is
\* ignored.
SendResponse ==
    /\ TakeEvent("respond")
    /\ LET r == Head(mainq).id IN
         IF Completes(r)
           THEN /\ pending' = pending \ {r}
                /\ answers' = [answers EXCEPT ![r] = @ + 1]
           ELSE UNCHANGED <<pending, answers>>
    /\ mainq' = Tail(mainq)
    /\ pc' = "next"
    /\ UNCHANGED <<job, purpose, tokens, held, suspended, deferred, revision, text, folders,
                   adding, config, uv, shutdown, pool, worker, late, sent, cancelSent,
                   cancelSeen, editsSent, fsSent, foldersSent>>

\* (Mutant of MayRetry: a request cancelled meanwhile is dispatched too.)
MayRetryAny(r) == TRUE

\* Action::RetryRequest: dispatched again if it is still pending.
MayRetry(r) == r \in pending

RetryRequest ==
    /\ TakeEvent("retry")
    /\ LET r == Head(mainq).id IN
         IF MayRetry(r)
           THEN Dispatch(r, Tail(mainq), r \in pending)
           ELSE /\ mainq' = Tail(mainq)
                /\ pc' = "next"
                /\ UNCHANGED <<job, purpose>>
    /\ UNCHANGED <<sessionVars, pool, worker, clientVars>>

\* Session::hold_request: asked again at once if the session changed since the
\* request found its text missing.
HoldRequest ==
    /\ TakeEvent("hold")
    /\ LET e == Head(mainq) IN
         \/ /\ e.id \notin pending
            /\ mainq' = Tail(mainq)
            /\ UNCHANGED held
         \/ /\ e.id \in pending
            /\ ~Stale(e.rev)
            /\ mainq' = Tail(mainq)
            /\ held' = held \cup {[id |-> e.id, rev |-> e.rev]}
         \/ /\ e.id \in pending
            /\ Stale(e.rev)
            /\ mainq' = Append(Tail(mainq), Retry(e.id))
            /\ UNCHANGED held
    /\ pc' = "next"
    /\ UNCHANGED <<job, purpose, pending, tokens, suspended, deferred, revision, text, folders,
                   adding, config, uv, shutdown, pool, worker, clientVars>>

\* (Mutant of RefusesSuspension: the flag is not looked at.)
NeverRefusesSuspension == FALSE

\* After the shutdown request nothing would resume what is suspended.
RefusesSuspension == shutdown

\* Session::add_suspended_workspace_diagnostics_request.
SuspendWorkspaceDiagnostics ==
    /\ TakeEvent("suspend")
    /\ LET e == Head(mainq) IN
         IF RefusesSuspension
           THEN /\ mainq' = Append(Tail(mainq), Respond(e.id))
                /\ pc' = "next"
                /\ UNCHANGED suspended
           ELSE /\ mainq' = Tail(mainq)
                /\ suspended' = suspended \cup {[id |-> e.id, rev |-> e.rev]}
                /\ pc' = "resume"
    /\ UNCHANGED <<job, purpose, pending, tokens, held, deferred, revision, text, folders,
                   adding, config, uv, shutdown, pool, worker, clientVars>>

\* resume_suspended_workspace_diagnostic_requests looks at one request s.
ResumeSuspended(s) ==
    /\ pc = "resume"
    /\ s \in suspended
    /\ \/ s.id \notin pending /\ UNCHANGED mainq
       \/ s.id \in pending /\ Stale(s.rev) /\ mainq' = Append(mainq, Retry(s.id))
    /\ suspended' = suspended \ {s}
    /\ UNCHANGED <<pc, job, purpose, pending, tokens, held, deferred, revision, text, folders,
                   adding, config, uv, shutdown, pool, worker, clientVars>>

ResumedSuspended ==
    /\ pc = "resume"
    /\ \A s \in suspended : s.id \in pending /\ ~Stale(s.rev)
    /\ pc' = "next"
    /\ UNCHANGED <<job, purpose, mainq, sessionVars, pool, worker, clientVars>>

\* Action::ApplyFileSystemChanges and Action::RescanProjects.
ApplyFileSystemChanges ==
    /\ TakeEvent("fs")
    /\ mainq' = Tail(mainq)
    /\ pc' = "write"
    /\ purpose' = "fs"
    /\ UNCHANGED <<job, sessionVars, pool, worker, clientVars>>

\* initialize_workspace_folders gives every registered folder its project.  The
\* folders share one check mode, so it writes to no database that has snapshots.
InitializeWorkspaceFolders ==
    /\ TakeEvent("init")
    /\ mainq' = Tail(mainq)
    /\ folders' = folders + adding
    /\ adding' = 0
    /\ pc' = "next"
    /\ UNCHANGED <<job, purpose, pending, tokens, held, suspended, deferred, revision, text,
                   config, uv, shutdown, pool, worker, clientVars>>

PollUvEnvironments ==
    /\ pc = "select"
    /\ QueueEmpty
    /\ NoDeferred
    /\ uv = "signalled"
    /\ pc' = "write"
    /\ purpose' = "uv"
    /\ UNCHANGED <<job, mainq, sessionVars, pool, worker, clientVars>>

-----------------------------------------------------------------------------
(* Writing to the database, and shutting down.                             *)

\* (Mutant of answer_at_shutdown: the list is taken and forgotten.)
forget_at_shutdown(s) == <<>>

\* A suspended request is answered with what it found, or with an error.
answer_at_shutdown(s) == <<Respond(s.id)>>

\* ShutdownHandler answers each suspended request, then sets the flag and
\* cancels what the workers compute.
AnswerAtShutdown(s) ==
    /\ pc = "answer"
    /\ s \in suspended
    /\ mainq' = mainq \o answer_at_shutdown(s)
    /\ suspended' = suspended \ {s}
    /\ UNCHANGED <<pc, job, purpose, pending, tokens, held, deferred, revision, text, folders,
                   adding, config, uv, shutdown, pool, worker, clientVars>>

SetShutdownRequested ==
    /\ pc = "answer"
    /\ suspended = {}
    /\ shutdown' = TRUE
    /\ pc' = "write"
    /\ purpose' = "shutdown"
    /\ UNCHANGED <<job, mainq, pending, tokens, held, suspended, deferred, revision, text,
                   folders, adding, config, uv, pool, worker, clientVars>>

\* A write goes through once every snapshot is dropped.  What each does then:
\* an edit and a finished uv synchronization bump the revision and resume the
\* suspended requests, file system changes do if they changed the database.
WriteDone ==
    /\ pc = "write"
    /\ ~LiveSnapshots
    /\ purpose' = "none"
    /\ \/ /\ purpose = "edit"
          /\ text' = text + 1
          /\ revision' = revision + 1
          /\ pc' = "resume"
          /\ UNCHANGED <<uv, mainq>>
       \/ /\ purpose = "uv"
          /\ uv' = "done"
          /\ revision' = revision + 1
          /\ pc' = "resume"
          /\ UNCHANGED <<text, mainq>>
       \/ /\ purpose = "fs"
          /\ revision' = revision + 1
          /\ pc' = "resume"
          /\ UNCHANGED <<text, uv, mainq>>
       \/ /\ purpose = "fs"
          /\ pc' = "next"
          /\ UNCHANGED <<text, uv, mainq, revision>>
       \/ /\ purpose = "shutdown"
          /\ \E r \in Requests :
               Kind[r] = "shutdown" /\ mainq' = Append(mainq, Respond(r))
          /\ pc' = "next"
          /\ UNCHANGED <<text, uv, revision>>
    /\ UNCHANGED <<job, pending, tokens, held, suspended, deferred, folders, adding, config,
                   shutdown, pool, worker, clientVars>>

-----------------------------------------------------------------------------
(* The workers.                                                            *)

Idle == [phase |-> "idle", job |-> NoJob]

\* A request that was cancelled while its job was queued is dropped: cancelling
\* it answered it.
TakeJob(w) ==
    /\ worker[w].phase = "idle"
    /\ pool # <<>>
    /\ LET j == Head(pool) IN
         worker' = [worker EXCEPT ![w] = IF j.mode = "run" /\ j.id \in tokens
                                           THEN Idle
                                           ELSE [phase |-> "run", job |-> j]]
    /\ pool' = Tail(pool)
    /\ UNCHANGED <<pc, job, purpose, mainq, sessionVars, clientVars>>

\* The outcomes of running a job to its end.
Outcomes(j) ==
    CASE j.mode = "hold" -> {Hold(j)}
      [] j.mode = "run" /\ Kind[j.id] = "document" ->
           IF Wanted[j.id] \in {0, j.text} THEN {Respond(j.id)} ELSE {Hold(j)}
      [] j.mode = "run" /\ Kind[j.id] = "longpoll" ->
           {Suspend(j)} \cup (IF uv = "done" THEN {Respond(j.id)} ELSE {})
      [] j.mode = "run" /\ Kind[j.id] = "checkworkspace" ->
           IF uv = "done" THEN {Respond(j.id)} ELSE {Suspend(j)}
      [] OTHER -> {Respond(j.id)}

FinishJob(w) ==
    /\ worker[w].phase = "run"
    /\ \E e \in Outcomes(worker[w].job) : mainq' = Append(mainq, e)
    /\ worker' = [worker EXCEPT ![w] = Idle]
    /\ UNCHANGED <<pc, job, purpose, sessionVars, pool, clientVars>>

\* Salsa unwinds a computation while a write waits for it, and a client's
\* cancellation unwinds the computation of its request; panic_response then asks
\* the request again or answers it.
UnwindJob(w) ==
    /\ worker[w].phase = "run"
    /\ HoldsSnapshot(worker[w].job)
    /\ pc = "write" \/ worker[w].job.id \in tokens
    /\ worker' = [worker EXCEPT ![w].phase = "unwound"]
    /\ UNCHANGED <<pc, job, purpose, mainq, sessionVars, pool, clientVars>>

PanicResponse(w) ==
    /\ worker[w].phase = "unwound"
    /\ LET r == worker[w].job.id IN
         mainq' = Append(mainq, IF r \in Retriable THEN Retry(r) ELSE Respond(r))
    /\ worker' = [worker EXCEPT ![w] = Idle]
    /\ UNCHANGED <<pc, job, purpose, sessionVars, pool, clientVars>>

-----------------------------------------------------------------------------
(* The rest of the world: uv, the file system watcher and the clock.       *)

Running == pc \notin {"stopped", "panicked"}

UvFinishes ==
    /\ Running
    /\ uv = "pending"
    /\ uv' = "signalled"
    /\ UNCHANGED <<pc, job, purpose, mainq, pending, tokens, held, suspended, deferred, revision,
                   text, folders, adding, config, shutdown, pool, worker, clientVars>>

WatcherReports ==
    /\ Running
    /\ folders > 0
    /\ fsSent < MaxFsChanges
    /\ fsSent' = fsSent + 1
    /\ mainq' = Append(mainq, FsChanges)
    /\ UNCHANGED <<pc, job, purpose, sessionVars, pool, worker, late, sent, cancelSent,
                   cancelSeen, answers, editsSent, foldersSent>>

\* HOLD_LIMIT passes for a request that may be held: no other age is looked at.
HoldLimitPasses(r) ==
    /\ Running
    /\ r \in pending \ late
    /\ Kind[r] = "document" /\ Wanted[r] # 0
    /\ late' = late \cup {r}
    /\ UNCHANGED <<pc, job, purpose, mainq, sessionVars, pool, worker, sent, cancelSent,
                   cancelSeen, answers, editsSent, fsSent, foldersSent>>

-----------------------------------------------------------------------------
\* What the main thread does without waiting for the client.
MainStep ==
    \/ \E h \in held : ReleaseHeld(h)
    \/ ReleasedHeld
    \/ DeadlinePassed
    \/ SpawnJob
    \/ TakeDeferred
    \/ SendResponse
    \/ RetryRequest
    \/ HoldRequest
    \/ SuspendWorkspaceDiagnostics
    \/ \E s \in suspended : ResumeSuspended(s) \/ AnswerAtShutdown(s)
    \/ ResumedSuspended
    \/ ApplyFileSystemChanges
    \/ InitializeWorkspaceFolders
    \/ PollUvEnvironments
    \/ SetShutdownRequested
    \/ WriteDone

ClientStep ==
    \/ \E m \in Messages : ReceiveMessage(m)
    \/ \E ok \in BOOLEAN : ConfigResponse(ok)

WorkerStep(w) == TakeJob(w) \/ FinishJob(w) \/ UnwindJob(w) \/ PanicResponse(w)

\* The server has exited; the workers' last steps are of no consequence.
Stopped == ~Running /\ UNCHANGED vars

Next ==
    \/ MainStep
    \/ ClientStep
    \/ \E w \in Workers : WorkerStep(w)
    \/ UvFinishes
    \/ WatcherReports
    \/ \E r \in Requests : HoldLimitPasses(r)
    \/ Stopped

Spec == Init /\ [][Next]_vars

\* Every thread that can run eventually does, uv ends, time passes, and the
\* client answers the configuration requests, as the protocol obliges it to.
Fairness ==
    /\ WF_vars(MainStep)
    /\ \A w \in Workers : WF_vars(WorkerStep(w))
    /\ WF_vars(UvFinishes)
    /\ \A r \in Requests : WF_vars(HoldLimitPasses(r))
    /\ WF_vars(\E ok \in BOOLEAN : ConfigResponse(ok))

FairSpec == Spec /\ Fairness

-----------------------------------------------------------------------------
(* Properties.                                                             *)

\* The requests among the deferred messages.
Waiting == {deferred[i].id : i \in {k \in DOMAIN deferred : deferred[k].t = "request"}}

Lifecycle == INSTANCE RequestLifecycle WITH waiting <- Waiting, open <- pending

\* The server implements the life cycle of a request: deferral, dispatch, retries,
\* holds, suspensions, cancellation and shutdown never skip, repeat or reverse a
\* stage of it.
ImplementsLifecycle == Lifecycle!Spec

\* The LSP demands exactly one response to every request; request_queue.rs
\* tracks `pending` for that.  Never two: not when a cancellation crosses the
\* response, nor when a retry, an expired hold or a shutdown also answers.
AtMostOneResponse == \A r \in Requests : answers[r] <= 1

\* What AtMostOneResponse, CancelSticks and the refinement rest on: the stages of
\* a request exclude each other, and the client's order survives deferral.
IsRequest(m, r) == m.t = "request" /\ m.id = r
IsCancel(m, r)  == m.t = "cancel" /\ m.id = r

StagesDisjoint ==
    /\ pending \subseteq sent
    /\ Waiting \subseteq sent \ pending
    /\ \A r \in Requests : answers[r] > 0 => r \in sent /\ r \notin pending /\ r \notin Waiting
    /\ \A r \in Requests : answers[r] <= 1

DeferredOnce ==
    \A r \in Requests : \A i, k \in DOMAIN deferred :
        IsRequest(deferred[i], r) /\ IsRequest(deferred[k], r) => i = k

CancelsFollow ==
    /\ cancelSeen \subseteq sent \ (pending \cup Waiting)
    /\ \A r \in Requests : \A i \in DOMAIN deferred : IsCancel(deferred[i], r) =>
         /\ r \in sent
         /\ \A k \in DOMAIN deferred : IsRequest(deferred[k], r) => k < i

LifecycleInv == StagesDisjoint /\ DeferredOnce /\ CancelsFollow

\* The places a request can be in: an event, a job, a worker, a parked list or
\* the shutdown handler itself.
InQueue(q, r) == \E i \in DOMAIN q : q[i].id = r
Queued(r)   == InQueue(mainq, r)
Pooled(r)   == InQueue(pool, r)
RunBy(w, r) == worker[w].phase # "idle" /\ worker[w].job.id = r
Parking(r)  == {h \in held : h.id = r} \cup {s \in suspended : s.id = r}
Spawning(r) == pc = "spawn" /\ job.id = r
ShuttingDown(r) ==
    /\ Kind[r] = "shutdown"
    /\ pc = "answer" \/ (pc = "write" /\ purpose = "shutdown")

InCustody(r) ==
    \/ Queued(r)
    \/ Pooled(r)
    \/ \E w \in Workers : RunBy(w, r)
    \/ Parking(r) # {}
    \/ Spawning(r)
    \/ ShuttingDown(r)

\* A registered request that is neither answered nor cancelled is always in some
\* hands that will deal with it: no early return of a handler drops it.
NoRequestLost == Running => \A r \in pending : InCustody(r)

\* What NoRequestLost rests on: a worker drops only what has been answered.
CustodyInv == NoRequestLost /\ tokens \subseteq cancelSeen

\* How many hands hold r.
Custodians(r) ==
    Cardinality({i \in DOMAIN mainq : mainq[i].id = r})
      + Cardinality({i \in DOMAIN pool : pool[i].id = r})
      + Cardinality({w \in Workers : RunBy(w, r)})
      + Cardinality({h \in held : h.id = r})
      + Cardinality({s \in suspended : s.id = r})
      + (IF Spawning(r) THEN 1 ELSE 0)

\* A request is never in two hands, so that a handler never runs twice at the
\* same time for one request, and a retry never races an answer.
OneCustodian == \A r \in Requests : Custodians(r) <= 1

\* Deferral keeps the client's order: a cancellation the main loop has handled
\* found its request registered, so that the request never runs afterwards.
CancelSticks == cancelSeen \cap pending = {}

\* The loop never goes to wait while a held request's text is there, or while a
\* by/checkWorkspace request is suspended although the workspace is ready: the
\* change each waits for may come between its last run and its being parked.
NoMissedWakeup ==
    pc = "select" =>
        /\ \A h \in held : h.id \in pending => Wanted[h.id] # text
        /\ \A s \in suspended :
             s.id \in pending /\ Kind[s.id] = "checkworkspace" => uv # "done"

\* No handler `expect`s the token of a request that was cancelled meanwhile.
NeverPanics == pc # "panicked"

\* Once shutdown has been handled nothing resumes a suspended request, so none
\* may be suspended, not even one whose check was still running.
NoneSuspendedAfterShutdown == shutdown => suspended = {}

\* Every request but a long poll is answered, unless the server is told to exit.
EveryRequestAnswered ==
    \A r \in Requests :
        Kind[r] # "longpoll" => (r \in sent ~> answers[r] > 0 \/ ~Running)

\* Shutting down answers what is still open, long polls included.
ShutdownAnswersOpen ==
    \A r \in Requests : (shutdown /\ r \in pending) ~> (r \notin pending \/ ~Running)
=============================================================================
