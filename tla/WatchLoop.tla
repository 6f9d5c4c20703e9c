----------------------------- MODULE WatchLoop -----------------------------
(***************************************************************************)
(* `ty check` and `ty check --watch` (crates/ty/src/lib.rs, MainLoop).     *)
(*                                                                         *)
(* The main thread owns the database.  It applies the changes the file     *)
(* watcher sends and the results of uv, and starts checks, which run on    *)
(* clones of the database and send their diagnostics back.  A revision     *)
(* tells the diagnostics that are outdated by then.  The watcher           *)
(* (crates/ty_project/src/watch/watcher.rs) gathers events into batches;   *)
(* apply_changes (db/changes.rs) brings the file inputs and the index of   *)
(* the project's files (files.rs) up to date with them.                    *)
(***************************************************************************)
EXTENDS Naturals, Sequences, FiniteSets

CONSTANTS
    Files,      \* the python files that may be in the project
    Scripts,    \* those of them that have an environment of their own
    Config,     \* the configuration file
    Other,      \* a path that is neither, such as an ignored one
    Checks,     \* bound: checks that are alive at a time
    Capacity,   \* of the main loop's channel (10 in the code)
    MaxQueue,   \* of the operating system's events, before it drops them for a rescan
    MaxEvents,  \* events in a batch before it becomes a rescan (10000 in the code)
    MaxSaves    \* bound: changes to the files

Paths == Files \cup {Config, Other}
Targets == Scripts \cup {Config}

ASSUME WatchAssumption ==
    /\ Scripts \subseteq Files
    /\ Config \notin Files /\ Other \notin Files /\ Config # Other
    /\ Capacity \in Nat \ {0} /\ MaxEvents \in Nat /\ MaxQueue \in Nat \ {0} /\ MaxSaves \in Nat

VARIABLES
    \* the file system and the watcher
    disk,       \* disk[p]: the version of p; a file exists in the odd ones
    saves,
    events,     \* what the operating system has told the watcher
    debouncer,  \* "collect", "send", "ended" or "panicked"
    batch,      \* the events it has gathered
    \* the main thread
    watch,      \* is there a watcher
    uv,         \* is uv enabled
    pc,         \* "select"; "apply" and "poll" in a handler; "exit" and on: returning
    todo,       \* the events of the message that are still to be applied
    synced,     \* the files it has looked at for this message
    changed,    \* the files that were found changed; ChangedFiles::Known
    reload,     \* has the configuration changed
    walk,       \* are the project's files to be walked again; ChangedFiles::Unknown
    revision,   \* counted from 1; 0 is that of no report
    requested,  \* is there a request to check
    chan,       \* the channel to the main loop
    report,     \* what has been printed last
    interrupted,
    \* the database
    stat,       \* stat[p]: the version the file input of p was read from, or None
    text,       \* text[f]: the version its text was read from, or None
    index,      \* the files of the project
    env,        \* env[t]: the version the environment, or the project, was made from
    \* the synchronizations by uv
    job,        \* job[t]: "none", "run" or "done"
    key,        \* key[t]: the version it was last asked for
    again,      \* the targets asked for anew while they were in flight
    waking,     \* the targets of which the worker has yet to raise the wakeup
    wake,
    \* the checks, each with a clone of the database
    check

diskVars == <<disk, saves, events>>
watcherVars == <<debouncer, batch>>
batchVars == <<todo, synced, changed, reload, walk>>
mainVars == <<watch, uv, pc, batchVars, revision, requested, report>>
dbVars == <<stat, text, index, env>>
uvVars == <<job, key, again, waking, wake>>
vars == <<diskVars, watcherVars, mainVars, interrupted, chan, dbVars, uvVars, check>>

None == 0
Exists(v) == v % 2 = 1

\* Every version is above None; those of a path that is not there are even.
Versions == Nat
Kinds == {"created", "changed", "deleted", "rescan"}
Events == [kind : Kinds, path : Paths]
Rescan == [kind |-> "rescan", path |-> Other]

NoCheck == [phase |-> "free", rev |-> 0, seen |-> [f \in Files |-> None]]
CheckStates == [phase : {"free", "run", "send"}, rev : Nat, seen : [Files -> Versions]]

\* What a check has found: the versions it read, and the environment and the files of the
\* database it ran on.
Results == [rev : Nat, seen : [Files -> Versions], index : SUBSET Files, env : [Targets -> Versions]]
NoReport == [rev |-> 0, seen |-> [f \in Files |-> None], index |-> {}, env |-> [t \in Targets |-> None]]

Changes(es) == [type |-> "changes", events |-> es, result |-> NoReport]
Completed(r) == [type |-> "completed", events |-> <<>>, result |-> r]
Exit == [type |-> "exit", events |-> <<>>, result |-> NoReport]
Messages == [type : {"changes", "completed", "exit"}, events : Seq(Events), result : Results]

TypeOK ==
    /\ disk \in [Paths -> Versions] /\ saves \in Nat /\ events \in Seq(Events)
    /\ debouncer \in {"collect", "send", "ended", "panicked"} /\ batch \in Seq(Events)
    /\ watch \in BOOLEAN /\ uv \in BOOLEAN
    /\ pc \in {"select", "apply", "poll", "exit", "closed", "stopped", "done", "panicked"}
    /\ todo \in Seq(Events) /\ synced \subseteq Files /\ changed \subseteq Files
    /\ reload \in BOOLEAN /\ walk \in BOOLEAN
    /\ revision \in Nat /\ requested \in BOOLEAN
    /\ chan \in Seq(Messages) /\ Len(chan) <= Capacity
    /\ report \in Results /\ interrupted \in BOOLEAN
    /\ stat \in [Files -> Versions] /\ text \in [Files -> Versions]
    /\ index \subseteq Files
    /\ env \in [Targets -> Versions]
    /\ job \in [Targets -> {"none", "run", "done"}] /\ key \in [Targets -> Versions]
    /\ again \subseteq Targets /\ waking \subseteq Targets /\ wake \in BOOLEAN
    /\ check \in [Checks -> CheckStates]

\* The files are indexed and their environments requested, and a check is requested.
Init ==
    /\ disk \in [Paths -> {2, 3}] /\ disk[Config] = 3 /\ disk[Other] = 3
    /\ saves = 0 /\ events = <<>>
    /\ debouncer = "collect" /\ batch = <<>>
    /\ watch \in BOOLEAN /\ uv \in BOOLEAN
    /\ pc = "select" /\ todo = <<>> /\ synced = {} /\ changed = {} /\ reload = FALSE /\ walk = FALSE
    /\ revision = 1 /\ requested = TRUE /\ chan = <<>>
    /\ report = NoReport /\ interrupted = FALSE
    /\ stat = [f \in Files |-> IF Exists(disk[f]) THEN disk[f] ELSE None]
    /\ text = [f \in Files |-> None]
    /\ index = {f \in Files : Exists(disk[f])}
    /\ env = [t \in Targets |-> IF t = Config THEN disk[t] ELSE None]
    /\ job = [t \in Targets |-> IF uv /\ t \in Scripts /\ Exists(disk[t]) THEN "run" ELSE "none"]
    /\ key = [t \in Targets |-> IF uv /\ t \in Scripts /\ Exists(disk[t]) THEN disk[t] ELSE None]
    /\ again = {} /\ waking = {} /\ wake = FALSE
    /\ check = [c \in Checks |-> NoCheck]

-----------------------------------------------------------------------------
(* The file system and the watcher.                                        *)

Event(k, p) == [kind |-> k, path |-> p]

\* The operating system gives up on events when it has too many, and says so.
Notified(e) ==
    IF ~watch THEN events
    ELSE IF Len(events) < MaxQueue THEN Append(events, e) ELSE <<Rescan>>

ReceiverDropped == pc \in {"closed", "stopped", "done", "panicked"}

Save(p) ==
    /\ saves < MaxSaves
    /\ ~ReceiverDropped
    /\ saves' = saves + 1
    /\ \/ /\ Exists(disk[p])
          /\ disk' = [disk EXCEPT ![p] = @ + 2]
          /\ events' = Notified(Event("changed", p))
       \/ /\ p \in Files
          /\ disk' = [disk EXCEPT ![p] = @ + 1]
          /\ events' = Notified(Event(IF Exists(disk[p]) THEN "deleted" ELSE "created", p))
    /\ UNCHANGED <<watcherVars, mainVars, interrupted, chan, dbVars, uvVars, check>>

\* add_event: a rescan, or too many events, replaces all that were gathered.
Gathered(es, e) ==
    IF es = <<Rescan>> \/ e = Rescan \/ Len(es) > MaxEvents THEN <<Rescan>> ELSE Append(es, e)

TakeEvent ==
    /\ debouncer = "collect"
    /\ events # <<>>
    /\ batch' = Gathered(batch, Head(events))
    /\ events' = Tail(events)
    /\ UNCHANGED <<disk, saves, debouncer, mainVars, interrupted, chan, dbVars, uvVars, check>>

\* The handler waits for room in the channel, and unwraps the error of a closed one.
SendBatch ==
    \/ /\ ~ReceiverDropped
       /\ Len(chan) < Capacity
       /\ chan' = Append(chan, Changes(batch))
       /\ debouncer' = "collect"
       /\ batch' = <<>>
    \/ /\ ~ReceiverDropped
       /\ Len(chan) = Capacity
       /\ debouncer' = "send"
       /\ debouncer # "send"
       /\ UNCHANGED <<chan, batch>>
    \/ /\ ReceiverDropped
       /\ debouncer' = "panicked"
       /\ UNCHANGED <<chan, batch>>

\* Nothing came for 10 ms, or the batch is 3 s old.
FlushBatch ==
    /\ debouncer \in {"collect", "send"}
    /\ batch # <<>>
    /\ SendBatch
    /\ UNCHANGED <<diskVars, mainVars, interrupted, dbVars, uvVars, check>>

\* Once the senders are gone, what has been gathered is dropped.
EndDebouncer ==
    /\ debouncer = "collect"
    /\ pc = "stopped"
    /\ debouncer' = "ended"
    /\ batch' = <<>>
    /\ UNCHANGED <<diskVars, mainVars, interrupted, chan, dbVars, uvVars, check>>

\* Ctrl+C
Interrupt ==
    /\ ~interrupted
    /\ ~ReceiverDropped
    /\ Len(chan) < Capacity
    /\ interrupted' = TRUE
    /\ chan' = Append(chan, Exit)
    /\ UNCHANGED <<diskVars, watcherVars, mainVars, dbVars, uvVars, check>>

-----------------------------------------------------------------------------
(* Synchronizations; UvEnvironments has the details.                       *)

\* The scripts of S, and the project if p, are asked for.  A script that has what it
\* needs, or has asked for it, is left alone; j and a are the jobs and follow-ups so far.
RequestSync(S, p, j, a) ==
    LET asked == IF uv THEN {s \in S : Exists(stat'[s])} \cup (IF p THEN {Config} ELSE {}) ELSE {}
        start == {t \in asked : j[t] = "none" /\ (t # Config => env'[t] # stat'[t])}
        follow == {t \in asked : j[t] # "none" /\ (t # Config => key[t] # stat'[t])}
    IN /\ job' = [t \in Targets |-> IF t \in start THEN "run" ELSE j[t]]
       /\ key' = [t \in Targets |-> IF t \in (start \cup follow) \ {Config} THEN stat'[t] ELSE key[t]]
       /\ again' = a \cup follow

RunUv(t) ==
    /\ job[t] = "run"
    /\ ~ReceiverDropped
    /\ job' = [job EXCEPT ![t] = "done"]
    /\ waking' = waking \cup {t}
    /\ UNCHANGED <<diskVars, watcherVars, mainVars, interrupted, chan, dbVars, key, again, wake, check>>

WakeUp(t) ==
    /\ t \in waking
    /\ ~ReceiverDropped
    /\ waking' = waking \ {t}
    /\ wake' = TRUE
    /\ UNCHANGED <<diskVars, watcherVars, mainVars, interrupted, chan, dbVars, job, key, again, check>>

-----------------------------------------------------------------------------
(* The main thread.                                                        *)

Alive == {c \in Checks : check[c].phase # "free"}

\* A file that is known not to be there is not found by a walk, either.
Walked == {f \in Files : Exists(disk[f]) /\ (stat[f] = None \/ Exists(stat[f]))}

\* Project::files of an index that was reset; the files it finds become known.
WalkIf(b) ==
    /\ index' = IF b THEN Walked ELSE index
    /\ stat' = [f \in Files |-> IF b /\ f \in Walked /\ stat[f] = None THEN disk[f] ELSE stat[f]]

\* select_biased!: a wakeup comes first, then a message, then the request to check.
Received == pc = "select" /\ ~wake /\ chan # <<>>

NextRevision == revision + 1

ReceiveChanges ==
    /\ Received
    /\ Head(chan).type = "changes"
    /\ chan' = Tail(chan)
    /\ revision' = NextRevision
    /\ todo' = Head(chan).events
    /\ pc' = "apply"
    /\ UNCHANGED <<diskVars, watcherVars, watch, uv, synced, changed, reload, walk, requested,
                   report, interrupted, dbVars, uvVars, check>>

\* The version of f after File::sync_path: only a file that is known is looked at.
Synced(f) == IF stat[f] = None THEN None ELSE disk[f]

\* The same for an event of a message: the first one for f looks at it.
SyncedOnce(f) == IF f \in synced THEN stat[f] ELSE Synced(f)

\* (Mutant of Joins: a file that is changed is never part of the project.)
JoinsCreated(e) == e.kind = "created" /\ Exists(disk[e.path])

\* Is the file one of the project's after this event?
Joins(e) ==
    LET f == e.path
    IN /\ e.kind # "deleted"
       /\ e.kind = "changed" => stat[f] # None
       /\ e.kind = "created" => Exists(disk[f])
       /\ stat[f] # None => Exists(SyncedOnce(f))

\* One event of apply_changes for a file of the project.  The index is only touched
\* when no other handle is alive.  Whether it is a script is read from its text.
ApplyFile(e) ==
    LET f == e.path
        now == IF Joins(e) /\ stat[f] = None THEN disk[f] ELSE SyncedOnce(f)
    IN /\ Alive = {}
       /\ stat' = [stat EXCEPT ![f] = now]
       /\ text' = [text EXCEPT ![f] =
                     IF now = stat[f] /\ text[f] # None THEN text[f]
                     ELSE IF Joins(e) THEN disk[f] ELSE None]
       /\ index' = CASE e.kind = "deleted" -> index \ {f}
                     [] Joins(e) -> index \cup {f}
                     [] OTHER -> index
       /\ synced' = synced \cup {f}
       /\ changed' = IF Joins(e) THEN changed \cup {f} ELSE changed
       /\ todo' = Tail(todo)
       /\ UNCHANGED <<reload, walk>>

\* A rescan looks at every file that is known, and ends the batch.
ApplyRescan ==
    /\ Alive = {}
    /\ stat' = [f \in Files |-> Synced(f)]
    /\ text' = [f \in Files |-> IF Synced(f) = stat[f] THEN text[f] ELSE None]
    /\ reload' = TRUE /\ walk' = TRUE
    /\ todo' = <<>>
    /\ UNCHANGED <<index, synced, changed>>

ApplyEvent ==
    /\ pc = "apply"
    /\ todo # <<>>
    /\ LET e == Head(todo) IN
         \/ e = Rescan /\ ApplyRescan
         \/ e.path \in Files /\ ApplyFile(e)
         \/ /\ e.path = Config
            /\ Alive = {}
            /\ reload' = TRUE
            /\ todo' = Tail(todo)
            /\ UNCHANGED <<synced, changed, walk, stat, text, index>>
         \/ /\ e.path = Other /\ e # Rescan   \* nothing is written, and nothing waited for
            /\ todo' = Tail(todo)
            /\ UNCHANGED <<synced, changed, reload, walk, stat, text, index>>
    /\ UNCHANGED <<diskVars, watcherVars, watch, uv, pc, revision, requested, report, interrupted,
                   chan, env, uvVars, check>>

\* (Mutant of Request: changes do not request a check.)
RequestNone == UNCHANGED requested

\* request_check: the channel of requests holds one.
Request == requested' = TRUE

\* The end of apply_changes, and synchronize_environments.  Without uv the project is
\* rediscovered at once, which may find other files.
EndApply ==
    /\ pc = "apply"
    /\ todo = <<>>
    /\ \E filesChanged \in (IF reload /\ ~uv THEN BOOLEAN ELSE {FALSE}) :
         /\ WalkIf(walk \/ filesChanged)
         /\ env' = IF reload /\ ~uv THEN [env EXCEPT ![Config] = disk[Config]] ELSE env
         /\ RequestSync(IF walk \/ filesChanged THEN index' \cap Scripts ELSE changed \cap index \cap Scripts,
                        reload, job, again)
    /\ synced' = {} /\ changed' = {} /\ reload' = FALSE /\ walk' = FALSE
    /\ Request
    /\ pc' = "select"
    /\ UNCHANGED <<diskVars, watcherVars, watch, uv, todo, revision, report, interrupted, chan, text,
                   waking, wake, check>>

ReceiveWakeup ==
    /\ pc = "select"
    /\ wake
    /\ wake' = FALSE
    /\ pc' = "poll"
    /\ UNCHANGED <<diskVars, watcherVars, watch, uv, batchVars, revision, requested, report,
                   interrupted, chan, dbVars, job, key, again, waking, check>>

\* PollUvEnvironments: poll_sync waits for the other handles, records the results that
\* are wanted and submits the follow-ups of the others.
PollSync ==
    LET done == {t \in Targets : job[t] = "done"}
        wanted == done \ again
        jobs == [t \in Targets |-> IF t \in wanted THEN "none" ELSE IF t \in done THEN "run" ELSE job[t]]
    IN /\ pc = "poll"
       /\ Alive = {}
       /\ revision' = IF wanted = {} THEN revision ELSE NextRevision
       /\ env' = [t \in Targets |-> IF t \notin wanted THEN env[t]
                                    ELSE IF t = Config THEN disk[t] ELSE key[t]]
       /\ \E filesChanged \in (IF Config \in wanted THEN BOOLEAN ELSE {FALSE}) :
            /\ WalkIf(filesChanged)
            /\ RequestSync(IF filesChanged THEN index' \cap Scripts ELSE {}, FALSE, jobs, again \ done)
       /\ Request
       /\ pc' = "select"
       /\ UNCHANGED <<diskVars, watcherVars, watch, uv, batchVars, report, interrupted, chan, text,
                      waking, wake, check>>

Deferred == \E t \in Targets : job[t] # "none"

CheckWorkspace ==
    /\ pc = "select" /\ ~wake /\ chan = <<>>
    /\ requested
    /\ requested' = FALSE
    /\ \/ Deferred /\ UNCHANGED check
       \/ /\ ~Deferred
          /\ \E c \in Checks :
               /\ check[c].phase = "free"
               /\ check' = [check EXCEPT ![c] = [NoCheck EXCEPT !.phase = "run", !.rev = revision]]
    /\ UNCHANGED <<diskVars, watcherVars, watch, uv, pc, batchVars, revision, report, interrupted,
                   chan, dbVars, uvVars>>

\* (Mutant of Outdated: every result is printed.)
NeverOutdated(r) == FALSE

Outdated(r) == r.rev # revision

\* CheckCompleted: without a watcher the first report is the last.
ReceiveResult ==
    /\ Received
    /\ Head(chan).type = "completed"
    /\ chan' = Tail(chan)
    /\ LET r == Head(chan).result IN
         \/ Outdated(r) /\ UNCHANGED <<report, pc>>
         \/ /\ ~Outdated(r)
            /\ report' = r
            /\ pc' = IF watch THEN pc ELSE "closed"
    /\ UNCHANGED <<diskVars, watcherVars, watch, uv, batchVars, revision, requested, interrupted,
                   dbVars, uvVars, check>>

ReceiveExit ==
    /\ Received
    /\ Head(chan).type = "exit"
    /\ chan' = Tail(chan)
    /\ pc' = "exit"
    /\ UNCHANGED <<diskVars, watcherVars, watch, uv, batchVars, revision, requested, report,
                   interrupted, dbVars, uvVars, check>>

\* (Mutant of Cancelled: the main loop ends without waiting for the checks.)
CancelledAny == TRUE

\* trigger_cancellation returns when no other handle is alive.
Cancelled == Alive = {}

\* The main loop returns and drops its receiver, then the watcher with the last senders,
\* and joins the debouncer, whose panic it propagates.
Return ==
    /\ \/ pc = "exit" /\ Cancelled /\ pc' = "closed"
       \/ pc = "closed" /\ pc' = IF watch THEN "stopped" ELSE "done"
       \/ pc = "stopped" /\ debouncer = "ended" /\ pc' = "done"
       \/ pc = "stopped" /\ debouncer = "panicked" /\ pc' = "panicked"
    /\ UNCHANGED <<diskVars, watcherVars, watch, uv, batchVars, revision, requested, report,
                   interrupted, chan, dbVars, uvVars, check>>

-----------------------------------------------------------------------------
(* A check.                                                                *)

\* A text that is known is not read again.
CheckRead(c, f) ==
    /\ check[c].phase = "run"
    /\ f \in index
    /\ check[c].seen[f] = None
    /\ LET v == IF text[f] = None THEN disk[f] ELSE text[f] IN
         /\ text' = [text EXCEPT ![f] = v]
         /\ check' = [check EXCEPT ![c].seen[f] = v]
    /\ UNCHANGED <<diskVars, watcherVars, mainVars, interrupted, chan, stat, index, env, uvVars>>

\* The result is sent before the clone is dropped, and the send waits for room.
SendResult(c) ==
    /\ check[c].phase \in {"run", "send"}
    /\ \A f \in index : check[c].seen[f] # None
    /\ \/ /\ Len(chan) < Capacity
          /\ chan' = Append(chan, Completed([rev |-> check[c].rev, seen |-> check[c].seen,
                                             index |-> index, env |-> env]))
          /\ check' = [check EXCEPT ![c] = NoCheck]
       \/ /\ Len(chan) = Capacity
          /\ check[c].phase = "run"
          /\ check' = [check EXCEPT ![c].phase = "send"]
          /\ UNCHANGED chan
    /\ UNCHANGED <<diskVars, watcherVars, mainVars, interrupted, dbVars, uvVars>>

\* Does the main thread wait for the other handles?
Cancels ==
    \/ pc \in {"poll", "exit"}
    \/ pc = "apply" /\ todo # <<>> /\ (Head(todo) = Rescan \/ Head(todo).path # Other)

CheckCancelled(c) ==
    /\ check[c].phase = "run"
    /\ Cancels
    /\ check' = [check EXCEPT ![c] = NoCheck]
    /\ UNCHANGED <<diskVars, watcherVars, mainVars, interrupted, chan, dbVars, uvVars>>

-----------------------------------------------------------------------------
MainStep ==
    \/ ReceiveChanges \/ ApplyEvent \/ EndApply
    \/ ReceiveWakeup \/ PollSync
    \/ CheckWorkspace \/ ReceiveResult
    \/ ReceiveExit \/ Return

DebouncerStep == TakeEvent \/ FlushBatch \/ EndDebouncer

UvStep(t) == RunUv(t) \/ WakeUp(t)

CheckStep(c) ==
    (\E f \in Files : CheckRead(c, f)) \/ SendResult(c) \/ CheckCancelled(c)

\* Nothing to do until the next save, or the program has ended.
Quiet ==
    /\ \/ pc \in {"done", "panicked"}
       \/ /\ pc = "select" /\ chan = <<>> /\ ~requested /\ Alive = {}
          /\ events = <<>> /\ batch = <<>>
          /\ \A t \in Targets : job[t] = "none" /\ t \notin waking
          /\ ~wake
    /\ UNCHANGED vars

Next ==
    \/ \E p \in Paths : Save(p)
    \/ DebouncerStep
    \/ Interrupt
    \/ \E t \in Targets : UvStep(t)
    \/ MainStep
    \/ \E c \in Checks : CheckStep(c)
    \/ Quiet

Spec == Init /\ [][Next]_vars

\* The threads run, uv ends, and a batch is flushed in the end.
Fairness ==
    /\ WF_vars(MainStep)
    /\ WF_vars(DebouncerStep)
    /\ WF_vars(FlushBatch)
    /\ \A t \in Targets : WF_vars(UvStep(t))
    /\ \A c \in Checks : WF_vars(CheckStep(c))
FairSpec == Spec /\ Fairness

-----------------------------------------------------------------------------
(* Properties.                                                             *)

\* A result that is what the database has: the files of the project, none older than the
\* last change that was applied, and every script with the environment of its metadata.
Fresh(r) ==
    /\ r.index = index
    /\ \A f \in index : r.seen[f] >= stat[f]
    /\ r.env = env
    /\ uv => \A s \in index \cap Scripts : Exists(stat[s]) => env[s] = stat[s]

\* "Discarding check result for outdated revision": a result that crossed a change, a uv
\* result or a new request on its way through the channel is never printed.
PrintsFresh == [][report' # report => Fresh(report')]_vars

\* A check that is discarded, cancelled or deferred always has a successor: while the
\* last report is outdated, one is requested, running, in the channel or waits for uv.
NoCheckForgotten ==
    pc = "select" /\ report.rev # revision =>
        \/ requested
        \/ \E t \in Targets : job[t] # "none"
        \/ \E c \in Checks : check[c].phase # "free" /\ check[c].rev = revision
        \/ \E i \in DOMAIN chan : chan[i].type = "completed" /\ chan[i].result.rev = revision

\* No check is left to send its result to a channel that is closed, which panics.
NoCheckOutlivesLoop == ReceiverDropped => Alive = {}

\* "Automatically cancels any pending queries and waits for them to complete": the wait
\* ends.
WaitEnds == Cancels ~> ~Cancels

\* The report agrees with the files on disk.
UpToDate ==
    /\ report.index = {f \in Files : Exists(disk[f])}
    /\ \A f \in report.index : report.seen[f] = disk[f]
    /\ uv => \A s \in report.index \cap Scripts : report.env[s] = disk[s]
    /\ report.env[Config] = disk[Config]

\* "The watcher debounces events, but guarantees to send all changes eventually": once
\* the files are left alone the report comes to agree with them, unless interrupted.
EventuallyReported ==
    watch => <>[](UpToDate \/ pc \in {"done", "panicked"})

\* Without a watcher the program ends, and so does one that is interrupted.
EventuallyEnds == (~watch \/ interrupted) ~> pc \in {"done", "panicked"}
=============================================================================
