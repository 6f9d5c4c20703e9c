-------------------------- MODULE ServerLoopProofs --------------------------
(***************************************************************************)
(* Proofs about ServerLoop, for every set of requests and workers, every   *)
(* pool capacity and every bound.                                          *)
(***************************************************************************)
EXTENDS ServerLoop, TLAPS

-----------------------------------------------------------------------------
(* The values the operators build have their types.                        *)

LEMMA EventTypes ==
    /\ \A r \in Requests : Respond(r) \in Events /\ Retry(r) \in Events
    /\ \A j \in Jobs : Hold(j) \in Events /\ Suspend(j) \in Events
    /\ FsChanges \in Events
    /\ InitializeWorkspaces \in Events
BY DEF Respond, Retry, Hold, Suspend, FsChanges, InitializeWorkspaces, Events, Jobs

LEMMA EventFields ==
    ASSUME NEW e \in Events, e.t \in {"respond", "retry", "hold", "suspend"}
    PROVE  e.id \in Requests /\ e.rev \in Nat
BY DEF Events

LEMMA MessageFields ==
    ASSUME NEW m \in Messages, m.t \in {"request", "cancel"}
    PROVE  m.id \in Requests
BY DEF Messages

\* A nonempty queue of S has its head in S.
LEMMA QueueHead ==
    ASSUME NEW S, NEW q \in Seq(S), q # <<>>
    PROVE  Head(q) \in S /\ Tail(q) \in Seq(S)
OBVIOUS

LEMMA JobForType ==
    ASSUME NEW r \in Requests, revision \in Nat, text \in Nat
    PROVE  JobFor(r) \in Jobs
BY DEF JobFor, Jobs

LEMMA OutcomeTypes ==
    ASSUME NEW j \in Jobs, NEW e \in Outcomes(j)
    PROVE  e \in Events
<1>1. j.id \in Requests /\ j.mode \in {"run", "hold"}
  BY DEF Jobs
<1>2. e \in {Respond(j.id), Hold(j), Suspend(j)}
  BY <1>1 DEF Outcomes
<1> QED
  BY <1>1, <1>2, EventTypes

-----------------------------------------------------------------------------
(* Type correctness.                                                       *)

LEMMA TypeInit == Init => TypeOK
<1> SUFFICES ASSUME Init PROVE TypeOK
  OBVIOUS
<1>1. worker \in [Workers -> [phase : {"idle", "run", "unwound"}, job : Jobs \cup {NoJob}]]
  BY DEF Init
<1>2. \A w \in Workers : worker[w].phase = "idle"
  BY DEF Init
<1>3. answers \in [Requests -> Nat]
  BY DEF Init
<1>4. folders \in Nat /\ adding \in Nat /\ config \in Nat
  BY DEF Init
<1>5. mainq \in Seq(Events) /\ deferred \in Seq(Messages) /\ pool \in Seq(Jobs)
  BY DEF Init
<1> QED
  BY <1>1, <1>2, <1>3, <1>4, <1>5 DEF Init, TypeOK

\* Handing a request to its task keeps the types, given what becomes of the queue.
LEMMA TypeDispatch ==
    ASSUME TypeOK, NEW r \in Requests, NEW q \in Seq(Events), NEW p \in BOOLEAN,
           Dispatch(r, q, p)
    PROVE  /\ pc' \in {"next", "answer", "spawn", "panicked"}
           /\ job' \in Jobs \cup {NoJob}
           /\ pc' = "spawn" => job' \in Jobs
           /\ purpose' = purpose
           /\ mainq' \in Seq(Events)
<1>1. JobFor(r) \in Jobs
  BY JobForType DEF TypeOK
<1>2. Append(q, Respond(r)) \in Seq(Events)
  BY EventTypes
<1> QED
  BY <1>1, <1>2 DEF Dispatch, TypeOK

LEMMA TypeHandle ==
    ASSUME TypeOK, NEW m \in Messages, Handle(m), deferred' \in Seq(Messages),
           pc \in {"select"}, UNCHANGED <<pool, worker>>, late' \subseteq Requests,
           sent' \subseteq Requests, cancelSent' \subseteq Requests,
           editsSent' \in Nat, fsSent' \in Nat, foldersSent' \in Nat
    PROVE  TypeOK'
<1>1. ASSUME m.t = "request", HandleRequest(m.id) PROVE TypeOK'
  <2>1. m.id \in Requests
    BY <1>1, MessageFields
  <2>2. /\ pc' \in {"next", "answer", "spawn", "panicked"}
        /\ job' \in Jobs \cup {NoJob}
        /\ pc' = "spawn" => job' \in Jobs
        /\ purpose' = purpose
        /\ mainq' \in Seq(Events)
    <3>1. CASE shutdown
      <4>1. Append(mainq, Respond(m.id)) \in Seq(Events)
        BY <2>1, EventTypes DEF TypeOK
      <4> QED BY <3>1, <4>1, <1>1 DEF HandleRequest, TypeOK
    <3>2. CASE ~shutdown
      <4>1. Dispatch(m.id, mainq, TRUE)
        BY <3>2, <1>1 DEF HandleRequest
      <4> QED BY <4>1, <2>1, TypeDispatch DEF TypeOK
    <3> QED BY <3>1, <3>2
  <2> QED BY <1>1, <2>1, <2>2 DEF HandleRequest, TypeOK
<1>2. ASSUME m.t = "cancel", HandleCancel(m.id) PROVE TypeOK'
  <2>1. m.id \in Requests
    BY <1>2, MessageFields
  <2>2. answers \in [Requests -> Nat] /\ pending \subseteq Requests /\ tokens \subseteq Requests
    BY DEF TypeOK
  <2>3. answers' \in [Requests -> Nat]
    <3>1. answers' = answers \/ answers' = [answers EXCEPT ![m.id] = @ + 1]
      BY <1>2 DEF HandleCancel
    <3> QED BY <3>1, <2>1, <2>2
  <2>4. pending' \subseteq Requests /\ tokens' \subseteq Requests
    BY <1>2, <2>1, <2>2 DEF HandleCancel
  <2> QED BY <1>2, <2>1, <2>3, <2>4 DEF HandleCancel, TypeOK
<1>3. CASE HandleEdit
  BY <1>3 DEF HandleEdit, TypeOK
<1>4. CASE HandleAddFolder
  <2>1. folders \in Nat /\ adding \in Nat /\ config \in Nat
    BY DEF TypeOK
  <2>2. folders' \in Nat /\ adding' \in Nat /\ config' \in Nat
    BY <1>4, <2>1 DEF HandleAddFolder
  <2> QED BY <1>4, <2>2 DEF HandleAddFolder, TypeOK
<1>5. CASE HandleExit
  BY <1>5 DEF HandleExit, TypeOK
<1> QED
  BY <1>1, <1>2, <1>3, <1>4, <1>5 DEF Handle

LEMMA TypeMain == ASSUME TypeOK, MainStep PROVE TypeOK'
<1>1. ASSUME NEW h \in held, ReleaseHeld(h) PROVE TypeOK'
  <2>1. h.id \in Requests
    BY DEF TypeOK, Parked
  <2>2. Released(h) \in Seq(Events)
    BY <2>1, EventTypes DEF Released
  <2>3. mainq \o Released(h) \in Seq(Events)
    BY <2>2 DEF TypeOK
  <2> QED BY <1>1, <2>3 DEF ReleaseHeld, TypeOK, clientVars
<1>2. CASE ReleasedHeld
  BY <1>2 DEF ReleasedHeld, TypeOK, sessionVars, clientVars
<1>3. CASE DeadlinePassed
  BY <1>3 DEF DeadlinePassed, TypeOK, sessionVars, clientVars
<1>4. CASE SpawnJob
  BY <1>4 DEF SpawnJob, TypeOK, sessionVars, clientVars
<1>5. CASE TakeDeferred
  <2>1. Head(deferred) \in Messages /\ Tail(deferred) \in Seq(Messages)
    BY <1>5, QueueHead DEF TakeDeferred, TypeOK
  <2> QED BY <1>5, <2>1, TypeHandle DEF TakeDeferred, TypeOK
<1>6. CASE SendResponse
  <2>1. Head(mainq) \in Events /\ Tail(mainq) \in Seq(Events)
    BY <1>6, QueueHead DEF SendResponse, TakeEvent, QueueEmpty, TypeOK
  <2>2. Head(mainq).id \in Requests
    BY <1>6, <2>1, EventFields DEF SendResponse, TakeEvent
  <2>3. answers' \in [Requests -> Nat]
    <3>1. answers \in [Requests -> Nat]
      BY DEF TypeOK
    <3>2. answers' = answers \/ answers' = [answers EXCEPT ![Head(mainq).id] = @ + 1]
      BY <1>6 DEF SendResponse
    <3> QED BY <3>1, <3>2, <2>2
  <2> QED BY <1>6, <2>1, <2>2, <2>3 DEF SendResponse, TypeOK
<1>7. CASE RetryRequest
  <2>1. Head(mainq) \in Events /\ Tail(mainq) \in Seq(Events)
    BY <1>7, QueueHead DEF RetryRequest, TakeEvent, QueueEmpty, TypeOK
  <2>2. Head(mainq).id \in Requests
    BY <1>7, <2>1, EventFields DEF RetryRequest, TakeEvent
  <2>3. /\ pc' \in {"next", "answer", "spawn", "panicked"}
        /\ job' \in Jobs \cup {NoJob}
        /\ pc' = "spawn" => job' \in Jobs
        /\ purpose' = purpose
        /\ mainq' \in Seq(Events)
    <3>1. CASE MayRetry(Head(mainq).id)
      <4>1. Dispatch(Head(mainq).id, Tail(mainq), Head(mainq).id \in pending)
        BY <1>7, <3>1 DEF RetryRequest
      <4>2. (Head(mainq).id \in pending) \in BOOLEAN
        OBVIOUS
      <4> QED BY <4>1, <4>2, <2>1, <2>2, TypeDispatch
    <3>2. CASE ~MayRetry(Head(mainq).id)
      BY <1>7, <3>2, <2>1 DEF RetryRequest, TypeOK
    <3> QED BY <3>1, <3>2
  <2> QED BY <1>7, <2>3 DEF RetryRequest, TypeOK, sessionVars, clientVars
<1>8. CASE HoldRequest
  <2>1. Head(mainq) \in Events /\ Tail(mainq) \in Seq(Events)
    BY <1>8, QueueHead DEF HoldRequest, TakeEvent, QueueEmpty, TypeOK
  <2>2. /\ Head(mainq).id \in Requests
        /\ Head(mainq).rev \in Nat
    BY <1>8, <2>1, EventFields DEF HoldRequest, TakeEvent
  <2>3. mainq' \in Seq(Events)
    <3>1. Append(Tail(mainq), Retry(Head(mainq).id)) \in Seq(Events)
      BY <2>1, <2>2, EventTypes
    <3> QED BY <1>8, <2>1, <3>1 DEF HoldRequest
  <2>4. held' \subseteq Parked
    BY <1>8, <2>2 DEF HoldRequest, TypeOK, Parked
  <2> QED BY <1>8, <2>3, <2>4 DEF HoldRequest, TypeOK, clientVars
<1>9. CASE SuspendWorkspaceDiagnostics
  <2>1. Head(mainq) \in Events /\ Tail(mainq) \in Seq(Events)
    BY <1>9, QueueHead DEF SuspendWorkspaceDiagnostics, TakeEvent, QueueEmpty, TypeOK
  <2>2. /\ Head(mainq).id \in Requests
        /\ Head(mainq).rev \in Nat
    BY <1>9, <2>1, EventFields DEF SuspendWorkspaceDiagnostics, TakeEvent
  <2>3. mainq' \in Seq(Events)
    BY <1>9, <2>1, <2>2, EventTypes DEF SuspendWorkspaceDiagnostics
  <2>4. suspended' \subseteq Parked
    BY <1>9, <2>2 DEF SuspendWorkspaceDiagnostics, TypeOK, Parked
  <2> QED BY <1>9, <2>3, <2>4 DEF SuspendWorkspaceDiagnostics, TypeOK, clientVars
<1>10. ASSUME NEW s \in suspended, ResumeSuspended(s) PROVE TypeOK'
  <2>1. s.id \in Requests
    BY DEF TypeOK, Parked
  <2>2. mainq' \in Seq(Events)
    <3>1. Append(mainq, Retry(s.id)) \in Seq(Events)
      BY <2>1, EventTypes DEF TypeOK
    <3> QED BY <1>10, <3>1 DEF ResumeSuspended, TypeOK
  <2> QED BY <1>10, <2>2 DEF ResumeSuspended, TypeOK, clientVars
<1>11. ASSUME NEW s \in suspended, AnswerAtShutdown(s) PROVE TypeOK'
  <2>1. s.id \in Requests
    BY DEF TypeOK, Parked
  <2>2. answer_at_shutdown(s) \in Seq(Events)
    BY <2>1, EventTypes DEF answer_at_shutdown
  <2>3. mainq' \in Seq(Events)
    BY <1>11, <2>2 DEF AnswerAtShutdown, TypeOK
  <2> QED BY <1>11, <2>3 DEF AnswerAtShutdown, TypeOK, clientVars
<1>12. CASE ResumedSuspended
  BY <1>12 DEF ResumedSuspended, TypeOK, sessionVars, clientVars
<1>13. CASE ApplyFileSystemChanges
  <2>1. Tail(mainq) \in Seq(Events)
    BY <1>13, QueueHead DEF ApplyFileSystemChanges, TakeEvent, QueueEmpty, TypeOK
  <2> QED BY <1>13, <2>1 DEF ApplyFileSystemChanges, TypeOK, sessionVars, clientVars
<1>14. CASE InitializeWorkspaceFolders
  <2>1. Tail(mainq) \in Seq(Events)
    BY <1>14, QueueHead DEF InitializeWorkspaceFolders, TakeEvent, QueueEmpty, TypeOK
  <2> QED BY <1>14, <2>1 DEF InitializeWorkspaceFolders, TypeOK, clientVars
<1>15. CASE PollUvEnvironments
  BY <1>15 DEF PollUvEnvironments, TypeOK, sessionVars, clientVars
<1>16. CASE SetShutdownRequested
  BY <1>16 DEF SetShutdownRequested, TypeOK, clientVars
<1>17. CASE WriteDone
  <2>1. \A r \in Requests : Append(mainq, Respond(r)) \in Seq(Events)
    BY EventTypes DEF TypeOK
  <2>2. mainq' \in Seq(Events)
    BY <1>17, <2>1 DEF WriteDone, TypeOK
  <2> QED BY <1>17, <2>2 DEF WriteDone, TypeOK, clientVars
<1> QED
  BY <1>1, <1>2, <1>3, <1>4, <1>5, <1>6, <1>7, <1>8, <1>9, <1>10, <1>11, <1>12, <1>13,
     <1>14, <1>15, <1>16, <1>17 DEF MainStep

LEMMA TypeClient == ASSUME TypeOK, ClientStep PROVE TypeOK'
<1>1. ASSUME NEW m \in Messages, ReceiveMessage(m) PROVE TypeOK'
  <2>1. /\ sent' \subseteq Requests /\ cancelSent' \subseteq Requests
        /\ editsSent' \in Nat /\ foldersSent' \in Nat
        /\ late' = late /\ fsSent' = fsSent
    BY <1>1, MessageFields DEF ReceiveMessage, CountSent, TypeOK
  <2>2. CASE all_initialized \/ Bypasses(m)
    BY <1>1, <2>1, <2>2, TypeHandle DEF ReceiveMessage, ClientsTurn, TypeOK
  <2>3. CASE ~(all_initialized \/ Bypasses(m))
    <3>1. Append(deferred, m) \in Seq(Messages)
      BY DEF TypeOK
    <3>2. Defer(m) /\ UNCHANGED <<pool, worker>>
      BY <1>1, <2>3 DEF ReceiveMessage
    <3> QED BY <2>1, <3>1, <3>2 DEF Defer, TypeOK
  <2> QED BY <2>2, <2>3
<1>2. ASSUME NEW ok \in BOOLEAN, ConfigResponse(ok) PROVE TypeOK'
  <2>1. Append(mainq, InitializeWorkspaces) \in Seq(Events)
    BY EventTypes DEF TypeOK
  <2>2. config' \in Nat
    BY <1>2 DEF ConfigResponse, ResponseExpected, TypeOK
  <2> QED BY <1>2, <2>1, <2>2 DEF ConfigResponse, TypeOK, clientVars
<1> QED
  BY <1>1, <1>2 DEF ClientStep

LEMMA TypeWorker == ASSUME TypeOK, NEW w \in Workers, WorkerStep(w) PROVE TypeOK'
<1> DEFINE Working == [phase : {"idle", "run", "unwound"}, job : Jobs \cup {NoJob}]
<1>1. Idle \in Working /\ Idle.phase = "idle"
  BY DEF Idle
<1>2. CASE TakeJob(w)
  <2>1. Head(pool) \in Jobs /\ Tail(pool) \in Seq(Jobs)
    BY <1>2, QueueHead DEF TakeJob, TypeOK
  <2>2. PICK x \in {Idle, [phase |-> "run", job |-> Head(pool)]} :
            worker' = [worker EXCEPT ![w] = x]
    BY <1>2 DEF TakeJob
  <2>3. x \in Working /\ (x.phase # "idle" => x.job \in Jobs)
    BY <1>1, <2>1, <2>2
  <2> QED BY <1>2, <2>1, <2>2, <2>3 DEF TakeJob, TypeOK, sessionVars, clientVars
<1>3. CASE FinishJob(w)
  <2>1. worker[w].job \in Jobs
    BY <1>3 DEF FinishJob, TypeOK
  <2>2. mainq' \in Seq(Events)
    BY <1>3, <2>1, OutcomeTypes DEF FinishJob, TypeOK
  <2> QED BY <1>1, <1>3, <2>2 DEF FinishJob, TypeOK, sessionVars, clientVars
<1>4. CASE UnwindJob(w)
  <2>1. worker' \in [Workers -> Working]
    BY <1>4 DEF UnwindJob, TypeOK
  <2>2. \A v \in Workers : worker'[v].phase # "idle" => worker'[v].job \in Jobs
    BY <1>4 DEF UnwindJob, TypeOK
  <2> QED BY <1>4, <2>1, <2>2 DEF UnwindJob, TypeOK, sessionVars, clientVars
<1>5. CASE PanicResponse(w)
  <2>1. worker[w].job.id \in Requests
    BY <1>5 DEF PanicResponse, TypeOK, Jobs
  <2>2. mainq' \in Seq(Events)
    BY <1>5, <2>1, EventTypes DEF PanicResponse, TypeOK
  <2> QED BY <1>1, <1>5, <2>2 DEF PanicResponse, TypeOK, sessionVars, clientVars
<1> QED
  BY <1>2, <1>3, <1>4, <1>5 DEF WorkerStep

LEMMA TypeStep == TypeOK /\ [Next]_vars => TypeOK'
<1> SUFFICES ASSUME TypeOK, [Next]_vars PROVE TypeOK'
  OBVIOUS
<1>1. CASE UvFinishes
  BY <1>1 DEF UvFinishes, TypeOK, clientVars
<1>2. CASE WatcherReports
  <2>1. Append(mainq, FsChanges) \in Seq(Events)
    BY EventTypes DEF TypeOK
  <2> QED BY <1>2, <2>1 DEF WatcherReports, TypeOK, sessionVars
<1>3. ASSUME NEW r \in Requests, HoldLimitPasses(r) PROVE TypeOK'
  BY <1>3 DEF HoldLimitPasses, TypeOK, sessionVars
<1>4. CASE UNCHANGED vars
  BY <1>4 DEF TypeOK, vars, sessionVars, clientVars
<1> QED
  BY <1>1, <1>2, <1>3, <1>4, TypeMain, TypeClient, TypeWorker DEF Next, Stopped

\* Every variable of the main loop, the session, the pool and the client keeps its
\* type; a job that is being spawned or run is always a real one.
THEOREM TypeCorrect == Spec => []TypeOK
BY TypeInit, TypeStep, PTL DEF Spec
=============================================================================
