------------------------ MODULE ServerCustodyProofs ------------------------
(***************************************************************************)
(* No pending request is ever lost or in two hands: ServerLoop passes it   *)
(* from one hand to the next until it is answered, and whoever parks it    *)
(* sees the change it waits for.                                           *)
(***************************************************************************)
EXTENDS ServerLifecycleProofs, FiniteSetTheorems

LEMMA InAppend ==
    ASSUME NEW S, NEW q \in Seq(S), NEW e \in S, NEW r
    PROVE  InQueue(Append(q, e), r) <=> InQueue(q, r) \/ e.id = r
<1> DEFINE p == Append(q, e)
<1>1. /\ DOMAIN p = DOMAIN q \cup {Len(q) + 1}
      /\ p[Len(q) + 1] = e
      /\ \A i \in DOMAIN q : p[i] = q[i]
  BY AppendIndices
<1> QED
  BY <1>1 DEF InQueue

LEMMA InTail ==
    ASSUME NEW S, NEW q \in Seq(S), q # <<>>, NEW r, InQueue(q, r)
    PROVE  Head(q).id = r \/ InQueue(Tail(q), r)
<1> DEFINE p == Tail(q)
<1>1. PICK i \in DOMAIN q : q[i].id = r
  BY DEF InQueue
<1>2. q[1] = Head(q) /\ (i # 1 => i - 1 \in DOMAIN p /\ p[i - 1] = q[i])
  BY TailIndices
<1> QED
  BY <1>1, <1>2 DEF InQueue

\* The events name the request they are made for.
LEMMA EventIds ==
    /\ \A r : Respond(r).id = r /\ Retry(r).id = r
    /\ \A j : Hold(j).id = j.id /\ Suspend(j).id = j.id
BY DEF Respond, Retry, Hold, Suspend

\* A request in no hand the step touches stays where it is.
LEMMA Stays ==
    ASSUME NEW r, InCustody(r), pc \notin {"spawn", "answer", "write"},
           Queued(r) => InQueue(mainq', r) \/ InCustody(r)',
           Parking(r) # {} => Parking(r)' # {} \/ InCustody(r)',
           UNCHANGED <<pool, worker>>
    PROVE  InCustody(r)'
BY DEF InCustody, Queued, Pooled, RunBy, Spawning, ShuttingDown, InQueue

\* Dispatching a request puts it in someone's hands, unless the server panics.
LEMMA DispatchTakes ==
    ASSUME NEW r \in Requests, NEW q \in Seq(Events), NEW p, Dispatch(r, q, p), Running'
    PROVE  /\ InCustody(r)'
           /\ \A x : InQueue(q, x) => InQueue(mainq', x)
<1>1. CASE Kind[r] = "sync"
  <2>1. mainq' = Append(q, Respond(r))
    BY <1>1 DEF Dispatch
  <2>2. Respond(r) \in Events
    BY EventTypes
  <2> QED
    BY <2>1, <2>2, InAppend, EventIds DEF InCustody, Queued
<1>2. CASE Kind[r] = "shutdown"
  BY <1>2 DEF Dispatch, InCustody, ShuttingDown, InQueue
<1>3. CASE Kind[r] \notin {"sync", "shutdown"}
  BY <1>3 DEF Dispatch, Running, InCustody, Spawning, JobFor, InQueue
<1> QED
  BY <1>1, <1>2, <1>3

\* Handling a message leaves every pending request in someone's hands.
LEMMA HandleKeeps ==
    ASSUME TypeOK, CustodyInv, NEW m \in Messages, Handle(m), pc = "select",
           UNCHANGED <<pool, worker>>
    PROVE  CustodyInv'
<1>1. ASSUME m.t = "request", HandleRequest(m.id) PROVE CustodyInv'
  <2>1. m.id \in Requests
    BY <1>1, MessageFields
  <2>2. mainq \in Seq(Events)
    BY DEF TypeOK
  <2>3. ASSUME Running'
        PROVE  InCustody(m.id)' /\ \A x : InQueue(mainq, x) => InQueue(mainq', x)
    <3>1. CASE shutdown
      <4>1. mainq' = Append(mainq, Respond(m.id)) /\ Respond(m.id) \in Events
        BY <1>1, <2>1, <3>1, EventTypes DEF HandleRequest
      <4> QED
        BY <2>2, <4>1, InAppend, EventIds DEF InCustody, Queued
    <3>2. CASE ~shutdown
      <4>1. Dispatch(m.id, mainq, TRUE)
        BY <1>1, <3>2 DEF HandleRequest
      <4> QED
        BY <2>1, <2>2, <2>3, <4>1, DispatchTakes
    <3> QED BY <3>1, <3>2
  <2>4. ASSUME NEW r \in pending', Running' PROVE InCustody(r)'
    <3>1. CASE r = m.id
      BY <2>3, <2>4, <3>1
    <3>2. CASE r # m.id
      <4>1. InCustody(r)
        BY <1>1, <2>4, <3>2 DEF CustodyInv, NoRequestLost, Running, HandleRequest
      <4>2. Parking(r)' = Parking(r)
        BY <1>1 DEF HandleRequest, Parking
      <4> QED
        BY <2>3, <2>4, <4>1, <4>2, Stays DEF Queued
    <3> QED BY <3>1, <3>2
  <2> QED
    BY <1>1, <2>4 DEF CustodyInv, NoRequestLost, HandleRequest
<1>2. ASSUME ~(m.t = "request" /\ HandleRequest(m.id)) PROVE CustodyInv'
  <2>1. /\ pending' \subseteq pending
        /\ UNCHANGED <<mainq, held, suspended>>
        /\ tokens' \subseteq cancelSeen'
    BY <1>2 DEF Handle, HandleCancel, HandleEdit, HandleAddFolder, HandleExit, CustodyInv
  <2>2. ASSUME NEW r \in pending', Running' PROVE InCustody(r)'
    <3>1. InCustody(r)
      BY <2>1, <2>2 DEF CustodyInv, NoRequestLost, Running
    <3>2. Parking(r)' = Parking(r)
      BY <2>1 DEF Parking
    <3> QED
      BY <2>1, <3>1, <3>2, Stays DEF Queued
  <2> QED
    BY <2>1, <2>2 DEF CustodyInv, NoRequestLost
<1> QED
  BY <1>1, <1>2

\* A step that only moves the main thread between waiting and looking.
LEMMA CustodyIdle ==
    ASSUME CustodyInv, pc \in {"next", "select", "resume"}, pc' # "panicked",
           UNCHANGED <<mainq, pending, tokens, held, suspended, pool, worker, cancelSeen>>
    PROVE  CustodyInv'
<1> SUFFICES ASSUME NEW r \in pending', Running' PROVE InCustody(r)'
  BY DEF CustodyInv, NoRequestLost
<1>1. InCustody(r)
  BY DEF CustodyInv, NoRequestLost, Running
<1>2. Parking(r)' = Parking(r)
  BY DEF Parking
<1> QED
  BY <1>1, <1>2, Stays DEF Queued

\* The head of the queue is taken and, if its request is still pending, it lands in
\* someone's hands.
LEMMA CustodyEvent ==
    ASSUME TypeOK, CustodyInv, pc = "select", mainq # <<>>, NEW c, c = Head(mainq).id,
           \A x : InQueue(Tail(mainq), x) => InQueue(mainq', x),
           held \subseteq held', suspended \subseteq suspended',
           pending' \subseteq pending, UNCHANGED <<tokens, pool, worker, cancelSeen>>,
           Running' /\ c \in pending' => InCustody(c)'
    PROVE  CustodyInv'
<1> SUFFICES ASSUME NEW r \in pending', Running' PROVE InCustody(r)'
  BY DEF CustodyInv, NoRequestLost
<1>1. InCustody(r)
  BY DEF CustodyInv, NoRequestLost, Running
<1>2. Parking(r) # {} => Parking(r)' # {}
  BY DEF Parking
<1>3. CASE c = r
  BY <1>3
<1>4. CASE c # r
  <2>1. Queued(r) => InQueue(mainq', r)
    BY <1>4, InTail DEF Queued, TypeOK
  <2> QED BY <1>1, <1>2, <2>1, Stays
<1> QED BY <1>3, <1>4

LEMMA CustodyMain == ASSUME TypeOK, CustodyInv, MainStep PROVE CustodyInv'
<1> USE DEF sessionVars, clientVars
<1>1. ASSUME NEW h \in held, ReleaseHeld(h) PROVE CustodyInv'
  <2>1. h.id \in Requests /\ mainq \in Seq(Events)
    BY DEF TypeOK, Parked
  <2>2. \A x : InQueue(mainq, x) => InQueue(mainq', x)
    <3>1. CASE Released(h) = <<>>
      BY <1>1, <2>1, <3>1 DEF ReleaseHeld
    <3>2. ASSUME NEW e \in {Retry(h.id), Respond(h.id)}, Released(h) = <<e>>
          PROVE  \A x : InQueue(mainq, x) => InQueue(mainq', x)
      <4>1. e \in Events /\ mainq' = Append(mainq, e)
        BY <1>1, <2>1, <3>2, EventTypes DEF ReleaseHeld
      <4> QED BY <2>1, <4>1, InAppend
    <3> QED BY <3>1, <3>2 DEF Released
  <2>3. h.id \in pending => InQueue(mainq', h.id)
    <3> SUFFICES ASSUME h.id \in pending PROVE InQueue(mainq', h.id)
      OBVIOUS
    <3>1. PICK e \in {Retry(h.id), Respond(h.id)} : Released(h) = <<e>>
      BY DEF Released
    <3>2. e \in Events /\ mainq' = Append(mainq, e) /\ e.id = h.id
      BY <1>1, <2>1, <3>1, EventTypes, EventIds DEF ReleaseHeld
    <3> QED BY <2>1, <3>2, InAppend
  <2>4. ASSUME NEW r \in pending', Running' PROVE InCustody(r)'
    <3>1. InCustody(r)
      BY <1>1, <2>4 DEF CustodyInv, NoRequestLost, Running, ReleaseHeld
    <3>2. CASE r = h.id
      BY <1>1, <2>3, <2>4, <3>2 DEF InCustody, Queued, ReleaseHeld
    <3>3. CASE r # h.id
      <4>1. Parking(r)' = Parking(r)
        BY <1>1, <3>3 DEF ReleaseHeld, Parking
      <4> QED BY <1>1, <2>2, <3>1, <4>1, Stays DEF Queued, ReleaseHeld
    <3> QED BY <3>2, <3>3
  <2> QED BY <1>1, <2>4 DEF CustodyInv, NoRequestLost, ReleaseHeld
<1>2. CASE ReleasedHeld \/ DeadlinePassed \/ ResumedSuspended
  BY <1>2, CustodyIdle DEF ReleasedHeld, DeadlinePassed, ResumedSuspended, ClientsTurn
<1>3. CASE SpawnJob
  <2>1. pool \in Seq(Jobs) /\ job \in Jobs /\ pool' = Append(pool, job)
    BY <1>3 DEF SpawnJob, TypeOK
  <2>2. ASSUME NEW r \in pending' PROVE InCustody(r)'
    <3>1. InCustody(r)
      BY <1>3, <2>2 DEF CustodyInv, NoRequestLost, Running, SpawnJob
    <3>2. Spawning(r) \/ Pooled(r) => InQueue(pool', r)
      BY <2>1, InAppend DEF Spawning, Pooled
    <3> QED
      BY <1>3, <3>1, <3>2 DEF SpawnJob, InCustody, Queued, Pooled, RunBy, Parking, ShuttingDown,
                               InQueue
  <2> QED BY <1>3, <2>2 DEF CustodyInv, NoRequestLost, SpawnJob
<1>4. CASE TakeDeferred
  <2>1. Head(deferred) \in Messages
    BY <1>4, QueueHead DEF TakeDeferred, TypeOK
  <2> QED BY <1>4, <2>1, HandleKeeps DEF TakeDeferred
<1>5. CASE SendResponse
  <2>1. /\ pc = "select" /\ mainq # <<>> /\ mainq' = Tail(mainq)
        /\ pending' = pending \ {Head(mainq).id}
        /\ UNCHANGED <<tokens, held, suspended, pool, worker, cancelSeen>>
    BY <1>5 DEF SendResponse, TakeEvent, QueueEmpty, Completes
  <2> QED BY <2>1, CustodyEvent
<1>6. CASE RetryRequest
  <2>0. PICK r : r = Head(mainq).id
    OBVIOUS
  <2>1. /\ pc = "select" /\ mainq # <<>>
        /\ UNCHANGED <<pending, tokens, held, suspended, pool, worker, cancelSeen>>
    BY <1>6 DEF RetryRequest, TakeEvent, QueueEmpty
  <2>2. Tail(mainq) \in Seq(Events) /\ Head(mainq) \in Events
    BY <2>1, QueueHead DEF TypeOK
  <2>3. CASE r \in pending
    <3>1. Dispatch(r, Tail(mainq), r \in pending)
      BY <2>0, <1>6, <2>3 DEF RetryRequest, MayRetry
    <3>2. r \in Requests
      BY <2>3 DEF TypeOK
    <3>3. Running' => InCustody(r)' /\ \A x : InQueue(Tail(mainq), x) => InQueue(mainq', x)
      BY <2>2, <3>1, <3>2, DispatchTakes
    <3>4. CASE Running'
      BY <2>0, <2>1, <3>3, <3>4, CustodyEvent
    <3>5. CASE ~Running'
      BY <2>1, <3>5 DEF CustodyInv, NoRequestLost
    <3> QED BY <3>4, <3>5
  <2>4. CASE r \notin pending
    <3>1. mainq' = Tail(mainq)
      BY <2>0, <1>6, <2>4 DEF RetryRequest, MayRetry
    <3> QED BY <2>0, <2>1, <2>4, <3>1, CustodyEvent
  <2> QED BY <2>3, <2>4
<1>7. CASE HoldRequest
  <2>0. PICK e : e = Head(mainq)
    OBVIOUS
  <2>1. /\ pc = "select" /\ mainq # <<>>
        /\ held \subseteq held'
        /\ UNCHANGED <<pending, tokens, suspended, pool, worker, cancelSeen>>
    BY <2>0, <1>7 DEF HoldRequest, TakeEvent, QueueEmpty
  <2>2. Tail(mainq) \in Seq(Events) /\ e \in Events
    BY <2>0, <2>1, QueueHead DEF TypeOK
  <2>3. CASE e.id \notin pending
    <3>1. mainq' = Tail(mainq)
      BY <2>0, <1>7, <2>3 DEF HoldRequest
    <3> QED BY <2>0, <2>1, <2>3, <3>1, CustodyEvent
  <2>4. CASE e.id \in pending /\ ~Stale(e.rev)
    <3>1. /\ mainq' = Tail(mainq)
          /\ [id |-> e.id, rev |-> e.rev] \in held'
      BY <2>0, <1>7, <2>4 DEF HoldRequest
    <3>2. InCustody(e.id)'
      BY <3>1 DEF InCustody, Parking
    <3> QED BY <2>0, <2>1, <3>1, <3>2, CustodyEvent
  <2>5. CASE e.id \in pending /\ Stale(e.rev)
    <3>1. mainq' = Append(Tail(mainq), Retry(e.id)) /\ Retry(e.id) \in Events
      BY <2>0, <1>7, <2>5, EventTypes DEF HoldRequest, TypeOK
    <3>2. InQueue(mainq', e.id) /\ \A x : InQueue(Tail(mainq), x) => InQueue(mainq', x)
      BY <2>2, <3>1, InAppend, EventIds
    <3>3. InCustody(e.id)'
      BY <3>2 DEF InCustody, Queued
    <3> QED BY <2>0, <2>1, <3>2, <3>3, CustodyEvent
  <2> QED BY <2>3, <2>4, <2>5
<1>8. CASE SuspendWorkspaceDiagnostics
  <2>0. PICK e : e = Head(mainq)
    OBVIOUS
  <2>1. /\ pc = "select" /\ mainq # <<>> /\ e.t = "suspend"
        /\ suspended \subseteq suspended'
        /\ UNCHANGED <<pending, tokens, held, pool, worker, cancelSeen>>
    BY <2>0, <1>8 DEF SuspendWorkspaceDiagnostics, TakeEvent, QueueEmpty
  <2>2. Tail(mainq) \in Seq(Events) /\ e \in Events
    BY <2>0, <2>1, QueueHead DEF TypeOK
  <2>3. CASE shutdown
    <3>1. mainq' = Append(Tail(mainq), Respond(e.id)) /\ Respond(e.id) \in Events
      BY <2>0, <1>8, <2>1, <2>2, <2>3, EventTypes, EventFields
         DEF SuspendWorkspaceDiagnostics, RefusesSuspension
    <3>2. InQueue(mainq', e.id) /\ \A x : InQueue(Tail(mainq), x) => InQueue(mainq', x)
      BY <2>2, <3>1, InAppend, EventIds
    <3>3. InCustody(e.id)'
      BY <3>2 DEF InCustody, Queued
    <3> QED BY <2>0, <2>1, <3>2, <3>3, CustodyEvent
  <2>4. CASE ~shutdown
    <3>1. /\ mainq' = Tail(mainq)
          /\ [id |-> e.id, rev |-> e.rev] \in suspended'
      BY <2>0, <1>8, <2>4 DEF SuspendWorkspaceDiagnostics, RefusesSuspension
    <3>2. InCustody(e.id)'
      BY <3>1 DEF InCustody, Parking
    <3> QED BY <2>0, <2>1, <3>1, <3>2, CustodyEvent
  <2> QED BY <2>3, <2>4
<1>9. ASSUME NEW s \in suspended, ResumeSuspended(s) PROVE CustodyInv'
  <2>1. s.id \in Requests /\ mainq \in Seq(Events) /\ Retry(s.id) \in Events
    BY EventTypes DEF TypeOK, Parked
  <2>2. /\ \A x : InQueue(mainq, x) => InQueue(mainq', x)
        /\ s.id \in pending => InQueue(mainq', s.id)
    <3>1. \A x : InQueue(Append(mainq, Retry(s.id)), x) <=> InQueue(mainq, x) \/ s.id = x
      BY <2>1, InAppend, EventIds
    <3> QED BY <1>9, <3>1 DEF ResumeSuspended
  <2>3. ASSUME NEW r \in pending', Running' PROVE InCustody(r)'
    <3>1. InCustody(r)
      BY <1>9, <2>3 DEF CustodyInv, NoRequestLost, Running, ResumeSuspended
    <3>2. CASE r = s.id
      BY <1>9, <2>2, <2>3, <3>2 DEF InCustody, Queued, ResumeSuspended
    <3>3. CASE r # s.id
      <4>1. Parking(r)' = Parking(r)
        BY <1>9, <3>3 DEF ResumeSuspended, Parking
      <4> QED BY <1>9, <2>2, <3>1, <4>1, Stays DEF Queued, ResumeSuspended
    <3> QED BY <3>2, <3>3
  <2> QED BY <1>9, <2>3 DEF CustodyInv, NoRequestLost, ResumeSuspended
<1>10. ASSUME NEW s \in suspended, AnswerAtShutdown(s) PROVE CustodyInv'
  <2>1. s.id \in Requests /\ mainq \in Seq(Events) /\ Respond(s.id) \in Events
    BY EventTypes DEF TypeOK, Parked
  <2>2. mainq' = Append(mainq, Respond(s.id))
    BY <1>10, <2>1 DEF AnswerAtShutdown, answer_at_shutdown
  <2>3. /\ \A x : InQueue(mainq, x) => InQueue(mainq', x)
        /\ InQueue(mainq', s.id)
    BY <2>1, <2>2, InAppend, EventIds
  <2>4. ASSUME NEW r \in pending', Running' PROVE InCustody(r)'
    <3>1. InCustody(r)
      BY <1>10, <2>4 DEF CustodyInv, NoRequestLost, Running, AnswerAtShutdown
    <3>2. CASE r = s.id
      BY <2>3, <3>2 DEF InCustody, Queued
    <3>3. CASE r # s.id
      <4>1. Parking(r)' = Parking(r)
        BY <1>10, <3>3 DEF AnswerAtShutdown, Parking
      <4> QED BY <1>10, <2>3, <3>1, <4>1 DEF InCustody, Queued, Pooled, RunBy, Spawning,
                 ShuttingDown, InQueue, AnswerAtShutdown
    <3> QED BY <3>2, <3>3
  <2> QED BY <1>10, <2>4 DEF CustodyInv, NoRequestLost, AnswerAtShutdown
<1>11. CASE ApplyFileSystemChanges \/ InitializeWorkspaceFolders
  <2>0. PICK c : c = Head(mainq).id
    OBVIOUS
  <2>1. /\ pc = "select" /\ mainq # <<>> /\ mainq' = Tail(mainq)
        /\ Head(mainq).t \in {"fs", "init"}
        /\ UNCHANGED <<pending, tokens, held, suspended, pool, worker, cancelSeen>>
    BY <1>11 DEF ApplyFileSystemChanges, InitializeWorkspaceFolders, TakeEvent, QueueEmpty
  <2>2. Head(mainq) \in Events
    BY <2>1, QueueHead DEF TypeOK
  <2>3. c = NoRequest
    BY <2>0, <2>1, <2>2 DEF Events
  <2>4. c \notin pending'
    BY <2>1, <2>3, RequestsAssumption DEF TypeOK
  <2> QED BY <2>0, <2>1, <2>4, CustodyEvent
<1>12. CASE PollUvEnvironments
  BY <1>12, CustodyIdle DEF PollUvEnvironments
<1>13. CASE SetShutdownRequested
  BY <1>13 DEF SetShutdownRequested, CustodyInv, NoRequestLost, Running, InCustody, Queued, Pooled,
               RunBy, Parking, Spawning, ShuttingDown, InQueue
<1>14. CASE WriteDone
  <2>1. /\ pc = "write" /\ pc' # "panicked"
        /\ UNCHANGED <<pending, tokens, held, suspended, pool, worker, cancelSeen>>
    BY <1>14 DEF WriteDone
  <2>2. CASE purpose # "shutdown"
    <3>1. mainq' = mainq
      BY <1>14, <2>2 DEF WriteDone
    <3> QED
      BY <2>1, <2>2, <3>1 DEF CustodyInv, NoRequestLost, Running, InCustody, Queued, Pooled,
                              RunBy, Parking, Spawning, ShuttingDown, InQueue
  <2>3. CASE purpose = "shutdown"
    <3>1. PICK s \in Requests : Kind[s] = "shutdown" /\ mainq' = Append(mainq, Respond(s))
      BY <1>14, <2>3 DEF WriteDone
    <3>2. Respond(s) \in Events /\ mainq \in Seq(Events)
      BY EventTypes DEF TypeOK
    <3>3. InQueue(mainq', s) /\ \A x : InQueue(mainq, x) => InQueue(mainq', x)
      BY <3>1, <3>2, InAppend, EventIds
    <3>4. ASSUME NEW r \in pending' PROVE InCustody(r)'
      <4>1. InCustody(r) /\ r \in Requests
        BY <2>1, <3>4 DEF CustodyInv, NoRequestLost, Running, TypeOK
      <4>2. ShuttingDown(r) => r = s
        BY <3>1, <4>1, RequestsAssumption DEF ShuttingDown
      <4> QED
        BY <2>1, <3>3, <4>1, <4>2 DEF InCustody, Queued, Pooled, RunBy, Parking, Spawning, InQueue
    <3> QED BY <2>1, <3>4 DEF CustodyInv, NoRequestLost
  <2> QED BY <2>2, <2>3
<1> QED
  BY <1>1, <1>2, <1>3, <1>4, <1>5, <1>6, <1>7, <1>8, <1>9, <1>10, <1>11, <1>12, <1>13, <1>14
     DEF MainStep

\* The workers pass on what they take: what they drop is pending no more.
LEMMA CustodyWorker ==
    ASSUME TypeOK, LifecycleInv, CustodyInv, NEW w \in Workers, WorkerStep(w)
    PROVE  CustodyInv'
<1> USE DEF sessionVars, clientVars
<1>1. CASE TakeJob(w)
  <2>1. pool \in Seq(Jobs) /\ pool # <<>> /\ pool' = Tail(pool)
    BY <1>1 DEF TakeJob, TypeOK
  <2>2. ASSUME NEW r \in pending', Running' PROVE InCustody(r)'
    <3>1. InCustody(r) /\ r \in pending
      BY <1>1, <2>2 DEF CustodyInv, NoRequestLost, Running, TakeJob
    <3>2. r \notin tokens
      BY <3>1 DEF CustodyInv, LifecycleInv, CancelsFollow
    <3>3. Pooled(r) => Head(pool).id = r \/ InQueue(pool', r)
      BY <2>1, InTail DEF Pooled
    <3>4. Head(pool).id = r => RunBy(w, r)'
      BY <1>1, <3>2 DEF TakeJob, RunBy, TypeOK
    <3>5. \A v \in Workers : RunBy(v, r) => RunBy(v, r)'
      BY <1>1 DEF TakeJob, RunBy, TypeOK
    <3> QED
      BY <1>1, <3>1, <3>3, <3>4, <3>5 DEF TakeJob, InCustody, Queued, Pooled, Parking, Spawning,
                                          ShuttingDown, InQueue
  <2> QED BY <1>1, <2>2 DEF CustodyInv, NoRequestLost, TakeJob
<1>2. ASSUME NEW e \in Events, e.id = worker[w].job.id, mainq' = Append(mainq, e),
             worker' = [worker EXCEPT ![w] = Idle],
             UNCHANGED <<pc, job, purpose, sessionVars, pool, clientVars>>
      PROVE  CustodyInv'
  <2>1. \A x : InQueue(mainq', x) <=> InQueue(mainq, x) \/ e.id = x
    BY <1>2, InAppend DEF TypeOK
  <2>2. ASSUME NEW r \in pending', Running' PROVE InCustody(r)'
    <3>1. InCustody(r)
      BY <1>2, <2>2 DEF CustodyInv, NoRequestLost, Running
    <3>2. \A v \in Workers : RunBy(v, r) => RunBy(v, r)' \/ InQueue(mainq', r)
      BY <1>2, <2>1 DEF RunBy, TypeOK
    <3> QED
      BY <1>2, <2>1, <3>1, <3>2 DEF InCustody, Queued, Pooled, Parking, Spawning, ShuttingDown,
                                    InQueue
  <2> QED BY <1>2, <2>2 DEF CustodyInv, NoRequestLost
<1>3. CASE FinishJob(w)
  <2>1. worker[w].job \in Jobs
    BY <1>3 DEF FinishJob, TypeOK
  <2>2. PICK e \in Outcomes(worker[w].job) : mainq' = Append(mainq, e)
    BY <1>3 DEF FinishJob
  <2>3. e \in Events
    BY <2>1, <2>2, OutcomeTypes
  <2>4. e.id = worker[w].job.id
    <3>1. e \in {Respond(worker[w].job.id), Hold(worker[w].job), Suspend(worker[w].job)}
      BY <2>1, <2>2 DEF Outcomes, Jobs
    <3> QED BY <3>1, EventIds
  <2> QED BY <1>2, <1>3, <2>2, <2>3, <2>4 DEF FinishJob
<1>4. CASE UnwindJob(w)
  <2>1. \A v \in Workers, r \in pending : RunBy(v, r) => RunBy(v, r)'
    BY <1>4 DEF UnwindJob, RunBy, TypeOK
  <2> QED
    BY <1>4, <2>1 DEF UnwindJob, CustodyInv, NoRequestLost, Running, InCustody, Queued, Pooled,
                      Parking, Spawning, ShuttingDown, InQueue
<1>5. CASE PanicResponse(w)
  <2>1. worker[w].job.id \in Requests
    BY <1>5 DEF PanicResponse, TypeOK, Jobs
  <2>2. PICK e \in {Retry(worker[w].job.id), Respond(worker[w].job.id)} : mainq' = Append(mainq, e)
    BY <1>5 DEF PanicResponse
  <2>3. e \in Events /\ e.id = worker[w].job.id
    BY <2>1, <2>2, EventTypes, EventIds
  <2> QED BY <1>2, <1>5, <2>2, <2>3 DEF PanicResponse
<1> QED
  BY <1>1, <1>3, <1>4, <1>5 DEF WorkerStep

LEMMA CustodyStep == TypeOK /\ LifecycleInv /\ CustodyInv /\ [Next]_vars => CustodyInv'
<1> SUFFICES ASSUME TypeOK, LifecycleInv, CustodyInv, [Next]_vars PROVE CustodyInv'
  OBVIOUS
<1> USE DEF sessionVars, clientVars
<1>1. ASSUME NEW m \in Messages, ReceiveMessage(m) PROVE CustodyInv'
  <2>1. CASE Defer(m)
    BY <1>1, <2>1, CustodyIdle DEF ReceiveMessage, ClientsTurn, Defer
  <2>2. CASE Handle(m)
    BY <1>1, <2>2, HandleKeeps DEF ReceiveMessage, ClientsTurn
  <2> QED BY <1>1, <2>1, <2>2 DEF ReceiveMessage
<1>2. ASSUME UNCHANGED <<pc, job, purpose, pending, tokens, held, suspended, pool, worker,
                         cancelSeen>>,
             \A x : InQueue(mainq, x) => InQueue(mainq', x)
      PROVE  CustodyInv'
  BY <1>2 DEF CustodyInv, NoRequestLost, Running, InCustody, Queued, Pooled, RunBy, Parking,
              Spawning, ShuttingDown
<1>3. ASSUME NEW ok \in BOOLEAN, ConfigResponse(ok) PROVE CustodyInv'
  <2>1. \A x : InQueue(mainq, x) => InQueue(mainq', x)
    BY <1>3, InAppend, EventTypes DEF ConfigResponse, TypeOK
  <2>2. ASSUME NEW r \in pending' PROVE InCustody(r)'
    <3>1. InCustody(r)
      BY <1>3, <2>2 DEF ConfigResponse, ClientsTurn, CustodyInv, NoRequestLost, Running
    <3>2. Parking(r)' = Parking(r)
      BY <1>3 DEF ConfigResponse, Parking
    <3> QED BY <1>3, <2>1, <3>1, <3>2, Stays DEF ConfigResponse, ClientsTurn, Queued
  <2> QED BY <1>3, <2>2 DEF ConfigResponse, CustodyInv, NoRequestLost
<1>4. CASE WatcherReports
  <2>1. \A x : InQueue(mainq, x) => InQueue(mainq', x)
    BY <1>4, InAppend, EventTypes DEF WatcherReports, TypeOK
  <2> QED BY <1>2, <1>4, <2>1 DEF WatcherReports
<1>5. CASE UvFinishes
  BY <1>2, <1>5 DEF UvFinishes
<1>6. ASSUME NEW r \in Requests, HoldLimitPasses(r) PROVE CustodyInv'
  BY <1>2, <1>6 DEF HoldLimitPasses
<1>7. CASE UNCHANGED vars
  BY <1>2, <1>7 DEF vars
<1> QED
  BY <1>1, <1>3, <1>4, <1>5, <1>6, <1>7, CustodyMain, CustodyWorker DEF Next, ClientStep, Stopped

\* No early return, drop, park or unwinding loses a pending request.
THEOREM NoneLost == Spec => []NoRequestLost
<1>1. Init => CustodyInv
  BY DEF Init, CustodyInv, NoRequestLost
<1>2. CustodyInv => NoRequestLost
  BY DEF CustodyInv
<1> QED
  BY <1>1, <1>2, CustodyStep, TypeCorrect, StagesHold, PTL DEF Spec

-----------------------------------------------------------------------------
(* Shutting down.                                                          *)

\* Nothing is suspended once the shutdown flag is set: the handler empties the list
\* before it sets the flag, and a check that was running then is refused.
THEOREM NoneSuspended == Spec => []NoneSuspendedAfterShutdown
<1>1. Init => NoneSuspendedAfterShutdown
  BY DEF Init, NoneSuspendedAfterShutdown
<1>2. NoneSuspendedAfterShutdown /\ [Next]_vars => NoneSuspendedAfterShutdown'
  <2> SUFFICES ASSUME NoneSuspendedAfterShutdown, [Next]_vars, shutdown'
               PROVE  suspended' = {}
    BY DEF NoneSuspendedAfterShutdown
  <2> USE DEF sessionVars, clientVars, NoneSuspendedAfterShutdown
  <2>1. CASE SuspendWorkspaceDiagnostics
    BY <2>1 DEF SuspendWorkspaceDiagnostics, RefusesSuspension
  <2>2. CASE SetShutdownRequested
    BY <2>2 DEF SetShutdownRequested
  <2>3. CASE MainStep /\ ~SuspendWorkspaceDiagnostics /\ ~SetShutdownRequested
    BY <2>3 DEF MainStep, ReleaseHeld, ReleasedHeld, DeadlinePassed, SpawnJob, TakeDeferred,
                SendResponse, RetryRequest, HoldRequest, ResumeSuspended, AnswerAtShutdown,
                ResumedSuspended, ApplyFileSystemChanges, InitializeWorkspaceFolders,
                PollUvEnvironments, WriteDone, Handle, HandleRequest, HandleCancel, HandleEdit,
                HandleAddFolder, HandleExit
  <2>4. CASE ClientStep
    BY <2>4 DEF ClientStep, ReceiveMessage, ConfigResponse, Defer, Handle, HandleRequest,
                HandleCancel, HandleEdit, HandleAddFolder, HandleExit
  <2>5. ASSUME NEW w \in Workers, WorkerStep(w) PROVE suspended' = {}
    BY <2>5 DEF WorkerStep, TakeJob, FinishJob, UnwindJob, PanicResponse
  <2>6. CASE UvFinishes \/ WatcherReports \/ UNCHANGED vars
    BY <2>6 DEF UvFinishes, WatcherReports, vars
  <2>7. ASSUME NEW r \in Requests, HoldLimitPasses(r) PROVE suspended' = {}
    BY <2>7 DEF HoldLimitPasses
  <2> QED
    BY <2>1, <2>2, <2>3, <2>4, <2>5, <2>6, <2>7 DEF Next, Stopped
<1> QED
  BY <1>1, <1>2, PTL DEF Spec

-----------------------------------------------------------------------------
(* Cancellation tokens.                                                    *)

\* A request that is dispatched to the pool is pending, whether it is new or asked again, so
\* that the builder of its task finds the cancellation token it `expect`s.
THEOREM NoPanic == Spec => []NeverPanics
<1>1. Init => NeverPanics
  BY DEF Init, NeverPanics
<1>2. NeverPanics /\ [Next]_vars => NeverPanics'
  <2> SUFFICES ASSUME pc # "panicked", [Next]_vars PROVE pc' # "panicked"
    BY DEF NeverPanics
  <2>1. ASSUME NEW m, Handle(m) PROVE pc' # "panicked"
    BY <2>1 DEF Handle, HandleRequest, Dispatch, HandleCancel, HandleEdit, HandleAddFolder,
                HandleExit
  <2>2. CASE RetryRequest
    BY <2>2 DEF RetryRequest, MayRetry, Dispatch
  <2>3. CASE MainStep /\ ~RetryRequest
    BY <2>1, <2>3 DEF MainStep, ReleaseHeld, ReleasedHeld, DeadlinePassed, SpawnJob, TakeDeferred,
                SendResponse, HoldRequest, SuspendWorkspaceDiagnostics, ResumeSuspended,
                AnswerAtShutdown, ResumedSuspended, ApplyFileSystemChanges,
                InitializeWorkspaceFolders, PollUvEnvironments, SetShutdownRequested, WriteDone
  <2>4. CASE ClientStep
    BY <2>1, <2>4 DEF ClientStep, ReceiveMessage, ConfigResponse, Defer
  <2>5. ASSUME NEW w \in Workers, WorkerStep(w) PROVE pc' # "panicked"
    BY <2>5 DEF WorkerStep, TakeJob, FinishJob, UnwindJob, PanicResponse
  <2>6. ASSUME NEW r \in Requests, HoldLimitPasses(r) PROVE pc' # "panicked"
    BY <2>6 DEF HoldLimitPasses
  <2>7. CASE UvFinishes \/ WatcherReports \/ UNCHANGED vars
    BY <2>7 DEF UvFinishes, WatcherReports, vars
  <2> QED
    BY <2>2, <2>3, <2>4, <2>5, <2>6, <2>7 DEF Next, Stopped
<1> QED
  BY <1>1, <1>2, PTL DEF Spec

-----------------------------------------------------------------------------
(* One hand at a time.                                                     *)

\* How often a request is in a queue, or in a list of parked ones.
Once(q, x) == \A i, k \in DOMAIN q : q[i].id = x /\ q[k].id = x => i = k
Has(S, x) == \E h \in S : h.id = x
OnceIn(S, x) == \A g, h \in S : g.id = x /\ h.id = x => g = h
Run(x) == \E w \in Workers : RunBy(w, x)

\* A request is once in a place, and in one place: of the queue, the pool, the workers, the
\* two lists, the main thread as it spawns, and the shutdown handler.
OnceEach(x) ==
    /\ Once(mainq, x) /\ Once(pool, x)
    /\ \A v, w \in Workers : RunBy(v, x) /\ RunBy(w, x) => v = w
    /\ OnceIn(held, x) /\ OnceIn(suspended, x)
Exclusive(x) ==
    /\ Queued(x) => ~(Pooled(x) \/ Run(x) \/ Has(held, x) \/ Has(suspended, x) \/ Spawning(x)
                        \/ ShuttingDown(x))
    /\ Pooled(x) => ~(Run(x) \/ Has(held, x) \/ Has(suspended, x) \/ Spawning(x)
                        \/ ShuttingDown(x))
    /\ Run(x) => ~(Has(held, x) \/ Has(suspended, x) \/ Spawning(x) \/ ShuttingDown(x))
    /\ Has(held, x) => ~(Has(suspended, x) \/ Spawning(x) \/ ShuttingDown(x))
    /\ Has(suspended, x) => ~(Spawning(x) \/ ShuttingDown(x))
    /\ Spawning(x) => ~ShuttingDown(x)
Somewhere(x) ==
    \/ Queued(x) \/ Pooled(x) \/ Run(x) \/ Has(held, x) \/ Has(suspended, x) \/ Spawning(x)
    \/ ShuttingDown(x)

\* ... and only once it has been taken from the client and from the deferred messages, so
\* that a request which is dispatched for the first time is in no hand yet.
SingleInv ==
    \A x \in Requests : OnceEach(x) /\ Exclusive(x) /\ (Somewhere(x) => x \in sent \ Waiting)

\* A step of which the request is no part can only take it out of a place.
Shrinks(x) ==
    /\ Once(mainq, x) => Once(mainq', x)
    /\ InQueue(mainq', x) => Queued(x)
    /\ Once(pool, x) => Once(pool', x)
    /\ InQueue(pool', x) => Pooled(x)
    /\ \A w \in Workers : RunBy(w, x)' => RunBy(w, x)
    /\ \A h \in held' : h.id = x => h \in held
    /\ \A s \in suspended' : s.id = x => s \in suspended
    /\ Spawning(x)' => Spawning(x)
    /\ ShuttingDown(x)' => ShuttingDown(x)

LEMMA Shrunk ==
    ASSUME NEW x, OnceEach(x), Exclusive(x), Shrinks(x)
    PROVE  OnceEach(x)' /\ Exclusive(x)' /\ (Somewhere(x)' => Somewhere(x))
<1>1. /\ Queued(x)' => Queued(x)
      /\ Pooled(x)' => Pooled(x)
      /\ Run(x)' => Run(x)
      /\ Has(held, x)' => Has(held, x)
      /\ Has(suspended, x)' => Has(suspended, x)
      /\ Spawning(x)' => Spawning(x)
      /\ ShuttingDown(x)' => ShuttingDown(x)
  BY DEF Shrinks, Queued, Pooled, Run, Has
<1>2. OnceEach(x)'
  <2>1. Once(mainq, x)' /\ Once(pool, x)'
    BY DEF OnceEach, Shrinks
  <2>2. \A v, w \in Workers : RunBy(v, x)' /\ RunBy(w, x)' => v = w
    BY DEF OnceEach, Shrinks
  <2>3. OnceIn(held, x)' /\ OnceIn(suspended, x)'
    BY DEF OnceEach, Shrinks, OnceIn
  <2> QED
    BY <2>1, <2>2, <2>3 DEF OnceEach
<1>3. Exclusive(x)'
  BY <1>1 DEF Exclusive
<1>4. Somewhere(x)' => Somewhere(x)
  BY <1>1 DEF Somewhere
<1> QED
  BY <1>2, <1>3, <1>4

\* The step moves one request, r, and no other; r is no request if the step is about none.
LEMMA SingleMove ==
    ASSUME SingleInv, NEW r, \A x \in Requests \ {r} : Shrinks(x),
           r \in Requests => /\ OnceEach(r)' /\ Exclusive(r)'
                             /\ Somewhere(r)' => r \in (sent \ Waiting)',
           sent \ Waiting \subseteq (sent \ Waiting)'
    PROVE  SingleInv'
<1> SUFFICES ASSUME NEW x \in Requests, x # r
             PROVE  OnceEach(x)' /\ Exclusive(x)' /\ (Somewhere(x)' => x \in (sent \ Waiting)')
  BY DEF SingleInv
<1>1. OnceEach(x) /\ Exclusive(x) /\ (Somewhere(x) => x \in sent \ Waiting)
  BY DEF SingleInv
<1>2. OnceEach(x)' /\ Exclusive(x)' /\ (Somewhere(x)' => Somewhere(x))
  BY <1>1, Shrunk
<1> QED
  BY <1>1, <1>2

LEMMA OnceAppend ==
    ASSUME NEW S, NEW q \in Seq(S), NEW e \in S, NEW x,
           Once(q, x), e.id # x \/ ~InQueue(q, x)
    PROVE  Once(Append(q, e), x)
<1> DEFINE p == Append(q, e)
<1>1. /\ DOMAIN p = DOMAIN q \cup {Len(q) + 1}
      /\ p[Len(q) + 1] = e
      /\ \A i \in DOMAIN q : p[i] = q[i]
  BY AppendIndices
<1> HIDE DEF p
<1>2. Once(p, x)
  BY <1>1 DEF Once, InQueue
<1> QED
  BY <1>2 DEF p

LEMMA OnceTail ==
    ASSUME NEW S, NEW q \in Seq(S), q # <<>>, NEW x
    PROVE  /\ InQueue(q, Head(q).id)
           /\ InQueue(Tail(q), x) => InQueue(q, x)
           /\ Once(q, x) => Once(Tail(q), x)
           /\ Once(q, x) /\ Head(q).id = x => ~InQueue(Tail(q), x)
<1> DEFINE p == Tail(q)
<1>1. /\ 1 \in DOMAIN q /\ q[1] = Head(q)
      /\ \A i \in DOMAIN p : i \in Nat /\ i + 1 \in DOMAIN q /\ p[i] = q[i + 1] /\ i + 1 # 1
  BY TailIndices
<1> HIDE DEF p
<1>2. InQueue(q, Head(q).id) /\ (InQueue(p, x) => InQueue(q, x))
  BY <1>1 DEF InQueue
<1>3. Once(q, x) /\ Head(q).id = x => ~InQueue(p, x)
  BY <1>1 DEF InQueue, Once
<1>4. ASSUME Once(q, x), NEW i \in DOMAIN p, NEW k \in DOMAIN p, p[i].id = x, p[k].id = x
      PROVE  i = k
  <2>1. i + 1 = k + 1 /\ i \in Nat /\ k \in Nat
    BY <1>1, <1>4 DEF Once
  <2> QED BY <2>1
<1> QED
  BY <1>2, <1>3, <1>4 DEF p, Once

\* The main thread itself holds no request, and nobody but the queue does.
Calm == pc \notin {"spawn", "answer"} /\ ~(pc = "write" /\ purpose = "shutdown")
Unparked(x) == ~Pooled(x) /\ ~Run(x) /\ ~Has(held, x) /\ ~Has(suspended, x)

LEMMA CalmHolds == Calm' => \A x : ~Spawning(x)' /\ ~ShuttingDown(x)'
BY DEF Calm, Spawning, ShuttingDown

LEMMA UnparkedOnce ==
    ASSUME NEW x, Unparked(x)'
    PROVE  /\ Once(pool', x) /\ OnceIn(held', x) /\ OnceIn(suspended', x)
           /\ \A v, w \in Workers : RunBy(v, x)' /\ RunBy(w, x)' => v = w
BY DEF Unparked, Once, OnceIn, Pooled, InQueue, Run, Has

LEMMA UnparkedStays ==
    ASSUME NEW x, Unparked(x), UNCHANGED <<pool, worker>>,
           held' \subseteq held, suspended' \subseteq suspended
    PROVE  Unparked(x)'
BY DEF Unparked, Pooled, InQueue, Run, RunBy, Has

\* Where a request that is in no other hand may end up.
LEMMA LandsInQueue ==
    ASSUME NEW x, Unparked(x)', Once(mainq', x), ~Spawning(x)', ~ShuttingDown(x)'
    PROVE  OnceEach(x)' /\ Exclusive(x)'
<1>1. OnceEach(x)'
  BY UnparkedOnce DEF OnceEach
<1>2. Exclusive(x)'
  BY DEF Exclusive, Unparked
<1> QED
  BY <1>1, <1>2

LEMMA LandsInMain ==
    ASSUME NEW x, Unparked(x)', ~InQueue(mainq', x)
    PROVE  OnceEach(x)' /\ Exclusive(x)'
<1>1. Once(mainq', x) /\ ~Queued(x)'
  BY DEF Queued, InQueue, Once
<1>2. Spawning(x)' => ~ShuttingDown(x)'
  BY DEF Spawning, ShuttingDown
<1>3. OnceEach(x)'
  BY <1>1, UnparkedOnce DEF OnceEach
<1>4. Exclusive(x)'
  BY <1>1, <1>2 DEF Exclusive, Unparked
<1> QED
  BY <1>3, <1>4

LEMMA LandsInList ==
    ASSUME NEW x, ~InQueue(mainq', x), ~InQueue(pool', x), ~Run(x)',
           ~(Has(held', x) /\ Has(suspended', x)), Calm',
           OnceIn(held', x), OnceIn(suspended', x)
    PROVE  OnceEach(x)' /\ Exclusive(x)'
<1>1. Once(mainq', x) /\ Once(pool', x) /\ ~Queued(x)' /\ ~Pooled(x)'
  BY DEF Queued, Pooled, InQueue, Once
<1>2. \A v, w \in Workers : RunBy(v, x)' /\ RunBy(w, x)' => v = w
  BY DEF Run
<1>3. OnceEach(x)'
  BY <1>1, <1>2 DEF OnceEach
<1>4. Exclusive(x)'
  BY <1>1, CalmHolds DEF Exclusive
<1> QED
  BY <1>3, <1>4

\* An event is taken from the queue: only its request moves.
LEMMA SingleEvent ==
    ASSUME TypeOK, SingleInv, pc = "select", mainq # <<>>, NEW r, r = Head(mainq).id,
           UNCHANGED <<pool, worker, sent, deferred>>,
           \A h \in held' : h.id # r => h \in held,
           \A s \in suspended' : s.id # r => s \in suspended,
           \A x \in Requests \ {r} : /\ Once(Tail(mainq), x) => Once(mainq', x)
                                     /\ InQueue(mainq', x) => InQueue(Tail(mainq), x)
                                     /\ ~Spawning(x)' /\ ~ShuttingDown(x)',
           r \in Requests /\ Unparked(r) /\ ~InQueue(Tail(mainq), r)
             => OnceEach(r)' /\ Exclusive(r)'
    PROVE  SingleInv'
<1>1. mainq \in Seq(Events)
  BY DEF TypeOK
<1>2. ASSUME NEW x \in Requests \ {r} PROVE Shrinks(x)
  <2>1. /\ InQueue(Tail(mainq), x) => InQueue(mainq, x)
        /\ Once(mainq, x) => Once(Tail(mainq), x)
    BY <1>1, OnceTail
  <2>2. /\ Once(mainq, x) => Once(mainq', x)
        /\ InQueue(mainq', x) => Queued(x)
    BY <1>2, <2>1 DEF Queued
  <2> QED
    BY <1>2, <2>2 DEF Shrinks, Pooled, RunBy
<1>3. (sent \ Waiting)' = sent \ Waiting
  BY DEF Waiting
<1>4. ASSUME r \in Requests PROVE OnceEach(r)' /\ Exclusive(r)' /\ r \in (sent \ Waiting)'
  <2>1. OnceEach(r) /\ Exclusive(r) /\ (Somewhere(r) => r \in sent \ Waiting)
    BY <1>4 DEF SingleInv
  <2>2. Queued(r)
    BY <1>1, OnceTail DEF Queued
  <2>3. Unparked(r) /\ r \in sent \ Waiting
    BY <2>1, <2>2 DEF Exclusive, Unparked, Somewhere
  <2>4. ~InQueue(Tail(mainq), r)
    BY <1>1, <2>1, OnceTail DEF OnceEach
  <2> QED
    BY <1>3, <1>4, <2>3, <2>4
<1> QED
  BY <1>2, <1>3, <1>4, SingleMove

\* A request is handed to its task, and to nobody else.
LEMMA SingleDispatch ==
    ASSUME TypeOK, NEW r \in Requests, NEW q \in Seq(Events), NEW b, Dispatch(r, q, b),
           pc = "select", UNCHANGED <<pool, worker, held, suspended>>,
           Unparked(r), ~InQueue(q, r)
    PROVE  /\ OnceEach(r)' /\ Exclusive(r)'
           /\ \A x \in Requests \ {r} : /\ Once(q, x) => Once(mainq', x)
                                        /\ InQueue(mainq', x) => InQueue(q, x)
                                        /\ ~Spawning(x)' /\ ~ShuttingDown(x)'
<1>1. Unparked(r)'
  BY UnparkedStays
<1>2. Once(q, r)
  BY DEF Once, InQueue
<1>3. CASE Kind[r] = "sync"
  <2>1. mainq' = Append(q, Respond(r)) /\ pc' = "next" /\ Respond(r) \in Events
          /\ Respond(r).id = r
    BY <1>3, EventTypes, EventIds DEF Dispatch
  <2>2. Calm'
    BY <2>1 DEF Calm
  <2>3. OnceEach(r)' /\ Exclusive(r)'
    <3>1. Once(mainq', r)
      BY <1>2, <2>1, OnceAppend
    <3> QED BY <1>1, <2>2, <3>1, LandsInQueue, CalmHolds
  <2>4. \A x \in Requests \ {r} : ~Spawning(x)' /\ ~ShuttingDown(x)'
    BY <2>2, CalmHolds
  <2>5. ASSUME NEW x \in Requests \ {r}
        PROVE  (Once(q, x) => Once(mainq', x)) /\ (InQueue(mainq', x) => InQueue(q, x))
    BY <2>1, OnceAppend, InAppend
  <2> QED BY <2>3, <2>4, <2>5
<1>4. CASE Kind[r] # "sync"
  <2>1. mainq' = q
    BY <1>4 DEF Dispatch
  <2>2. ~InQueue(mainq', r)
    BY <2>1
  <2>3. OnceEach(r)' /\ Exclusive(r)'
    BY <1>1, <2>2, LandsInMain
  <2>4. ASSUME NEW x \in Requests \ {r} PROVE ~Spawning(x)' /\ ~ShuttingDown(x)'
    <3>1. CASE Kind[r] = "shutdown"
      <4>1. pc' = "answer" /\ Kind[x] # "shutdown"
        BY <1>4, <3>1, RequestsAssumption DEF Dispatch
      <4> QED BY <4>1 DEF Spawning, ShuttingDown
    <3>2. CASE Kind[r] # "shutdown"
      <4>1. pc' \in {"spawn", "panicked"} /\ (pc' = "spawn" => job'.id = r)
        BY <1>4, <3>2 DEF Dispatch, JobFor
      <4> QED BY <4>1 DEF Spawning, ShuttingDown
    <3> QED BY <3>1, <3>2
  <2> QED BY <2>1, <2>3, <2>4
<1> QED
  BY <1>3, <1>4

\* A new request is in nobody's hands: the client has just sent it, or it was deferred.
LEMMA SingleRequest ==
    ASSUME TypeOK, SingleInv, NEW r \in Requests, HandleRequest(r), pc = "select",
           UNCHANGED <<pool, worker>>, r \notin sent \ Waiting,
           (sent \ Waiting)' = (sent \ Waiting) \cup {r}
    PROVE  SingleInv'
<1>1. ~Somewhere(r) /\ mainq \in Seq(Events)
  BY DEF SingleInv, TypeOK
<1>2. Unparked(r) /\ ~InQueue(mainq, r)
  BY <1>1 DEF Unparked, Somewhere, Queued
<1>3. UNCHANGED <<held, suspended>>
  BY DEF HandleRequest
<1>4. /\ OnceEach(r)' /\ Exclusive(r)'
      /\ \A x \in Requests \ {r} : /\ Once(mainq, x) => Once(mainq', x)
                                   /\ InQueue(mainq', x) => InQueue(mainq, x)
                                   /\ ~Spawning(x)' /\ ~ShuttingDown(x)'
  <2>1. CASE ~shutdown
    <3>1. Dispatch(r, mainq, TRUE)
      BY <2>1 DEF HandleRequest
    <3> QED BY <1>1, <1>2, <1>3, <3>1, SingleDispatch
  <2>2. CASE shutdown
    <3>1. /\ mainq' = Append(mainq, Respond(r)) /\ pc' = "next"
          /\ Respond(r) \in Events /\ Respond(r).id = r
      BY <2>2, EventTypes, EventIds DEF HandleRequest
    <3>2. Calm'
      BY <3>1 DEF Calm
    <3>3. Once(mainq, r)
      BY <1>2 DEF Once, InQueue
    <3>4. Once(mainq', r)
      BY <1>1, <1>2, <3>1, <3>3, OnceAppend
    <3>5. Unparked(r)'
      BY <1>2, <1>3, UnparkedStays
    <3>6. OnceEach(r)' /\ Exclusive(r)'
      BY <3>2, <3>4, <3>5, LandsInQueue, CalmHolds
    <3>7. ASSUME NEW x \in Requests \ {r}
          PROVE  (Once(mainq, x) => Once(mainq', x)) /\ (InQueue(mainq', x) => InQueue(mainq, x))
      BY <1>1, <3>1, OnceAppend, InAppend
    <3>8. \A x : ~Spawning(x)' /\ ~ShuttingDown(x)'
      BY <3>2, CalmHolds
    <3> QED BY <3>6, <3>7, <3>8
  <2> QED BY <2>1, <2>2
<1>5. \A x \in Requests \ {r} : Shrinks(x)
  BY <1>3, <1>4 DEF Shrinks, Queued, Pooled, RunBy
<1> QED
  BY <1>4, <1>5, SingleMove

\* A step that moves no request.
LEMMA SingleIdle ==
    ASSUME TypeOK, SingleInv, Calm' \/ UNCHANGED <<pc, job, purpose>>,
           UNCHANGED <<pool, worker, held, suspended>>,
           mainq' = mainq \/ \E e \in Events : e.id = NoRequest /\ mainq' = Append(mainq, e),
           sent \ Waiting \subseteq (sent \ Waiting)'
    PROVE  SingleInv'
<1>1. ASSUME NEW x \in Requests PROVE Shrinks(x)
  <2>1. Spawning(x)' => Spawning(x)
    BY CalmHolds DEF Spawning
  <2>2. ShuttingDown(x)' => ShuttingDown(x)
    BY CalmHolds DEF ShuttingDown
  <2>3. (Once(mainq, x) => Once(mainq', x)) /\ (InQueue(mainq', x) => Queued(x))
    <3>1. CASE mainq' = mainq
      BY <3>1 DEF Queued
    <3>2. ASSUME NEW e \in Events, e.id = NoRequest, mainq' = Append(mainq, e)
          PROVE  (Once(mainq, x) => Once(mainq', x)) /\ (InQueue(mainq', x) => Queued(x))
      <4>1. e.id # x /\ mainq \in Seq(Events)
        BY <3>2, RequestsAssumption DEF TypeOK
      <4> QED BY <3>2, <4>1, OnceAppend, InAppend DEF Queued
    <3> QED BY <3>1, <3>2
  <2> QED
    BY <2>1, <2>2, <2>3 DEF Shrinks, Pooled, RunBy
<1>2. NoRequest \notin Requests
  BY RequestsAssumption
<1> QED
  BY <1>1, <1>2, SingleMove

\* A parked request leaves its list, for the queue or for good.
LEMMA SingleUnpark ==
    ASSUME TypeOK, SingleInv, NEW p, UNCHANGED <<pc, job, purpose, pool, worker, sent, deferred>>,
           \/ p \in held /\ held' = held \ {p} /\ suspended' = suspended
           \/ p \in suspended /\ suspended' = suspended \ {p} /\ held' = held,
           mainq' = mainq \/ \E e \in Events : e.id = p.id /\ mainq' = Append(mainq, e)
    PROVE  SingleInv'
<1> DEFINE r == p.id
<1>1. r \in Requests /\ mainq \in Seq(Events)
  BY DEF TypeOK, Parked
<1>2. ASSUME NEW x \in Requests
      PROVE  /\ x # r => (InQueue(mainq', x) => InQueue(mainq, x))
             /\ Once(mainq, x) /\ (x # r \/ ~InQueue(mainq, x)) => Once(mainq', x)
  <2>1. CASE mainq' = mainq
    BY <2>1
  <2>2. ASSUME NEW e \in Events, e.id = r, mainq' = Append(mainq, e)
        PROVE  /\ x # r => (InQueue(mainq', x) => InQueue(mainq, x))
               /\ Once(mainq, x) /\ (x # r \/ ~InQueue(mainq, x)) => Once(mainq', x)
    BY <1>1, <2>2, OnceAppend, InAppend
  <2> QED BY <2>1, <2>2
<1>3. \A x \in Requests : (Spawning(x)' => Spawning(x)) /\ (ShuttingDown(x)' => ShuttingDown(x))
  BY DEF Spawning, ShuttingDown
<1>4. \A x \in Requests \ {r} : Shrinks(x)
  BY <1>2, <1>3 DEF Shrinks, Queued, Pooled, RunBy
<1>5. OnceEach(r) /\ Exclusive(r) /\ (Somewhere(r) => r \in sent \ Waiting)
  BY <1>1 DEF SingleInv
<1>6. (Has(held, r) \/ Has(suspended, r)) /\ r \in sent \ Waiting
  BY <1>5 DEF Has, Somewhere
<1>7. /\ ~Queued(r) /\ ~Pooled(r) /\ ~Run(r) /\ ~Spawning(r) /\ ~ShuttingDown(r)
      /\ ~(Has(held, r) /\ Has(suspended, r))
  BY <1>5, <1>6 DEF Exclusive
<1>8. ~Has(held', r) /\ ~Has(suspended', r)
  BY <1>5, <1>7 DEF OnceEach, OnceIn, Has
<1>9. Unparked(r)'
  BY <1>7, <1>8 DEF Unparked, Pooled, InQueue, Run, RunBy
<1>10. Once(mainq', r)
  BY <1>1, <1>2, <1>5, <1>7 DEF OnceEach, Queued
<1>11. OnceEach(r)' /\ Exclusive(r)'
  BY <1>1, <1>3, <1>7, <1>9, <1>10, LandsInQueue
<1>12. (sent \ Waiting)' = sent \ Waiting
  BY DEF Waiting
<1> HIDE DEF r
<1> QED
  BY <1>4, <1>6, <1>11, <1>12, SingleMove

LEMMA SingleWorker ==
    ASSUME TypeOK, SingleInv, NEW w \in Workers, WorkerStep(w)
    PROVE  SingleInv'
<1> USE DEF sessionVars, clientVars
<1>1. /\ UNCHANGED <<pc, job, purpose, held, suspended, sent, deferred>>
      /\ \A v \in Workers \ {w} : worker'[v] = worker[v]
      /\ mainq \in Seq(Events) /\ pool \in Seq(Jobs)
      /\ worker \in [Workers -> [phase : {"idle", "run", "unwound"}, job : Jobs \cup {NoJob}]]
  BY DEF WorkerStep, TakeJob, FinishJob, UnwindJob, PanicResponse, TypeOK
<1>2. (sent \ Waiting)' = sent \ Waiting
  BY <1>1 DEF Waiting
<1>3. \A x : (Spawning(x)' <=> Spawning(x)) /\ (ShuttingDown(x)' <=> ShuttingDown(x))
  BY <1>1 DEF Spawning, ShuttingDown
<1>4. CASE TakeJob(w)
  <2>0. PICK r : r = Head(pool).id
    OBVIOUS
  <2>1. pool # <<>> /\ pool' = Tail(pool) /\ mainq' = mainq /\ worker[w].phase = "idle"
    BY <1>4 DEF TakeJob
  <2>2. r \in Requests
    <3>1. Head(pool) \in Jobs
      BY <1>1, <2>1, QueueHead
    <3> QED BY <2>0, <3>1 DEF Jobs
  <2>3. \A x : RunBy(w, x)' => x = r
    BY <1>1, <1>4, <2>0 DEF TakeJob, RunBy, Idle
  <2>4. ASSUME NEW x \in Requests \ {r} PROVE Shrinks(x)
    <3>1. (Once(pool, x) => Once(pool', x)) /\ (InQueue(pool', x) => Pooled(x))
      BY <1>1, <2>1, OnceTail DEF Pooled
    <3>2. \A v \in Workers : RunBy(v, x)' => RunBy(v, x)
      BY <1>1, <2>3, <2>4 DEF RunBy
    <3> QED BY <1>1, <1>3, <2>1, <3>1, <3>2 DEF Shrinks, Queued
  <2>5. OnceEach(r) /\ Exclusive(r) /\ (Somewhere(r) => r \in sent \ Waiting)
    BY <2>2 DEF SingleInv
  <2>6. Pooled(r) /\ ~InQueue(pool', r)
    BY <1>1, <2>0, <2>1, <2>5, OnceTail DEF Pooled, OnceEach
  <2>7. /\ ~Queued(r) /\ ~Run(r) /\ ~Has(held, r) /\ ~Has(suspended, r)
        /\ ~Spawning(r) /\ ~ShuttingDown(r) /\ r \in sent \ Waiting
    BY <2>5, <2>6 DEF Exclusive, Somewhere
  <2>8. /\ ~Queued(r)' /\ ~Pooled(r)' /\ ~Has(held, r)' /\ ~Has(suspended, r)'
        /\ ~Spawning(r)' /\ ~ShuttingDown(r)'
    BY <1>1, <1>3, <2>1, <2>6, <2>7 DEF Queued, Pooled, Has
  <2>9. \A v \in Workers : RunBy(v, r)' => v = w
    BY <1>1, <2>7 DEF Run, RunBy
  <2>10. Exclusive(r)'
    BY <2>8 DEF Exclusive
  <2>11. OnceEach(r)'
    <3>1. Once(pool', r)
      BY <2>6 DEF Once, InQueue
    <3>2. Once(mainq', r) /\ OnceIn(held', r) /\ OnceIn(suspended', r)
      BY <1>1, <2>1, <2>5 DEF OnceEach
    <3> QED BY <2>9, <3>1, <3>2 DEF OnceEach
  <2> QED BY <1>2, <2>4, <2>7, <2>10, <2>11, SingleMove
<1>5. ASSUME NEW e \in Events, e.id = worker[w].job.id, worker[w].phase # "idle",
             mainq' = Append(mainq, e), worker' = [worker EXCEPT ![w] = Idle], pool' = pool
      PROVE  SingleInv'
  <2>0. PICK r : r = worker[w].job.id
    OBVIOUS
  <2>1. r \in Requests
    BY <1>5, <2>0 DEF TypeOK, Jobs
  <2>2. \A x : ~RunBy(w, x)'
    BY <1>1, <1>5 DEF RunBy, Idle
  <2>3. ASSUME NEW x \in Requests \ {r} PROVE Shrinks(x)
    <3>1. (Once(mainq, x) => Once(mainq', x)) /\ (InQueue(mainq', x) => Queued(x))
      BY <1>1, <1>5, <2>0, <2>3, OnceAppend, InAppend DEF Queued
    <3>2. \A v \in Workers : RunBy(v, x)' => RunBy(v, x)
      BY <1>1, <2>2 DEF RunBy
    <3> QED BY <1>1, <1>3, <1>5, <3>1, <3>2 DEF Shrinks, Pooled
  <2>4. OnceEach(r) /\ Exclusive(r) /\ (Somewhere(r) => r \in sent \ Waiting)
    BY <2>1 DEF SingleInv
  <2>5. RunBy(w, r) /\ Run(r)
    BY <1>5, <2>0 DEF RunBy, Run
  <2>6. /\ ~Queued(r) /\ ~Pooled(r) /\ ~Has(held, r) /\ ~Has(suspended, r)
        /\ ~Spawning(r) /\ ~ShuttingDown(r) /\ r \in sent \ Waiting
    BY <2>4, <2>5 DEF Exclusive, Somewhere
  <2>7. Once(mainq', r)
    BY <1>1, <1>5, <2>0, <2>4, <2>6, OnceAppend DEF OnceEach, Queued
  <2>8. ~Run(r)'
    BY <1>1, <2>2, <2>4, <2>5 DEF Run, RunBy, OnceEach
  <2>9. Unparked(r)'
    BY <1>1, <1>5, <2>6, <2>8 DEF Unparked, Pooled, Has
  <2>10. OnceEach(r)' /\ Exclusive(r)'
    BY <1>3, <2>6, <2>7, <2>9, LandsInQueue
  <2> QED BY <1>2, <2>3, <2>6, <2>10, SingleMove
<1>6. CASE FinishJob(w)
  <2>1. worker[w].job \in Jobs
    BY <1>6 DEF FinishJob, TypeOK
  <2>2. PICK e \in Outcomes(worker[w].job) : mainq' = Append(mainq, e)
    BY <1>6 DEF FinishJob
  <2>3. e \in Events
    BY <2>1, <2>2, OutcomeTypes
  <2>4. e.id = worker[w].job.id
    <3>1. e \in {Respond(worker[w].job.id), Hold(worker[w].job), Suspend(worker[w].job)}
      BY <2>1, <2>2 DEF Outcomes, Jobs
    <3> QED BY <3>1, EventIds
  <2> QED BY <1>5, <1>6, <2>2, <2>3, <2>4 DEF FinishJob
<1>7. CASE UnwindJob(w)
  <2>1. \A x : \A v \in Workers : RunBy(v, x)' => RunBy(v, x)
    BY <1>1, <1>7 DEF UnwindJob, RunBy
  <2>2. mainq' = mainq /\ pool' = pool
    BY <1>7 DEF UnwindJob
  <2>3. \A x \in Requests : Shrinks(x)
    BY <1>1, <1>3, <2>1, <2>2 DEF Shrinks, Queued, Pooled
  <2> QED BY <1>2, <2>3, RequestsAssumption, SingleMove
<1>8. CASE PanicResponse(w)
  <2>1. worker[w].job.id \in Requests
    BY <1>8 DEF PanicResponse, TypeOK, Jobs
  <2>2. PICK e \in {Retry(worker[w].job.id), Respond(worker[w].job.id)} : mainq' = Append(mainq, e)
    BY <1>8 DEF PanicResponse
  <2>3. e \in Events /\ e.id = worker[w].job.id
    BY <2>1, <2>2, EventTypes, EventIds
  <2> QED BY <1>5, <1>8, <2>2, <2>3 DEF PanicResponse
<1> QED
  BY <1>4, <1>6, <1>7, <1>8 DEF WorkerStep

\* Handling any message but a request moves none.
LEMMA HandleOther ==
    ASSUME NEW m, Handle(m), m.t # "request", pc = "select"
    PROVE  Calm' /\ UNCHANGED <<held, suspended, mainq>>
BY DEF Handle, HandleCancel, HandleEdit, HandleAddFolder, HandleExit, Calm

\* Deferring a message does not take the client's request out of its hands.
LEMMA DeferredWaits ==
    ASSUME TypeOK, NEW m \in Messages, deferred' = Append(deferred, m)
    PROVE  Waiting' = IF m.t = "request" THEN Waiting \cup {m.id} ELSE Waiting
<1> DEFINE n == Len(deferred) + 1
<1>1. /\ DOMAIN deferred' = DOMAIN deferred \cup {n}
      /\ deferred'[n] = m
      /\ \A i \in DOMAIN deferred : deferred'[i] = deferred[i]
  BY AppendIndices DEF TypeOK
<1> HIDE DEF n
<1> QED
  BY <1>1 DEF Waiting

LEMMA SingleReceive ==
    ASSUME TypeOK, LifecycleInv, SingleInv, NEW m \in Messages, ReceiveMessage(m)
    PROVE  SingleInv'
<1>1. /\ pc = "select" /\ UNCHANGED <<pool, worker>>
      /\ m.t = "request" => m.id \notin sent /\ sent' = sent \cup {m.id}
      /\ m.t # "request" => sent' = sent
      /\ \/ Handle(m) /\ deferred' = deferred
         \/ Defer(m)
  BY DEF ReceiveMessage, ClientsTurn, MaySend, CountSent
<1>2. Waiting \subseteq sent
  BY DEF LifecycleInv, StagesDisjoint
<1>3. CASE Handle(m) /\ deferred' = deferred
  <2>1. Waiting' = Waiting
    BY <1>3 DEF Waiting
  <2>2. CASE m.t = "request"
    <3>1. m.id \in Requests /\ HandleRequest(m.id)
      BY <1>3, <2>2, MessageFields DEF Handle
    <3>2. (sent \ Waiting)' = (sent \ Waiting) \cup {m.id}
      BY <1>1, <1>2, <2>1, <2>2
    <3> QED BY <1>1, <2>2, <3>1, <3>2, SingleRequest
  <2>3. CASE m.t # "request"
    <3>1. (sent \ Waiting)' = sent \ Waiting
      BY <1>1, <2>1, <2>3
    <3> QED BY <1>1, <1>3, <2>3, <3>1, HandleOther, SingleIdle
  <2> QED BY <2>2, <2>3
<1>4. CASE Defer(m)
  <2>1. Waiting' = IF m.t = "request" THEN Waiting \cup {m.id} ELSE Waiting
    BY <1>4, DeferredWaits DEF Defer
  <2>2. sent \ Waiting \subseteq (sent \ Waiting)'
    BY <1>1, <2>1
  <2>3. Calm' /\ UNCHANGED <<held, suspended, mainq>>
    BY <1>4 DEF Defer, Calm
  <2> QED BY <1>1, <2>2, <2>3, SingleIdle
<1> QED
  BY <1>1, <1>3, <1>4

LEMMA SingleTakeDeferred ==
    ASSUME TypeOK, LifecycleInv, SingleInv, TakeDeferred
    PROVE  SingleInv'
<1>0. PICK m : m = Head(deferred)
  OBVIOUS
<1>1. /\ pc = "select" /\ UNCHANGED <<pool, worker, sent>> /\ Handle(m)
      /\ deferred # <<>> /\ deferred' = Tail(deferred)
  BY <1>0 DEF TakeDeferred
<1>2. /\ m \in Messages
      /\ m.t = "request" => m.id \in Waiting /\ Waiting' = Waiting \ {m.id}
      /\ m.t # "request" => Waiting' = Waiting
  BY <1>0, <1>1, Taking
<1>3. Waiting \subseteq sent
  BY DEF LifecycleInv, StagesDisjoint
<1>4. CASE m.t = "request"
  <2>1. m.id \in Requests /\ HandleRequest(m.id)
    BY <1>1, <1>2, <1>4, MessageFields DEF Handle
  <2>2. (sent \ Waiting)' = (sent \ Waiting) \cup {m.id}
    BY <1>1, <1>2, <1>3, <1>4
  <2> QED BY <1>1, <1>2, <1>4, <2>1, <2>2, SingleRequest
<1>5. CASE m.t # "request"
  <2>1. (sent \ Waiting)' = sent \ Waiting
    BY <1>1, <1>2, <1>5
  <2> QED BY <1>1, <1>5, <2>1, HandleOther, SingleIdle
<1> QED
  BY <1>4, <1>5

\* The events: each goes from the queue to one place, or is dropped.
LEMMA SingleEvents ==
    ASSUME TypeOK, SingleInv,
           SendResponse \/ RetryRequest \/ HoldRequest \/ SuspendWorkspaceDiagnostics
             \/ ApplyFileSystemChanges \/ InitializeWorkspaceFolders
    PROVE  SingleInv'
<1> USE DEF sessionVars, clientVars
<1>0. PICK e : e = Head(mainq)
  OBVIOUS
<1>1. /\ pc = "select" /\ mainq # <<>>
      /\ UNCHANGED <<pool, worker, sent, deferred>>
  BY DEF SendResponse, RetryRequest, HoldRequest, SuspendWorkspaceDiagnostics,
         ApplyFileSystemChanges, InitializeWorkspaceFolders, TakeEvent, QueueEmpty
<1>2. e \in Events /\ Tail(mainq) \in Seq(Events)
  BY <1>0, <1>1, QueueHead DEF TypeOK
\* The request is dropped, or it is queued again.
<1>3. ASSUME Calm', UNCHANGED <<held, suspended>>,
             \/ mainq' = Tail(mainq)
             \/ \E f \in Events : f.id = e.id /\ mainq' = Append(Tail(mainq), f)
      PROVE  SingleInv'
  <2>1. ASSUME NEW x
        PROVE  /\ x # e.id => (InQueue(mainq', x) => InQueue(Tail(mainq), x))
               /\ Once(Tail(mainq), x) /\ (x # e.id \/ ~InQueue(Tail(mainq), x)) => Once(mainq', x)
    <3>1. CASE mainq' = Tail(mainq)
      BY <3>1
    <3>2. ASSUME NEW f \in Events, f.id = e.id, mainq' = Append(Tail(mainq), f)
          PROVE  /\ x # e.id => (InQueue(mainq', x) => InQueue(Tail(mainq), x))
                 /\ Once(Tail(mainq), x) /\ (x # e.id \/ ~InQueue(Tail(mainq), x))
                      => Once(mainq', x)
      BY <1>2, <3>2, OnceAppend, InAppend
    <3> QED BY <1>3, <3>1, <3>2
  <2>2. \A x : ~Spawning(x)' /\ ~ShuttingDown(x)'
    BY <1>3, CalmHolds
  <2>3. ASSUME Unparked(e.id), ~InQueue(Tail(mainq), e.id)
        PROVE  OnceEach(e.id)' /\ Exclusive(e.id)'
    <3>1. Unparked(e.id)'
      BY <1>1, <1>3, <2>3, UnparkedStays
    <3>2. Once(Tail(mainq), e.id)
      BY <2>3 DEF Once, InQueue
    <3> QED BY <2>1, <2>2, <2>3, <3>1, <3>2, LandsInQueue
  <2> QED BY <1>0, <1>1, <1>3, <2>1, <2>2, <2>3, SingleEvent
<1>4. CASE SendResponse
  BY <1>3, <1>4 DEF SendResponse, Calm
<1>5. CASE ApplyFileSystemChanges \/ InitializeWorkspaceFolders
  BY <1>3, <1>5 DEF ApplyFileSystemChanges, InitializeWorkspaceFolders, Calm
<1>6. CASE RetryRequest
  <2>1. e.id \in Requests /\ UNCHANGED <<held, suspended>>
    BY <1>0, <1>2, <1>6, EventFields DEF RetryRequest, TakeEvent
  <2>2. CASE ~MayRetry(e.id)
    <3>1. mainq' = Tail(mainq) /\ pc' = "next"
      BY <1>0, <1>6, <2>2 DEF RetryRequest
    <3> QED BY <1>3, <2>1, <3>1 DEF Calm
  <2>3. CASE MayRetry(e.id)
    <3>1. Dispatch(e.id, Tail(mainq), e.id \in pending)
      BY <1>0, <1>6, <2>3 DEF RetryRequest
    <3>2. CASE Unparked(e.id) /\ ~InQueue(Tail(mainq), e.id)
      <4>1. /\ OnceEach(e.id)' /\ Exclusive(e.id)'
            /\ \A x \in Requests \ {e.id} : /\ Once(Tail(mainq), x) => Once(mainq', x)
                                            /\ InQueue(mainq', x) => InQueue(Tail(mainq), x)
                                            /\ ~Spawning(x)' /\ ~ShuttingDown(x)'
        BY <1>1, <1>2, <2>1, <3>1, <3>2, SingleDispatch
      <4> QED BY <1>0, <1>1, <2>1, <4>1, SingleEvent
    <3>3. Unparked(e.id) /\ ~InQueue(Tail(mainq), e.id)
      <4>1. OnceEach(e.id) /\ Exclusive(e.id)
        BY <2>1 DEF SingleInv
      <4>2. Queued(e.id) /\ ~InQueue(Tail(mainq), e.id)
        BY <1>0, <1>1, <4>1, OnceTail DEF Queued, OnceEach, TypeOK
      <4> QED BY <4>1, <4>2 DEF Exclusive, Unparked
    <3> QED BY <3>2, <3>3
  <2> QED BY <2>2, <2>3
\* The request is parked in a list, which has nothing of it.
<1>7. ASSUME Calm', mainq' = Tail(mainq), NEW p, p.id = e.id,
             \/ held' = held \cup {p} /\ suspended' = suspended
             \/ suspended' = suspended \cup {p} /\ held' = held
      PROVE  SingleInv'
  <2>1. \A x : ~Spawning(x)' /\ ~ShuttingDown(x)'
    BY <1>7, CalmHolds
  <2>2. ASSUME Unparked(e.id), ~InQueue(Tail(mainq), e.id)
        PROVE  OnceEach(e.id)' /\ Exclusive(e.id)'
    <3>1. ~InQueue(pool', e.id) /\ ~Run(e.id)'
      BY <1>1, <2>2 DEF Unparked, Pooled, Run, RunBy
    <3>2. /\ ~(Has(held', e.id) /\ Has(suspended', e.id))
          /\ OnceIn(held', e.id) /\ OnceIn(suspended', e.id)
      BY <1>7, <2>2 DEF Unparked, Has, OnceIn
    <3> QED BY <1>7, <2>2, <3>1, <3>2, LandsInList
  <2>3. /\ \A h \in held' : h.id # e.id => h \in held
        /\ \A h \in suspended' : h.id # e.id => h \in suspended
    BY <1>7
  <2> QED BY <1>0, <1>1, <1>7, <2>1, <2>2, <2>3, SingleEvent
<1>8. CASE HoldRequest
  <2>1. e.id \in Requests /\ suspended' = suspended /\ Calm'
    BY <1>0, <1>2, <1>8, EventFields DEF HoldRequest, TakeEvent, Calm
  <2>2. Retry(e.id) \in Events /\ Retry(e.id).id = e.id
    BY <2>1, EventTypes, EventIds
  <2>3. CASE held' = held
    BY <1>0, <1>3, <1>8, <2>1, <2>2, <2>3 DEF HoldRequest
  <2>4. CASE held' # held
    <3>1. PICK p : p = [id |-> e.id, rev |-> e.rev]
      OBVIOUS
    <3>2. p.id = e.id /\ mainq' = Tail(mainq) /\ held' = held \cup {p}
      BY <1>0, <1>8, <2>4, <3>1 DEF HoldRequest
    <3> QED BY <1>7, <2>1, <3>2
  <2> QED BY <2>3, <2>4
<1>9. CASE SuspendWorkspaceDiagnostics
  <2>1. e.id \in Requests /\ held' = held /\ Calm'
    BY <1>0, <1>2, <1>9, EventFields DEF SuspendWorkspaceDiagnostics, TakeEvent, Calm
  <2>2. Respond(e.id) \in Events /\ Respond(e.id).id = e.id
    BY <2>1, EventTypes, EventIds
  <2>3. CASE RefusesSuspension
    BY <1>0, <1>3, <1>9, <2>1, <2>2, <2>3 DEF SuspendWorkspaceDiagnostics
  <2>4. CASE ~RefusesSuspension
    <3>1. PICK p : p = [id |-> e.id, rev |-> e.rev]
      OBVIOUS
    <3>2. p.id = e.id /\ mainq' = Tail(mainq) /\ suspended' = suspended \cup {p}
      BY <1>0, <1>9, <2>4, <3>1 DEF SuspendWorkspaceDiagnostics
    <3> QED BY <1>7, <2>1, <3>2
  <2> QED BY <2>3, <2>4
<1> QED
  BY <1>4, <1>5, <1>6, <1>8, <1>9

LEMMA SingleMain == ASSUME TypeOK, LifecycleInv, SingleInv, MainStep PROVE SingleInv'
<1> USE DEF sessionVars, clientVars
<1>0. mainq \in Seq(Events) /\ pool \in Seq(Jobs)
  BY DEF TypeOK
<1>1. ASSUME NEW h \in held, ReleaseHeld(h) PROVE SingleInv'
  <2>1. h.id \in Requests
    BY DEF TypeOK, Parked
  <2>2. mainq' = mainq \/ \E e \in Events : e.id = h.id /\ mainq' = Append(mainq, e)
    <3>1. CASE Released(h) = <<>>
      BY <1>0, <1>1, <3>1 DEF ReleaseHeld
    <3>2. ASSUME NEW e \in {Retry(h.id), Respond(h.id)}, Released(h) = <<e>>
          PROVE  e \in Events /\ e.id = h.id /\ mainq' = Append(mainq, e)
      BY <1>0, <1>1, <2>1, <3>2, EventTypes, EventIds DEF ReleaseHeld
    <3> QED BY <3>1, <3>2 DEF Released
  <2> QED BY <1>1, <2>2, SingleUnpark DEF ReleaseHeld
<1>2. ASSUME NEW s \in suspended, ResumeSuspended(s) \/ AnswerAtShutdown(s) PROVE SingleInv'
  <2>1. s.id \in Requests
    BY DEF TypeOK, Parked
  <2>2. /\ Retry(s.id) \in Events /\ Respond(s.id) \in Events
        /\ Retry(s.id).id = s.id /\ Respond(s.id).id = s.id
    BY <2>1, EventTypes, EventIds
  <2>3. mainq' = mainq \/ \E e \in Events : e.id = s.id /\ mainq' = Append(mainq, e)
    <3>1. CASE ResumeSuspended(s)
      BY <2>2, <3>1 DEF ResumeSuspended
    <3>2. CASE AnswerAtShutdown(s)
      <4>1. mainq' = Append(mainq, Respond(s.id))
        BY <1>0, <2>2, <3>2 DEF AnswerAtShutdown, answer_at_shutdown
      <4> QED BY <2>2, <4>1
    <3> QED BY <1>2, <3>1, <3>2
  <2> QED BY <1>2, <2>3, SingleUnpark DEF ResumeSuspended, AnswerAtShutdown
<1>3. CASE ReleasedHeld \/ DeadlinePassed \/ ResumedSuspended \/ PollUvEnvironments
  <2>1. Calm' /\ UNCHANGED <<pool, worker, held, suspended, mainq, sent, deferred>>
    BY <1>3 DEF ReleasedHeld, DeadlinePassed, ResumedSuspended, PollUvEnvironments, Calm
  <2>2. sent \ Waiting \subseteq (sent \ Waiting)'
    BY <2>1 DEF Waiting
  <2> QED BY <2>1, <2>2, SingleIdle
<1>4. CASE SpawnJob
  <2>0. PICK r : r = job.id
    OBVIOUS
  <2>1. /\ pc = "spawn" /\ job \in Jobs /\ pool' = Append(pool, job) /\ pc' = "next"
        /\ UNCHANGED <<mainq, worker, held, suspended, sent, deferred>>
    BY <1>4 DEF SpawnJob, TypeOK
  <2>2. r \in Requests
    BY <2>0, <2>1 DEF Jobs
  <2>3. (sent \ Waiting)' = sent \ Waiting
    BY <2>1 DEF Waiting
  <2>4. \A x : ~Spawning(x)' /\ ~ShuttingDown(x)'
    BY <2>1, CalmHolds DEF Calm
  <2>5. ASSUME NEW x \in Requests \ {r} PROVE Shrinks(x)
    <3>1. (Once(pool, x) => Once(pool', x)) /\ (InQueue(pool', x) => Pooled(x))
      BY <1>0, <2>0, <2>1, <2>5, OnceAppend, InAppend DEF Pooled
    <3> QED BY <2>1, <2>4, <3>1 DEF Shrinks, Queued, RunBy
  <2>6. OnceEach(r) /\ Exclusive(r) /\ (Somewhere(r) => r \in sent \ Waiting)
    BY <2>2 DEF SingleInv
  <2>7. Spawning(r)
    BY <2>0, <2>1 DEF Spawning
  <2>8. /\ ~Queued(r) /\ ~Pooled(r) /\ ~Run(r) /\ ~Has(held, r) /\ ~Has(suspended, r)
        /\ r \in sent \ Waiting
    BY <2>6, <2>7 DEF Exclusive, Somewhere
  <2>9. ~Queued(r)' /\ ~Run(r)' /\ ~Has(held, r)' /\ ~Has(suspended, r)'
    BY <2>1, <2>8 DEF Queued, Run, RunBy, Has
  <2>10. Exclusive(r)'
    BY <2>4, <2>9 DEF Exclusive
  <2>11. Once(pool', r)
    BY <1>0, <2>1, <2>6, <2>8, OnceAppend DEF OnceEach, Pooled
  <2>12. OnceEach(r)'
    BY <2>1, <2>6, <2>9, <2>11 DEF OnceEach, Run
  <2> QED BY <2>3, <2>5, <2>8, <2>10, <2>12, SingleMove
<1>5. CASE SetShutdownRequested
  <2>1. /\ pc = "answer" /\ pc' = "write" /\ purpose' = "shutdown"
        /\ UNCHANGED <<mainq, pool, worker, held, suspended, sent, deferred>>
    BY <1>5 DEF SetShutdownRequested
  <2>2. (sent \ Waiting)' = sent \ Waiting
    BY <2>1 DEF Waiting
  <2>3. \A x \in Requests : Shrinks(x)
    BY <2>1 DEF Shrinks, Queued, Pooled, RunBy, Spawning, ShuttingDown
  <2> QED BY <2>2, <2>3, RequestsAssumption, SingleMove
<1>6. CASE WriteDone
  <2>1. /\ pc = "write" /\ pc' \in {"next", "resume"} /\ Calm'
        /\ UNCHANGED <<pool, worker, held, suspended, sent, deferred>>
    BY <1>6 DEF WriteDone, Calm
  <2>2. (sent \ Waiting)' = sent \ Waiting
    BY <2>1 DEF Waiting
  <2>3. CASE purpose # "shutdown"
    <3>1. mainq' = mainq
      BY <1>6, <2>3 DEF WriteDone
    <3> QED BY <2>1, <2>2, <3>1, SingleIdle
  <2>4. CASE purpose = "shutdown"
    <3>1. PICK r \in Requests : Kind[r] = "shutdown" /\ mainq' = Append(mainq, Respond(r))
      BY <1>6, <2>4 DEF WriteDone
    <3>2. Respond(r) \in Events /\ Respond(r).id = r
      BY EventTypes, EventIds
    <3>3. \A x : ~Spawning(x)' /\ ~ShuttingDown(x)'
      BY <2>1, CalmHolds
    <3>4. ASSUME NEW x \in Requests \ {r} PROVE Shrinks(x)
      <4>1. (Once(mainq, x) => Once(mainq', x)) /\ (InQueue(mainq', x) => Queued(x))
        BY <1>0, <3>1, <3>2, <3>4, OnceAppend, InAppend DEF Queued
      <4> QED BY <2>1, <3>3, <4>1 DEF Shrinks, Pooled, RunBy
    <3>5. OnceEach(r) /\ Exclusive(r) /\ (Somewhere(r) => r \in sent \ Waiting)
      BY DEF SingleInv
    <3>6. ShuttingDown(r)
      BY <2>1, <2>4, <3>1 DEF ShuttingDown
    <3>7. Unparked(r) /\ ~Queued(r) /\ r \in sent \ Waiting
      BY <3>5, <3>6 DEF Exclusive, Unparked, Somewhere
    <3>8. Unparked(r)'
      BY <2>1, <3>7, UnparkedStays
    <3>9. Once(mainq', r)
      BY <1>0, <3>1, <3>2, <3>5, <3>7, OnceAppend DEF OnceEach, Queued
    <3>10. OnceEach(r)' /\ Exclusive(r)'
      BY <3>3, <3>8, <3>9, LandsInQueue
    <3> QED BY <2>2, <3>4, <3>7, <3>10, SingleMove
  <2> QED BY <2>3, <2>4
<1> QED
  BY <1>1, <1>2, <1>3, <1>4, <1>5, <1>6, SingleTakeDeferred, SingleEvents DEF MainStep

LEMMA SingleStep == TypeOK /\ LifecycleInv /\ SingleInv /\ [Next]_vars => SingleInv'
<1> SUFFICES ASSUME TypeOK, LifecycleInv, SingleInv, [Next]_vars PROVE SingleInv'
  OBVIOUS
<1> USE DEF sessionVars, clientVars
<1>1. ASSUME NEW ok \in BOOLEAN, ConfigResponse(ok) PROVE SingleInv'
  <2>1. Calm' /\ UNCHANGED <<pool, worker, held, suspended, sent, deferred>>
    BY <1>1 DEF ConfigResponse, Calm
  <2>2. mainq' = mainq \/ \E e \in Events : e.id = NoRequest /\ mainq' = Append(mainq, e)
    <3>1. InitializeWorkspaces.id = NoRequest
      BY DEF InitializeWorkspaces
    <3> QED BY <1>1, <3>1, EventTypes DEF ConfigResponse
  <2>3. sent \ Waiting \subseteq (sent \ Waiting)'
    BY <2>1 DEF Waiting
  <2> QED BY <2>1, <2>2, <2>3, SingleIdle
<1>2. CASE WatcherReports
  <2>1. UNCHANGED <<pc, job, purpose, pool, worker, held, suspended, sent, deferred>>
    BY <1>2 DEF WatcherReports
  <2>2. \E e \in Events : e.id = NoRequest /\ mainq' = Append(mainq, e)
    <3>1. FsChanges.id = NoRequest
      BY DEF FsChanges
    <3> QED BY <1>2, <3>1, EventTypes DEF WatcherReports
  <2>3. sent \ Waiting \subseteq (sent \ Waiting)'
    BY <2>1 DEF Waiting
  <2> QED BY <2>1, <2>2, <2>3, SingleIdle
<1>3. CASE UvFinishes \/ (\E r \in Requests : HoldLimitPasses(r)) \/ UNCHANGED vars
  <2>1. UNCHANGED <<pc, job, purpose, mainq, pool, worker, held, suspended, sent, deferred>>
    BY <1>3 DEF UvFinishes, HoldLimitPasses, vars
  <2>2. sent \ Waiting \subseteq (sent \ Waiting)'
    BY <2>1 DEF Waiting
  <2> QED BY <2>1, <2>2, SingleIdle
<1> QED
  BY <1>1, <1>2, <1>3, SingleMain, SingleReceive, SingleWorker DEF Next, ClientStep, Stopped

LEMMA SingleHolds == Spec => []SingleInv
<1>1. Init => SingleInv
  BY DEF Init, SingleInv, OnceEach, Exclusive, Somewhere, Once, OnceIn, Queued, Pooled, InQueue,
         Run, RunBy, Has, Spawning, ShuttingDown
<1> QED
  BY <1>1, SingleStep, TypeCorrect, StagesHold, PTL DEF Spec

LEMMA AtMostOne ==
    ASSUME NEW S, \A x, y \in S : x = y
    PROVE  Cardinality(S) = IF S = {} THEN 0 ELSE 1
<1>1. CASE S = {}
  BY <1>1, FS_EmptySet
<1>2. CASE S # {}
  <2>1. PICK x : S = {x}
    BY <1>2
  <2> QED BY <1>2, <2>1, FS_Singleton
<1> QED
  BY <1>1, <1>2

\* However retries, holds, suspensions, unwinding and shutting down interleave, a request is
\* never in two hands: no handler runs twice for it at the same time, and nobody answers it
\* while another may still ask it again.
THEOREM OneHand == Spec => []OneCustodian
<1>1. SingleInv => OneCustodian
  <2> SUFFICES ASSUME SingleInv, NEW r \in Requests PROVE Custodians(r) <= 1
    BY DEF OneCustodian
  <2> DEFINE Q == {i \in DOMAIN mainq : mainq[i].id = r}
             P == {i \in DOMAIN pool : pool[i].id = r}
             W == {w \in Workers : RunBy(w, r)}
             H == {h \in held : h.id = r}
             S == {s \in suspended : s.id = r}
             C(T) == IF T = {} THEN 0 ELSE 1
  <2>1. OnceEach(r) /\ Exclusive(r)
    BY DEF SingleInv
  <2>2. /\ \A i, k \in Q : i = k
        /\ \A i, k \in P : i = k
        /\ \A v, w \in W : v = w
        /\ \A g, h \in H : g = h
        /\ \A g, h \in S : g = h
    BY <2>1 DEF OnceEach, Once, OnceIn
  <2>3. /\ Q # {} => Queued(r)
        /\ P # {} => Pooled(r)
        /\ W # {} => Run(r)
        /\ H # {} => Has(held, r)
        /\ S # {} => Has(suspended, r)
    BY DEF Queued, Pooled, InQueue, Run, Has
  <2>4. Custodians(r) = Cardinality(Q) + Cardinality(P) + Cardinality(W) + Cardinality(H)
                          + Cardinality(S) + (IF Spawning(r) THEN 1 ELSE 0)
    BY DEF Custodians
  <2> HIDE DEF Q, P, W, H, S
  <2>5. /\ Cardinality(Q) = C(Q) /\ Cardinality(P) = C(P) /\ Cardinality(W) = C(W)
        /\ Cardinality(H) = C(H) /\ Cardinality(S) = C(S)
    BY <2>2, AtMostOne
  <2> QED
    BY <2>1, <2>3, <2>4, <2>5 DEF Exclusive
<1> QED
  BY <1>1, SingleHolds, PTL

-----------------------------------------------------------------------------
(* The change a parked request waits for.                                  *)

Members(q) == {q[i] : i \in DOMAIN q}

\* A job knows the text there was at its revision; what a request that is not stale found
\* missing is missing still.
Fresh(j) ==
    /\ j.rev <= revision
    /\ j.rev = revision => j.text = text
    /\ j.mode = "hold" => Wanted[j.id] # 0 /\ j.text = 0
AwaitsText(p) == p.rev <= revision /\ (p.rev = revision => Wanted[p.id] # text)
AwaitsUv(p) ==
    /\ p.rev <= revision
    /\ p.rev = revision /\ Kind[p.id] = "checkworkspace" => uv # "done"
TimelyEvent(e) == (e.t = "hold" => AwaitsText(e)) /\ (e.t = "suspend" => AwaitsUv(e))

Timely ==
    /\ \A j \in Members(pool) : Fresh(j)
    /\ \A w \in Workers : worker[w].phase # "idle" => Fresh(worker[w].job)
    /\ pc = "spawn" => Fresh(job)
    /\ \A e \in Members(mainq) : TimelyEvent(e)
    /\ \A h \in held : AwaitsText(h)
    /\ \A s \in suspended : AwaitsUv(s)

\* The lists have been looked at since the last change when the loop waits.
Looked ==
    /\ pc = "select" => \A h \in held : h.id \in pending => h.rev = revision
    /\ pc # "resume" => \A s \in suspended : s.id \in pending => s.rev = revision

WakeInv == Timely /\ Looked

LEMMA MembersAppend ==
    ASSUME NEW S, NEW q \in Seq(S), NEW e \in S
    PROVE  Members(Append(q, e)) = Members(q) \cup {e}
<1> DEFINE p == Append(q, e)
<1>1. /\ DOMAIN p = DOMAIN q \cup {Len(q) + 1}
      /\ p[Len(q) + 1] = e
      /\ \A i \in DOMAIN q : p[i] = q[i]
  BY AppendIndices
<1> HIDE DEF p
<1>2. Members(p) = Members(q) \cup {e}
  BY <1>1 DEF Members
<1> QED
  BY <1>2 DEF p

LEMMA MembersTail ==
    ASSUME NEW S, NEW q \in Seq(S), q # <<>>
    PROVE  Head(q) \in Members(q) /\ Members(Tail(q)) \subseteq Members(q)
<1> DEFINE p == Tail(q)
<1>1. /\ 1 \in DOMAIN q /\ q[1] = Head(q)
      /\ \A i \in DOMAIN p : i + 1 \in DOMAIN q /\ p[i] = q[i + 1]
  BY TailIndices
<1> HIDE DEF p
<1>2. Head(q) \in Members(q) /\ Members(p) \subseteq Members(q)
  BY <1>1 DEF Members
<1> QED
  BY <1>2 DEF p

\* A step that leaves the session's revision: what is new must be timely.
LEMMA TimelyFrame ==
    ASSUME Timely, UNCHANGED <<revision, text>>, uv' = "done" => uv = "done",
           \A j \in Members(pool') : j \in Members(pool) \/ Fresh(j),
           \A w \in Workers : worker'[w].phase # "idle" => Fresh(worker'[w].job),
           pc' = "spawn" => Fresh(job'),
           \A e \in Members(mainq') : e \in Members(mainq) \/ TimelyEvent(e),
           \A h \in held' : h \in held \/ AwaitsText(h),
           \A s \in suspended' : s \in suspended \/ AwaitsUv(s)
    PROVE  Timely'
<1>1. \A j : Fresh(j) => Fresh(j)'
  BY DEF Fresh
<1>2. \A p : (AwaitsText(p) => AwaitsText(p)') /\ (AwaitsUv(p) => AwaitsUv(p)')
  BY DEF AwaitsText, AwaitsUv
<1>3. \A e : TimelyEvent(e) => TimelyEvent(e)'
  BY <1>2 DEF TimelyEvent
<1>4. /\ \A j \in Members(pool') : Fresh(j)'
      /\ \A w \in Workers : worker'[w].phase # "idle" => Fresh(worker[w].job)'
      /\ pc' = "spawn" => Fresh(job)'
      /\ \A e \in Members(mainq') : TimelyEvent(e)'
      /\ \A h \in held' : AwaitsText(h)'
      /\ \A s \in suspended' : AwaitsUv(s)'
  <2>1. \A w \in Workers : worker'[w].phase # "idle" => Fresh(worker[w].job)'
    BY DEF Fresh
  <2>2. pc' = "spawn" => Fresh(job)'
    BY DEF Fresh
  <2>3. \A j \in Members(pool') : Fresh(j)'
    BY <1>1 DEF Timely
  <2>4. \A e \in Members(mainq') : TimelyEvent(e)'
    BY <1>3 DEF Timely
  <2>5. (\A h \in held' : AwaitsText(h)') /\ (\A s \in suspended' : AwaitsUv(s)')
    BY <1>2 DEF Timely
  <2> QED BY <2>1, <2>2, <2>3, <2>4, <2>5
<1> QED
  BY <1>4 DEF Timely

\* A change of the session: nothing that is parked or under way has its revision.
LEMMA TimelyBump ==
    ASSUME TypeOK, Timely, revision' = revision + 1, pc' = "resume",
           UNCHANGED <<mainq, held, suspended, pool, worker>>
    PROVE  WakeInv'
<1>1. revision \in Nat /\ pool \in Seq(Jobs) /\ mainq \in Seq(Events)
        /\ held \subseteq Parked /\ suspended \subseteq Parked
  BY DEF TypeOK
<1>2. \A n \in Nat : n <= revision => n <= revision' /\ n # revision'
  BY <1>1
<1>3. ASSUME NEW j \in Jobs, Fresh(j) PROVE Fresh(j)'
  <2>1. j.rev \in Nat
    BY DEF Jobs
  <2> QED BY <1>2, <1>3, <2>1 DEF Fresh
<1>4. ASSUME NEW p, p.rev \in Nat
      PROVE  (AwaitsText(p) => AwaitsText(p)') /\ (AwaitsUv(p) => AwaitsUv(p)')
  BY <1>2, <1>4 DEF AwaitsText, AwaitsUv
<1>5. \A j \in Members(pool') : Fresh(j)'
  <2>1. Members(pool) \subseteq Jobs
    BY <1>1 DEF Members
  <2> QED BY <1>3, <2>1 DEF Timely
<1>6. \A w \in Workers : worker'[w].phase # "idle" => Fresh(worker[w].job)'
  <2> SUFFICES ASSUME NEW w \in Workers, worker[w].phase # "idle" PROVE Fresh(worker[w].job)'
    OBVIOUS
  <2>0. PICK j : j = worker[w].job
    OBVIOUS
  <2>1. j \in Jobs /\ Fresh(j)
    BY <2>0 DEF TypeOK, Timely
  <2>2. Fresh(j)' /\ worker'[w].job = j
    BY <1>3, <2>0, <2>1
  <2> QED BY <2>2 DEF Fresh
<1>7. \A e \in Members(mainq') : TimelyEvent(e)'
  <2> SUFFICES ASSUME NEW e \in Members(mainq) PROVE TimelyEvent(e)'
    OBVIOUS
  <2>1. e \in Events /\ TimelyEvent(e)
    BY <1>1 DEF Members, Timely
  <2>2. e.rev \in Nat
    BY <2>1 DEF Events
  <2> QED BY <1>4, <2>1, <2>2 DEF TimelyEvent
<1>8. (\A h \in held' : AwaitsText(h)') /\ (\A s \in suspended' : AwaitsUv(s)')
  BY <1>1, <1>4 DEF Timely, Parked
<1>9. Timely'
  BY <1>5, <1>6, <1>7, <1>8 DEF Timely
<1>10. Looked'
  BY DEF Looked
<1> QED
  BY <1>9, <1>10 DEF WakeInv

\* A job that is made now is fresh, and what it finds missing at the end is missing then.
LEMMA FreshJob ==
    ASSUME TypeOK, NEW r \in Requests
    PROVE  Fresh(JobFor(r))
BY DEF TypeOK, JobFor, Fresh

LEMMA TimelyOutcome ==
    ASSUME NEW j \in Jobs, Fresh(j), NEW e \in Outcomes(j)
    PROVE  TimelyEvent(e)
<1>1. j.mode \in {"run", "hold"}
  BY DEF Jobs
<1>2. CASE e = Respond(j.id)
  BY <1>2 DEF Respond, TimelyEvent
<1>3. CASE e = Hold(j) /\ (j.mode = "hold" \/ Wanted[j.id] \notin {0, j.text})
  BY <1>3 DEF Hold, TimelyEvent, AwaitsText, Fresh
<1>4. CASE e = Suspend(j) /\ (Kind[j.id] = "checkworkspace" => uv # "done")
  BY <1>4 DEF Suspend, TimelyEvent, AwaitsUv, Fresh
<1> QED
  BY <1>1, <1>2, <1>3, <1>4 DEF Outcomes

\* An answer and a retry park nothing.
LEMMA PlainEvents ==
    /\ \A r : TimelyEvent(Respond(r)) /\ TimelyEvent(Retry(r))
    /\ TimelyEvent(FsChanges) /\ TimelyEvent(InitializeWorkspaces)
BY DEF TimelyEvent, Respond, Retry, FsChanges, InitializeWorkspaces

LEMMA TimelyAppend ==
    ASSUME NEW q \in Seq(Events), NEW e \in Events, mainq' = Append(q, e), TimelyEvent(e),
           Members(q) \subseteq Members(mainq)
    PROVE  \A f \in Members(mainq') : f \in Members(mainq) \/ TimelyEvent(f)
<1>1. Members(Append(q, e)) = Members(q) \cup {e}
  BY MembersAppend
<1> QED
  BY <1>1

\* A step that parks nothing and leaves the pool alone.
LEMMA WakeQuiet ==
    ASSUME WakeInv, UNCHANGED <<revision, text, pool, worker>>, uv' = "done" => uv = "done",
           pc' = "spawn" => Fresh(job'),
           \A e \in Members(mainq') : e \in Members(mainq) \/ TimelyEvent(e),
           held' \subseteq held, suspended' \subseteq suspended,
           pc' = "select" => pc = "select" /\ pending' = pending,
           pc' = "resume" \/ (pc # "resume" /\
             \A s \in suspended : s.id \in pending' => s.id \in pending)
    PROVE  WakeInv'
<1>1. Timely /\ Looked
  BY DEF WakeInv
<1>2. \A w \in Workers : worker'[w].phase # "idle" => Fresh(worker'[w].job)
  BY <1>1 DEF Timely
<1>3. /\ \A j \in Members(pool') : j \in Members(pool) \/ Fresh(j)
      /\ \A h \in held' : h \in held \/ AwaitsText(h)
      /\ \A s \in suspended' : s \in suspended \/ AwaitsUv(s)
  OBVIOUS
<1>4. Timely'
  BY <1>1, <1>2, <1>3, TimelyFrame
<1>5. Looked'
  BY <1>1 DEF Looked
<1> QED
  BY <1>4, <1>5 DEF WakeInv

\* What dispatching a request r queues and hands to the pool.
LEMMA WakeDispatch ==
    ASSUME TypeOK, NEW r \in Requests, NEW q \in Seq(Events), NEW p, Dispatch(r, q, p)
    PROVE  /\ pc' \in {"next", "answer", "spawn", "panicked"}
           /\ pc' = "spawn" => Fresh(job')
           /\ \A e \in Members(mainq') : e \in Members(q) \/ TimelyEvent(e)
<1>1. CASE Kind[r] = "sync"
  <2>1. mainq' = Append(q, Respond(r)) /\ pc' = "next"
    BY <1>1 DEF Dispatch
  <2>2. Respond(r) \in Events
    BY EventTypes
  <2>3. Members(mainq') = Members(q) \cup {Respond(r)}
    BY <2>1, <2>2, MembersAppend
  <2> QED BY <2>1, <2>3, PlainEvents
<1>2. CASE Kind[r] # "sync"
  BY <1>2, FreshJob DEF Dispatch
<1> QED
  BY <1>1, <1>2

\* Handling a message of the client: a request that becomes pending was parked nowhere.
LEMMA WakeHandle ==
    ASSUME TypeOK, WakeInv, NEW m \in Messages, Handle(m), pc = "select",
           UNCHANGED <<pool, worker>>,
           m.t = "request" => \A s \in suspended : s.id # m.id
    PROVE  WakeInv'
<1>0. mainq \in Seq(Events)
  BY DEF TypeOK
<1>1. CASE m.t = "request"
  <2>0. PICK r : r = m.id
    OBVIOUS
  <2>1. r \in Requests /\ HandleRequest(r)
    BY <1>1, <2>0, MessageFields DEF Handle
  <2>2. /\ pc' \in {"next", "answer", "spawn", "panicked"}
        /\ pc' = "spawn" => Fresh(job')
        /\ \A e \in Members(mainq') : e \in Members(mainq) \/ TimelyEvent(e)
    <3>1. CASE shutdown
      <4>1. mainq' = Append(mainq, Respond(r)) /\ pc' = "next"
        BY <2>1, <3>1 DEF HandleRequest
      <4>2. Respond(r) \in Events
        BY <2>1, EventTypes
      <4>3. Members(mainq') = Members(mainq) \cup {Respond(r)}
        BY <1>0, <4>1, <4>2, MembersAppend
      <4> QED BY <4>1, <4>3, PlainEvents
    <3>2. CASE ~shutdown
      <4>1. Dispatch(r, mainq, TRUE)
        BY <2>1, <3>2 DEF HandleRequest
      <4> QED BY <1>0, <2>1, <4>1, WakeDispatch
    <3> QED BY <3>1, <3>2
  <2>3. /\ pending' = pending \cup {r}
        /\ UNCHANGED <<held, suspended, revision, text, uv>>
    BY <2>1 DEF HandleRequest
  <2>4. \A s \in suspended : s.id \in pending' => s.id \in pending
    BY <1>1, <2>0, <2>3
  <2> QED BY <2>2, <2>3, <2>4, WakeQuiet
<1>2. CASE m.t # "request"
  <2>1. /\ pc' \in {"resume", "write", "stopped"}
        /\ UNCHANGED <<held, suspended, mainq, revision, text, uv>>
        /\ pending' \subseteq pending
    BY <1>2 DEF Handle, HandleCancel, HandleEdit, HandleAddFolder, HandleExit
  <2> QED BY <2>1, WakeQuiet
<1> QED
  BY <1>1, <1>2

\* A request that is parked was taken from the client before.
LEMMA ParkedSent ==
    ASSUME TypeOK, SingleInv, NEW s \in suspended
    PROVE  s.id \in sent \ Waiting
<1>1. s.id \in Requests
  BY DEF TypeOK, Parked
<1>2. Somewhere(s.id)
  BY DEF Somewhere, Has
<1> QED
  BY <1>1, <1>2 DEF SingleInv

LEMMA WakeReceive ==
    ASSUME TypeOK, SingleInv, WakeInv, NEW m \in Messages, ReceiveMessage(m)
    PROVE  WakeInv'
<1>1. /\ pc = "select" /\ UNCHANGED <<pool, worker>>
      /\ m.t = "request" => m.id \notin sent
      /\ Handle(m) \/ Defer(m)
  BY DEF ReceiveMessage, ClientsTurn, MaySend
<1>2. CASE Handle(m)
  BY <1>1, <1>2, ParkedSent, WakeHandle
<1>3. CASE Defer(m)
  <2>1. pc' = "next" /\ UNCHANGED <<mainq, pending, held, suspended, revision, text, uv>>
    BY <1>3 DEF Defer
  <2> QED BY <1>1, <2>1, WakeQuiet
<1> QED
  BY <1>1, <1>2, <1>3

LEMMA WakeTakeDeferred ==
    ASSUME TypeOK, LifecycleInv, SingleInv, WakeInv, TakeDeferred
    PROVE  WakeInv'
<1>0. PICK m : m = Head(deferred)
  OBVIOUS
<1>1. /\ pc = "select" /\ UNCHANGED <<pool, worker>> /\ Handle(m)
      /\ deferred # <<>> /\ deferred' = Tail(deferred)
  BY <1>0 DEF TakeDeferred
<1>2. m \in Messages /\ (m.t = "request" => m.id \in Waiting)
  BY <1>0, <1>1, Taking
<1> QED
  BY <1>1, <1>2, ParkedSent, WakeHandle

\* The events.  Only a request whose revision is the session's is held, and it then awaits
\* its text; a suspended request is looked at before anything else.
LEMMA WakeEvents ==
    ASSUME TypeOK, WakeInv,
           SendResponse \/ RetryRequest \/ HoldRequest \/ SuspendWorkspaceDiagnostics
             \/ ApplyFileSystemChanges \/ InitializeWorkspaceFolders
    PROVE  WakeInv'
<1> USE DEF sessionVars, clientVars
<1>0. PICK e : e = Head(mainq)
  OBVIOUS
<1>1. /\ pc = "select" /\ mainq # <<>> /\ mainq \in Seq(Events)
      /\ UNCHANGED <<pool, worker, revision, text, uv>>
  BY DEF SendResponse, RetryRequest, HoldRequest, SuspendWorkspaceDiagnostics,
         ApplyFileSystemChanges, InitializeWorkspaceFolders, TakeEvent, QueueEmpty, TypeOK
<1>2. e \in Events /\ Tail(mainq) \in Seq(Events)
  BY <1>0, <1>1, QueueHead
<1>3. e \in Members(mainq) /\ Members(Tail(mainq)) \subseteq Members(mainq)
  BY <1>0, <1>1, MembersTail
<1>4. Timely /\ Looked /\ TimelyEvent(e)
  BY <1>3 DEF WakeInv, Timely
<1>5. CASE SendResponse \/ ApplyFileSystemChanges \/ InitializeWorkspaceFolders
  <2>1. /\ pc' \in {"next", "write"} /\ mainq' = Tail(mainq) /\ pending' \subseteq pending
        /\ UNCHANGED <<held, suspended>>
    BY <1>5 DEF SendResponse, ApplyFileSystemChanges, InitializeWorkspaceFolders
  <2> QED BY <1>1, <1>3, <2>1, WakeQuiet
<1>6. CASE RetryRequest
  <2>1. e.id \in Requests /\ UNCHANGED <<held, suspended, pending>>
    BY <1>0, <1>2, <1>6, EventFields DEF RetryRequest, TakeEvent
  <2>2. /\ pc' \in {"next", "answer", "spawn", "panicked"}
        /\ pc' = "spawn" => Fresh(job')
        /\ \A f \in Members(mainq') : f \in Members(Tail(mainq)) \/ TimelyEvent(f)
    <3>1. CASE MayRetry(e.id)
      <4>1. Dispatch(e.id, Tail(mainq), e.id \in pending)
        BY <1>0, <1>6, <3>1 DEF RetryRequest
      <4> QED BY <1>2, <2>1, <4>1, WakeDispatch
    <3>2. CASE ~MayRetry(e.id)
      BY <1>0, <1>6, <3>2 DEF RetryRequest
    <3> QED BY <3>1, <3>2
  <2> QED BY <1>1, <1>3, <2>1, <2>2, WakeQuiet
<1>7. CASE HoldRequest
  <2>1. /\ e.id \in Requests /\ e.t = "hold" /\ pc' = "next"
        /\ UNCHANGED <<suspended, pending>>
    BY <1>0, <1>2, <1>7, EventFields DEF HoldRequest, TakeEvent
  <2>2. Retry(e.id) \in Events
    BY <2>1, EventTypes
  <2>3. CASE mainq' = Tail(mainq) /\ held' = held
    BY <1>1, <1>3, <2>1, <2>3, WakeQuiet
  <2>4. CASE mainq' = Append(Tail(mainq), Retry(e.id)) /\ held' = held
    <3>1. \A f \in Members(mainq') : f \in Members(mainq) \/ TimelyEvent(f)
      BY <1>2, <1>3, <2>2, <2>4, PlainEvents, TimelyAppend
    <3> QED BY <1>1, <2>1, <2>4, <3>1, WakeQuiet
  <2>5. CASE mainq' = Tail(mainq) /\ held' = held \cup {[id |-> e.id, rev |-> e.rev]}
    <3>1. PICK p : p = [id |-> e.id, rev |-> e.rev]
      OBVIOUS
    <3>2. p.id = e.id /\ p.rev = e.rev
      BY <3>1
    <3>3. AwaitsText(p)
      BY <1>4, <2>1, <3>2 DEF TimelyEvent, AwaitsText
    <3>4. /\ \A h \in held' : h \in held \/ AwaitsText(h)
          /\ \A f \in Members(mainq') : f \in Members(mainq) \/ TimelyEvent(f)
          /\ \A w \in Workers : worker'[w].phase # "idle" => Fresh(worker'[w].job)
      BY <1>1, <1>3, <1>4, <2>5, <3>1, <3>3 DEF Timely
    <3>5. Timely'
      BY <1>1, <1>4, <2>1, <3>4, TimelyFrame
    <3>6. Looked'
      BY <1>1, <1>4, <2>1 DEF Looked
    <3> QED BY <3>5, <3>6 DEF WakeInv
  <2> QED BY <1>0, <1>7, <2>3, <2>4, <2>5 DEF HoldRequest
<1>8. CASE SuspendWorkspaceDiagnostics
  <2>1. e.id \in Requests /\ e.t = "suspend" /\ UNCHANGED <<held, pending>>
    BY <1>0, <1>2, <1>8, EventFields DEF SuspendWorkspaceDiagnostics, TakeEvent
  <2>2. CASE RefusesSuspension
    <3>1. /\ pc' = "next" /\ suspended' = suspended
          /\ mainq' = Append(Tail(mainq), Respond(e.id)) /\ Respond(e.id) \in Events
      BY <1>0, <1>8, <2>1, <2>2, EventTypes DEF SuspendWorkspaceDiagnostics
    <3>2. \A f \in Members(mainq') : f \in Members(mainq) \/ TimelyEvent(f)
      BY <1>2, <1>3, <3>1, PlainEvents, TimelyAppend
    <3> QED BY <1>1, <2>1, <3>1, <3>2, WakeQuiet
  <2>3. CASE ~RefusesSuspension
    <3>1. PICK p : p = [id |-> e.id, rev |-> e.rev]
      OBVIOUS
    <3>2. p.id = e.id /\ p.rev = e.rev
      BY <3>1
    <3>3. pc' = "resume" /\ mainq' = Tail(mainq) /\ suspended' = suspended \cup {p}
      BY <1>0, <1>8, <2>3, <3>1 DEF SuspendWorkspaceDiagnostics
    <3>4. AwaitsUv(p)
      BY <1>4, <2>1, <3>2 DEF TimelyEvent, AwaitsUv
    <3>5. /\ \A s \in suspended' : s \in suspended \/ AwaitsUv(s)
          /\ \A f \in Members(mainq') : f \in Members(mainq) \/ TimelyEvent(f)
          /\ \A w \in Workers : worker'[w].phase # "idle" => Fresh(worker'[w].job)
      BY <1>1, <1>3, <1>4, <3>3, <3>4 DEF Timely
    <3>6. Timely'
      BY <1>1, <1>4, <2>1, <3>3, <3>5, TimelyFrame
    <3>7. Looked'
      BY <3>3 DEF Looked
    <3> QED BY <3>6, <3>7 DEF WakeInv
  <2> QED BY <2>2, <2>3
<1> QED
  BY <1>5, <1>6, <1>7, <1>8

LEMMA WakeMain ==
    ASSUME TypeOK, LifecycleInv, SingleInv, WakeInv, MainStep PROVE WakeInv'
<1> USE DEF sessionVars, clientVars
<1>0. mainq \in Seq(Events) /\ pool \in Seq(Jobs) /\ Timely /\ Looked
  BY DEF TypeOK, WakeInv
<1>1. ASSUME NEW r \in Requests,
             mainq' = Append(mainq, Retry(r)) \/ mainq' = Append(mainq, Respond(r))
      PROVE  \A e \in Members(mainq') : e \in Members(mainq) \/ TimelyEvent(e)
  <2>1. Retry(r) \in Events /\ Respond(r) \in Events
    BY EventTypes
  <2> QED BY <1>0, <1>1, <2>1, PlainEvents, TimelyAppend
<1>2. ASSUME NEW h \in held, ReleaseHeld(h) PROVE WakeInv'
  <2>1. h.id \in Requests
    BY DEF TypeOK, Parked
  <2>2. \/ mainq' = mainq
        \/ mainq' = Append(mainq, Retry(h.id))
        \/ mainq' = Append(mainq, Respond(h.id))
    <3>1. CASE Released(h) = <<>>
      BY <1>0, <1>2, <3>1 DEF ReleaseHeld
    <3>2. ASSUME NEW e \in {Retry(h.id), Respond(h.id)}, Released(h) = <<e>>
          PROVE  mainq' = Append(mainq, e)
      BY <1>0, <1>2, <2>1, <3>2, EventTypes DEF ReleaseHeld
    <3> QED BY <3>1, <3>2 DEF Released
  <2>3. /\ pc = "next" /\ held' \subseteq held
        /\ UNCHANGED <<pc, pending, suspended, revision, text, uv, pool, worker>>
    BY <1>2 DEF ReleaseHeld
  <2>4. \A e \in Members(mainq') : e \in Members(mainq) \/ TimelyEvent(e)
    BY <1>1, <2>1, <2>2
  <2> QED BY <2>3, <2>4, WakeQuiet
<1>3. ASSUME NEW s \in suspended, ResumeSuspended(s) \/ AnswerAtShutdown(s) PROVE WakeInv'
  <2>1. s.id \in Requests
    BY DEF TypeOK, Parked
  <2>2. \/ mainq' = mainq
        \/ mainq' = Append(mainq, Retry(s.id))
        \/ mainq' = Append(mainq, Respond(s.id))
    <3>1. CASE ResumeSuspended(s)
      BY <3>1 DEF ResumeSuspended
    <3>2. CASE AnswerAtShutdown(s)
      BY <1>0, <2>1, <3>2, EventTypes DEF AnswerAtShutdown, answer_at_shutdown
    <3> QED BY <1>3, <3>1, <3>2
  <2>3. /\ pc \in {"resume", "answer"} /\ suspended' \subseteq suspended
        /\ UNCHANGED <<pc, pending, held, revision, text, uv, pool, worker>>
    BY <1>3 DEF ResumeSuspended, AnswerAtShutdown
  <2>4. \A e \in Members(mainq') : e \in Members(mainq) \/ TimelyEvent(e)
    BY <1>1, <2>1, <2>2
  <2> QED BY <2>3, <2>4, WakeQuiet
<1>4. CASE ReleasedHeld \/ ResumedSuspended
  <2>1. UNCHANGED <<mainq, pending, held, suspended, revision, text, uv, pool, worker>>
    BY <1>4 DEF ReleasedHeld, ResumedSuspended
  <2>2. pc' # "spawn"
    BY <1>4 DEF ReleasedHeld, ResumedSuspended
  <2>3. \A w \in Workers : worker'[w].phase # "idle" => Fresh(worker'[w].job)
    BY <1>0, <2>1 DEF Timely
  <2>4. Timely'
    BY <1>0, <2>1, <2>2, <2>3, TimelyFrame
  <2>5. Looked'
    <3>1. CASE ReleasedHeld
      BY <1>0, <2>1, <3>1 DEF ReleasedHeld, MustRelease, Stale, Looked
    <3>2. CASE ResumedSuspended
      BY <2>1, <3>2 DEF ResumedSuspended, Stale, Looked
    <3> QED BY <1>4, <3>1, <3>2
  <2> QED BY <2>4, <2>5 DEF WakeInv
<1>5. CASE DeadlinePassed \/ PollUvEnvironments \/ SetShutdownRequested
  <2>1. /\ pc \in {"select", "answer"} /\ pc' \in {"next", "write"}
        /\ UNCHANGED <<mainq, pending, held, suspended, revision, text, uv, pool, worker>>
    BY <1>5 DEF DeadlinePassed, ClientsTurn, PollUvEnvironments, SetShutdownRequested
  <2> QED BY <2>1, WakeQuiet
<1>6. CASE SpawnJob
  <2>1. /\ pc = "spawn" /\ pc' = "next" /\ job \in Jobs /\ pool' = Append(pool, job)
        /\ UNCHANGED <<mainq, pending, held, suspended, revision, text, uv, worker>>
    BY <1>6 DEF SpawnJob, TypeOK
  <2>2. Members(pool') = Members(pool) \cup {job}
    BY <1>0, <2>1, MembersAppend
  <2>3. /\ \A j \in Members(pool') : j \in Members(pool) \/ Fresh(j)
        /\ \A w \in Workers : worker'[w].phase # "idle" => Fresh(worker'[w].job)
    BY <1>0, <2>1, <2>2 DEF Timely
  <2>4. Timely'
    BY <1>0, <2>1, <2>3, TimelyFrame
  <2>5. Looked'
    BY <1>0, <2>1 DEF Looked
  <2> QED BY <2>4, <2>5 DEF WakeInv
<1>7. CASE WriteDone
  <2>1. /\ pc = "write" /\ UNCHANGED <<pending, held, suspended, pool, worker>>
    BY <1>7 DEF WriteDone
  <2>2. CASE revision' = revision + 1 /\ pc' = "resume" /\ mainq' = mainq
    BY <1>0, <2>1, <2>2, TimelyBump
  <2>3. CASE pc' = "next" /\ UNCHANGED <<revision, text, uv, mainq>>
    BY <2>1, <2>3, WakeQuiet
  <2>4. CASE /\ pc' = "next" /\ UNCHANGED <<revision, text, uv>>
             /\ \E r \in Requests : mainq' = Append(mainq, Respond(r))
    <3>1. \A e \in Members(mainq') : e \in Members(mainq) \/ TimelyEvent(e)
      BY <1>1, <2>4
    <3> QED BY <2>1, <2>4, <3>1, WakeQuiet
  <2> QED BY <1>7, <2>2, <2>3, <2>4 DEF WriteDone
<1> QED
  BY <1>2, <1>3, <1>4, <1>5, <1>6, <1>7, WakeTakeDeferred, WakeEvents DEF MainStep

\* A worker runs a job that was fresh in the queue, and queues what its outcome says.
LEMMA WakeWorker ==
    ASSUME TypeOK, WakeInv, NEW w \in Workers, WorkerStep(w) PROVE WakeInv'
<1> USE DEF sessionVars, clientVars
<1>0. mainq \in Seq(Events) /\ pool \in Seq(Jobs) /\ Timely /\ Looked
  BY DEF TypeOK, WakeInv
<1>1. UNCHANGED <<pc, job, pending, held, suspended, revision, text, uv>>
  BY DEF WorkerStep, TakeJob, FinishJob, UnwindJob, PanicResponse
<1>2. ASSUME \A v \in Workers : worker'[v].phase # "idle" => Fresh(worker'[v].job),
             \A j \in Members(pool') : j \in Members(pool) \/ Fresh(j),
             \A e \in Members(mainq') : e \in Members(mainq) \/ TimelyEvent(e)
      PROVE  WakeInv'
  <2>1. pc' = "spawn" => Fresh(job')
    BY <1>0, <1>1 DEF Timely
  <2>2. Timely'
    BY <1>0, <1>1, <1>2, <2>1, TimelyFrame
  <2>3. Looked'
    BY <1>0, <1>1 DEF Looked
  <2> QED BY <2>2, <2>3 DEF WakeInv
<1>3. worker \in [Workers -> [phase : {"idle", "run", "unwound"}, job : Jobs \cup {NoJob}]]
  BY DEF TypeOK
<1>4. CASE TakeJob(w)
  <2>0. PICK j : j = Head(pool)
    OBVIOUS
  <2>1. /\ pool # <<>> /\ pool' = Tail(pool) /\ mainq' = mainq
        /\ worker' = [worker EXCEPT ![w] = IF j.mode = "run" /\ j.id \in tokens
                                             THEN Idle ELSE [phase |-> "run", job |-> j]]
    BY <1>4, <2>0 DEF TakeJob
  <2>2. j \in Members(pool) /\ Members(pool') \subseteq Members(pool)
    BY <1>0, <2>0, <2>1, MembersTail
  <2>3. Fresh(j)
    BY <1>0, <2>2 DEF Timely
  <2>4. ASSUME NEW v \in Workers, worker'[v].phase # "idle" PROVE Fresh(worker'[v].job)
    <3>1. CASE v # w
      <4>1. worker'[v] = worker[v]
        BY <1>3, <2>1, <3>1
      <4> QED BY <1>0, <2>4, <4>1 DEF Timely
    <3>2. CASE v = w
      <4>1. worker'[v].job = j
        BY <1>3, <2>1, <2>4, <3>2 DEF Idle
      <4> QED BY <2>3, <4>1
    <3> QED BY <3>1, <3>2
  <2> QED BY <1>2, <2>1, <2>2, <2>4
<1>5. CASE UnwindJob(w)
  <2>1. /\ worker[w].phase = "run" /\ worker' = [worker EXCEPT ![w].phase = "unwound"]
        /\ UNCHANGED <<pool, mainq>>
    BY <1>5 DEF UnwindJob
  <2>2. ASSUME NEW v \in Workers, worker'[v].phase # "idle" PROVE Fresh(worker'[v].job)
    <3>1. worker[v].phase # "idle" /\ worker'[v].job = worker[v].job
      BY <1>3, <2>1, <2>2
    <3> QED BY <1>0, <3>1 DEF Timely
  <2> QED BY <1>2, <2>1, <2>2
<1>6. ASSUME worker' = [worker EXCEPT ![w] = Idle], pool' = pool,
             NEW e \in Events, TimelyEvent(e), mainq' = Append(mainq, e)
      PROVE  WakeInv'
  <2>1. Members(mainq') = Members(mainq) \cup {e}
    BY <1>0, <1>6, MembersAppend
  <2>2. ASSUME NEW v \in Workers, worker'[v].phase # "idle" PROVE Fresh(worker'[v].job)
    <3>1. worker'[v] = worker[v]
      BY <1>3, <1>6, <2>2 DEF Idle
    <3> QED BY <1>0, <2>2, <3>1 DEF Timely
  <2> QED BY <1>2, <1>6, <2>1, <2>2
<1>7. CASE FinishJob(w)
  <2>0. PICK j : j = worker[w].job
    OBVIOUS
  <2>1. worker[w].phase = "run" /\ worker' = [worker EXCEPT ![w] = Idle] /\ pool' = pool
    BY <1>7 DEF FinishJob
  <2>2. PICK e \in Outcomes(j) : mainq' = Append(mainq, e)
    BY <1>7, <2>0 DEF FinishJob
  <2>3. j \in Jobs /\ Fresh(j)
    BY <1>0, <2>0, <2>1 DEF TypeOK, Timely
  <2>4. e \in Events /\ TimelyEvent(e)
    BY <2>2, <2>3, TimelyOutcome, OutcomeTypes
  <2> QED BY <1>6, <2>1, <2>2, <2>4
<1>8. CASE PanicResponse(w)
  <2>0. PICK r : r = worker[w].job.id
    OBVIOUS
  <2>1. /\ worker[w].phase = "unwound" /\ worker' = [worker EXCEPT ![w] = Idle] /\ pool' = pool
        /\ mainq' = Append(mainq, IF r \in Retriable THEN Retry(r) ELSE Respond(r))
    BY <1>8, <2>0 DEF PanicResponse
  <2>2. r \in Requests
    BY <2>0, <2>1 DEF TypeOK, Jobs
  <2>3. PICK e : e = IF r \in Retriable THEN Retry(r) ELSE Respond(r)
    OBVIOUS
  <2>4. e \in Events /\ TimelyEvent(e)
    BY <2>2, <2>3, EventTypes, PlainEvents
  <2> QED BY <1>6, <2>1, <2>3, <2>4
<1> QED
  BY <1>4, <1>5, <1>7, <1>8 DEF WorkerStep

LEMMA WakeStep == TypeOK /\ LifecycleInv /\ SingleInv /\ WakeInv /\ [Next]_vars => WakeInv'
<1> SUFFICES ASSUME TypeOK, LifecycleInv, SingleInv, WakeInv, [Next]_vars PROVE WakeInv'
  OBVIOUS
<1> USE DEF sessionVars, clientVars
<1>0. mainq \in Seq(Events)
  BY DEF TypeOK
<1>1. ASSUME NEW ok \in BOOLEAN, ConfigResponse(ok) PROVE WakeInv'
  <2>1. /\ pc = "select" /\ pc' = "next"
        /\ UNCHANGED <<pending, held, suspended, revision, text, uv, pool, worker>>
        /\ mainq' = mainq \/ mainq' = Append(mainq, InitializeWorkspaces)
    BY <1>1 DEF ConfigResponse, ClientsTurn
  <2>2. \A e \in Members(mainq') : e \in Members(mainq) \/ TimelyEvent(e)
    <3>1. InitializeWorkspaces \in Events
      BY EventTypes
    <3> QED BY <1>0, <2>1, <3>1, PlainEvents, TimelyAppend
  <2> QED BY <2>1, <2>2, WakeQuiet
<1>2. CASE WatcherReports
  <2>1. /\ UNCHANGED <<pc, job, pending, held, suspended, revision, text, uv, pool, worker>>
        /\ mainq' = Append(mainq, FsChanges)
    BY <1>2 DEF WatcherReports
  <2>2. Members(mainq') = Members(mainq) \cup {FsChanges}
    BY <1>0, <2>1, EventTypes, MembersAppend
  <2>3. pc' = "spawn" => Fresh(job')
    BY <2>1 DEF WakeInv, Timely
  <2> QED BY <2>1, <2>2, <2>3, PlainEvents, WakeQuiet
<1>3. CASE UvFinishes \/ (\E r \in Requests : HoldLimitPasses(r)) \/ UNCHANGED vars
  <2>1. /\ UNCHANGED <<pc, job, mainq, pending, held, suspended, revision, text, pool, worker>>
        /\ uv' = "done" => uv = "done"
    BY <1>3 DEF UvFinishes, HoldLimitPasses, vars
  <2>2. pc' = "spawn" => Fresh(job')
    BY <2>1 DEF WakeInv, Timely
  <2> QED BY <2>1, <2>2, WakeQuiet
<1> QED
  BY <1>1, <1>2, <1>3, WakeMain, WakeReceive, WakeWorker DEF Next, ClientStep, Stopped

LEMMA WakeInit == Init => WakeInv
<1> SUFFICES ASSUME Init PROVE WakeInv
  OBVIOUS
<1>1. /\ pc = "next" /\ mainq = <<>> /\ pool = <<>> /\ held = {} /\ suspended = {}
      /\ \A w \in Workers : worker[w].phase = "idle"
  BY DEF Init
<1>2. Members(mainq) = {} /\ Members(pool) = {}
  BY <1>1 DEF Members
<1> QED
  BY <1>1, <1>2 DEF WakeInv, Timely, Looked

\* NoMissedWakeup for every set of requests, pool and client: hold_request and
\* add_suspended_workspace_diagnostics_request compare the revision a request ran against
\* with the session's as they park it, and release_held_requests and
\* resume_suspended_workspace_diagnostic_requests look again after every change, so that
\* no change that falls between a run and its parking is slept through.
THEOREM NothingMissed == Spec => []NoMissedWakeup
<1>1. WakeInv => NoMissedWakeup
  BY DEF WakeInv, Timely, Looked, AwaitsText, AwaitsUv, NoMissedWakeup
<1> QED
  BY <1>1, WakeInit, WakeStep, TypeCorrect, StagesHold, SingleHolds, PTL DEF Spec
=============================================================================
