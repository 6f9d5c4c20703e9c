----------------------- MODULE ServerLifecycleProofs -----------------------
(***************************************************************************)
(* ServerLoop implements RequestLifecycle: whatever the interleaving of    *)
(* responses, retries, holds, suspensions, deferral, cancellation and      *)
(* shutdown, a request passes the stages of its life once and in order.    *)
(***************************************************************************)
EXTENDS ServerLoopProofs

-----------------------------------------------------------------------------
(* The two changes a queue undergoes.                                      *)

LEMMA AppendIndices ==
    ASSUME NEW S, NEW q \in Seq(S), NEW x \in S, NEW p, p = Append(q, x)
    PROVE  /\ DOMAIN p = DOMAIN q \cup {Len(q) + 1}
           /\ p[Len(q) + 1] = x
           /\ \A i \in DOMAIN q : p[i] = q[i] /\ i < Len(q) + 1
OBVIOUS

LEMMA TailIndices ==
    ASSUME NEW S, NEW q \in Seq(S), q # <<>>, NEW p, p = Tail(q)
    PROVE  /\ 1 \in DOMAIN q /\ q[1] = Head(q)
           /\ \A i \in DOMAIN p : i \in Nat /\ i + 1 \in DOMAIN q /\ p[i] = q[i + 1] /\ i + 1 # 1
           /\ \A i \in DOMAIN q : i \in Nat /\ (i # 1 => i - 1 \in DOMAIN p /\ p[i - 1] = q[i])
OBVIOUS

\* A request is waiting exactly if a deferred message is that request.
LEMMA WaitingIff ==
    \A r : r \in Waiting <=> \E i \in DOMAIN deferred : IsRequest(deferred[i], r)
BY DEF Waiting, IsRequest

-----------------------------------------------------------------------------
(* How each kind of step moves a request.                                  *)

\* A step that touches none of the variables the stages depend on.
LEMMA Frame ==
    ASSUME LifecycleInv, UNCHANGED <<sent, deferred, pending, answers, cancelSeen>>
    PROVE  LifecycleInv' /\ UNCHANGED Lifecycle!lifecycle
<1>1. Waiting' = Waiting
  BY DEF Waiting
<1> QED
  BY <1>1 DEF LifecycleInv, StagesDisjoint, DeferredOnce, CancelsFollow, IsRequest, IsCancel,
              Lifecycle!lifecycle

\* A registered request is answered.
LEMMA Answering ==
    ASSUME TypeOK, LifecycleInv, NEW r \in pending, pending' = pending \ {r},
           answers' = [answers EXCEPT ![r] = @ + 1], UNCHANGED <<sent, deferred>>,
           cancelSeen' = cancelSeen \/ (cancelSeen' = cancelSeen \cup {r} /\ deferred = <<>>)
    PROVE  LifecycleInv' /\ Lifecycle!Answer(r)
<1>1. Waiting' = Waiting
  BY DEF Waiting
<1>2. r \in Requests /\ answers[r] = 0
  BY DEF TypeOK, LifecycleInv, StagesDisjoint
<1>3. Lifecycle!Answer(r)
  BY <1>1 DEF Lifecycle!Answer
<1>4. StagesDisjoint'
  BY <1>1, <1>2 DEF TypeOK, LifecycleInv, StagesDisjoint
<1>5. DeferredOnce'
  BY DEF LifecycleInv, DeferredOnce, IsRequest
<1>6. CancelsFollow'
  BY <1>1, <1>2 DEF LifecycleInv, StagesDisjoint, CancelsFollow, IsRequest, IsCancel
<1> QED
  BY <1>3, <1>4, <1>5, <1>6 DEF LifecycleInv

\* The client's request is registered at once.
LEMMA Registering ==
    ASSUME TypeOK, LifecycleInv, NEW r \in Requests \ sent, sent' = sent \cup {r},
           pending' = pending \cup {r}, UNCHANGED <<deferred, answers, cancelSeen>>
    PROVE  LifecycleInv' /\ Lifecycle!Send(r)
<1>1. Waiting' = Waiting
  BY DEF Waiting
<1>2. Lifecycle!Send(r)
  BY <1>1 DEF Lifecycle!Send
<1>3. StagesDisjoint'
  BY <1>1 DEF TypeOK, LifecycleInv, StagesDisjoint
<1>4. DeferredOnce'
  BY DEF LifecycleInv, DeferredOnce, IsRequest
<1>5. CancelsFollow'
  BY <1>1 DEF LifecycleInv, StagesDisjoint, CancelsFollow, IsRequest, IsCancel
<1> QED
  BY <1>2, <1>3, <1>4, <1>5 DEF LifecycleInv

\* The client's message is deferred.
LEMMA Deferring ==
    ASSUME TypeOK, LifecycleInv, NEW m \in Messages, deferred' = Append(deferred, m),
           UNCHANGED <<pending, answers, cancelSeen>>,
           m.t = "request" => m.id \notin sent /\ sent' = sent \cup {m.id},
           m.t # "request" => sent' = sent,
           m.t = "cancel" => m.id \in sent
    PROVE  LifecycleInv' /\ [Lifecycle!Next]_(Lifecycle!lifecycle)
<1> DEFINE n == Len(deferred) + 1
<1>1. /\ DOMAIN deferred' = DOMAIN deferred \cup {n}
      /\ deferred'[n] = m
      /\ \A i \in DOMAIN deferred : deferred'[i] = deferred[i] /\ i < n
  BY AppendIndices DEF TypeOK
<1> HIDE DEF n
<1>2. CASE m.t = "request"
  <2>1. Waiting' = Waiting \cup {m.id}
    BY <1>1, <1>2 DEF Waiting
  <2>2. Lifecycle!Next
    BY <1>2, <2>1, MessageFields DEF Lifecycle!Next, Lifecycle!Send
  <2>3. StagesDisjoint'
    BY <1>2, <2>1 DEF TypeOK, LifecycleInv, StagesDisjoint
  <2>4. DeferredOnce'
    <3>1. \A i \in DOMAIN deferred : ~IsRequest(deferred[i], m.id)
      BY <1>2, WaitingIff DEF LifecycleInv, StagesDisjoint
    <3>2. m.id \in Requests
      BY <1>2, MessageFields
    <3> QED
      BY <1>1, <1>2, <3>1, <3>2 DEF LifecycleInv, DeferredOnce, IsRequest
  <2>5. CancelsFollow'
    <3>1. cancelSeen' \subseteq sent' \ (pending' \cup Waiting')
      BY <1>2, <2>1 DEF LifecycleInv, CancelsFollow
    <3>2. ASSUME NEW r \in Requests, NEW i \in DOMAIN deferred', IsCancel(deferred'[i], r)
          PROVE  r \in sent' /\ \A k \in DOMAIN deferred' : IsRequest(deferred'[k], r) => k < i
      <4>1. i \in DOMAIN deferred /\ IsCancel(deferred[i], r)
        BY <1>1, <1>2, <3>2 DEF IsCancel
      <4>2. r # m.id
        BY <1>2, <4>1 DEF LifecycleInv, CancelsFollow
      <4> QED
        BY <1>1, <1>2, <4>1, <4>2 DEF LifecycleInv, CancelsFollow, IsRequest
    <3> QED
      BY <3>1, <3>2 DEF CancelsFollow
  <2> QED
    BY <2>2, <2>3, <2>4, <2>5 DEF LifecycleInv
<1>3. CASE m.t # "request"
  <2>1. Waiting' = Waiting
    BY <1>1, <1>3 DEF Waiting
  <2>2. UNCHANGED Lifecycle!lifecycle
    BY <1>3, <2>1 DEF Lifecycle!lifecycle
  <2>3. StagesDisjoint'
    BY <1>3, <2>1 DEF LifecycleInv, StagesDisjoint
  <2>4. DeferredOnce'
    BY <1>1, <1>3 DEF LifecycleInv, DeferredOnce, IsRequest
  <2>5. CancelsFollow'
    <3>1. cancelSeen' \subseteq sent' \ (pending' \cup Waiting')
      BY <1>3, <2>1 DEF LifecycleInv, CancelsFollow
    <3>2. ASSUME NEW r \in Requests, NEW i \in DOMAIN deferred', IsCancel(deferred'[i], r)
          PROVE  r \in sent' /\ \A k \in DOMAIN deferred' : IsRequest(deferred'[k], r) => k < i
      <4>1. \A k \in DOMAIN deferred' : IsRequest(deferred'[k], r) =>
                k \in DOMAIN deferred /\ IsRequest(deferred[k], r)
        BY <1>1, <1>3 DEF IsRequest
      <4>2. CASE i = n
        BY <1>1, <1>3, <3>2, <4>1, <4>2 DEF IsCancel
      <4>3. CASE i # n
        <5>1. i \in DOMAIN deferred /\ IsCancel(deferred[i], r)
          BY <1>1, <3>2, <4>3 DEF IsCancel
        <5> QED
          BY <1>3, <4>1, <5>1 DEF LifecycleInv, CancelsFollow
      <4> QED BY <4>2, <4>3
    <3> QED
      BY <3>1, <3>2 DEF CancelsFollow
  <2> QED
    BY <2>2, <2>3, <2>4, <2>5 DEF LifecycleInv
<1> QED
  BY <1>2, <1>3

\* The oldest deferred message is taken out: what is true of the rest.
LEMMA Taking ==
    ASSUME TypeOK, LifecycleInv, deferred # <<>>, deferred' = Tail(deferred)
    PROVE  /\ Head(deferred) \in Messages
           /\ Head(deferred).t = "request" =>
                Head(deferred).id \in Waiting /\ Waiting' = Waiting \ {Head(deferred).id}
           /\ Head(deferred).t # "request" => Waiting' = Waiting
           /\ Head(deferred).t = "cancel" => Head(deferred).id \in sent \ Waiting
           /\ DeferredOnce'
           /\ \A r \in Requests : \A i \in DOMAIN deferred' : IsCancel(deferred'[i], r) =>
                /\ r \in sent
                /\ \A k \in DOMAIN deferred' : IsRequest(deferred'[k], r) => k < i
<1> DEFINE m == Head(deferred)
<1>1. /\ 1 \in DOMAIN deferred /\ deferred[1] = m
      /\ \A i \in DOMAIN deferred' :
           i \in Nat /\ i + 1 \in DOMAIN deferred /\ deferred'[i] = deferred[i + 1] /\ i + 1 # 1
      /\ \A i \in DOMAIN deferred :
           i \in Nat /\ (i # 1 => i - 1 \in DOMAIN deferred' /\ deferred'[i - 1] = deferred[i])
  BY TailIndices DEF TypeOK
<1>2. m \in Messages
  BY QueueHead DEF TypeOK
<1> HIDE DEF m
<1>3. \A r : r \in Waiting' <=> \E i \in DOMAIN deferred : i # 1 /\ IsRequest(deferred[i], r)
  <2>1. \A r : r \in Waiting' <=> \E i \in DOMAIN deferred' : IsRequest(deferred'[i], r)
    BY DEF Waiting, IsRequest
  <2> QED BY <1>1, <2>1
<1>4. ASSUME m.t = "request" PROVE m.id \in Waiting /\ Waiting' = Waiting \ {m.id}
  <2>1. IsRequest(deferred[1], m.id)
    BY <1>1, <1>4 DEF IsRequest
  <2>2. m.id \in Requests
    BY <1>2, <1>4, MessageFields
  <2>3. \A i \in DOMAIN deferred : IsRequest(deferred[i], m.id) => i = 1
    BY <1>1, <2>1, <2>2 DEF LifecycleInv, DeferredOnce
  <2>4. \A r : IsRequest(deferred[1], r) => r = m.id
    BY <1>1 DEF IsRequest
  <2> QED
    BY <1>1, <1>3, <2>1, <2>3, <2>4, WaitingIff
<1>5. ASSUME m.t # "request" PROVE Waiting' = Waiting
  <2>1. \A r : ~IsRequest(deferred[1], r)
    BY <1>1, <1>5 DEF IsRequest
  <2>2. \A r : r \in Waiting' <=> r \in Waiting
    BY <1>3, <2>1, WaitingIff
  <2> QED BY <2>2
<1>6. ASSUME m.t = "cancel" PROVE m.id \in sent \ Waiting
  <2>1. m.id \in Requests /\ IsCancel(deferred[1], m.id)
    BY <1>1, <1>2, <1>6, MessageFields DEF IsCancel
  <2>2. m.id \in sent /\ \A k \in DOMAIN deferred : IsRequest(deferred[k], m.id) => k < 1
    BY <1>1, <2>1 DEF LifecycleInv, CancelsFollow
  <2>3. DOMAIN deferred = 1 .. Len(deferred)
    BY DEF TypeOK
  <2> QED
    BY <2>2, <2>3, WaitingIff
<1>7. DeferredOnce'
  <2> SUFFICES ASSUME NEW r \in Requests, NEW i \in DOMAIN deferred', NEW k \in DOMAIN deferred',
                      IsRequest(deferred'[i], r), IsRequest(deferred'[k], r)
               PROVE  i = k
    BY DEF DeferredOnce, IsRequest
  <2>1. IsRequest(deferred[i + 1], r) /\ IsRequest(deferred[k + 1], r)
    BY <1>1
  <2>2. i + 1 = k + 1
    BY <1>1, <2>1 DEF LifecycleInv, DeferredOnce
  <2> QED
    BY <1>1, <2>2
<1>8. ASSUME NEW r \in Requests, NEW i \in DOMAIN deferred', IsCancel(deferred'[i], r)
      PROVE  r \in sent /\ \A k \in DOMAIN deferred' : IsRequest(deferred'[k], r) => k < i
  <2>1. i + 1 \in DOMAIN deferred /\ IsCancel(deferred[i + 1], r)
    BY <1>1, <1>8 DEF IsCancel
  <2>2. r \in sent /\ \A k \in DOMAIN deferred : IsRequest(deferred[k], r) => k < i + 1
    BY <2>1 DEF LifecycleInv, CancelsFollow
  <2> QED
    BY <1>1, <2>2 DEF IsRequest
<1> QED
  BY <1>2, <1>4, <1>5, <1>6, <1>7, <1>8 DEF m

-----------------------------------------------------------------------------
(* Every step of the server keeps the invariant and is a step of the life  *)
(* cycle, or one that no stage notices.                                    *)

\* What the handler of a message does to the stages: m is registered, or m's request
\* is answered as cancelled, or nothing.
LEMMA HandleEffect ==
    ASSUME TypeOK, NEW m \in Messages, Handle(m)
    PROVE  \/ /\ m.t = "request"
              /\ pending' = pending \cup {m.id}
              /\ UNCHANGED <<answers, cancelSeen>>
           \/ /\ m.t = "cancel"
              /\ m.id \in pending
              /\ pending' = pending \ {m.id}
              /\ answers' = [answers EXCEPT ![m.id] = @ + 1]
              /\ cancelSeen' = cancelSeen \cup {m.id}
           \/ /\ m.t = "cancel"
              /\ m.id \notin pending
              /\ UNCHANGED <<pending, answers>>
              /\ cancelSeen' = cancelSeen \cup {m.id}
           \/ /\ m.t \notin {"request", "cancel"}
              /\ UNCHANGED <<pending, answers, cancelSeen>>
BY DEF Handle, HandleRequest, HandleCancel, HandleEdit, HandleAddFolder, HandleExit

LEMMA LifecycleTakeDeferred ==
    ASSUME TypeOK, LifecycleInv, TakeDeferred
    PROVE  LifecycleInv' /\ [Lifecycle!Next]_(Lifecycle!lifecycle)
<1> DEFINE m == Head(deferred)
<1>1. /\ m \in Messages
      /\ m.t = "request" => m.id \in Waiting /\ Waiting' = Waiting \ {m.id}
      /\ m.t # "request" => Waiting' = Waiting
      /\ m.t = "cancel" => m.id \in sent \ Waiting
      /\ DeferredOnce'
      /\ \A r \in Requests : \A i \in DOMAIN deferred' : IsCancel(deferred'[i], r) =>
           /\ r \in sent
           /\ \A k \in DOMAIN deferred' : IsRequest(deferred'[k], r) => k < i
  BY Taking DEF TakeDeferred
<1>2. Handle(m) /\ sent' = sent
  BY DEF TakeDeferred
<1> HIDE DEF m
<1>3. StagesDisjoint' /\ cancelSeen' \subseteq sent' \ (pending' \cup Waiting')
  <2>1. CASE m.t = "request"
    <3>1. pending' = pending \cup {m.id} /\ UNCHANGED <<answers, cancelSeen>>
      BY <1>1, <1>2, <2>1, HandleEffect
    <3> QED
      BY <1>1, <1>2, <2>1, <3>1 DEF LifecycleInv, StagesDisjoint, CancelsFollow
  <2>2. CASE m.t = "cancel" /\ m.id \in pending
    <3>1. /\ pending' = pending \ {m.id}
          /\ answers' = [answers EXCEPT ![m.id] = @ + 1]
          /\ cancelSeen' = cancelSeen \cup {m.id}
      BY <1>1, <1>2, <2>2, HandleEffect
    <3>2. m.id \in Requests /\ answers[m.id] = 0
      BY <2>2 DEF TypeOK, LifecycleInv, StagesDisjoint
    <3> QED
      BY <1>1, <1>2, <2>2, <3>1, <3>2 DEF TypeOK, LifecycleInv, StagesDisjoint, CancelsFollow
  <2>3. CASE m.t = "cancel" /\ m.id \notin pending
    <3>1. UNCHANGED <<pending, answers>> /\ cancelSeen' = cancelSeen \cup {m.id}
      BY <1>1, <1>2, <2>3, HandleEffect
    <3> QED
      BY <1>1, <1>2, <2>3, <3>1 DEF LifecycleInv, StagesDisjoint, CancelsFollow
  <2>4. CASE m.t \notin {"request", "cancel"}
    <3>1. UNCHANGED <<pending, answers, cancelSeen>>
      BY <1>1, <1>2, <2>4, HandleEffect
    <3> QED
      BY <1>1, <1>2, <2>4, <3>1 DEF LifecycleInv, StagesDisjoint, CancelsFollow
  <2> QED BY <2>1, <2>2, <2>3, <2>4
<1>4. CancelsFollow'
  BY <1>1, <1>2, <1>3 DEF CancelsFollow
<1>5. [Lifecycle!Next]_(Lifecycle!lifecycle)
  <2>1. CASE m.t = "request"
    <3>1. Lifecycle!Register(m.id) /\ m.id \in Requests
      BY <1>1, <1>2, <2>1, HandleEffect, MessageFields DEF Lifecycle!Register
    <3> QED BY <3>1 DEF Lifecycle!Next
  <2>2. CASE m.t = "cancel" /\ m.id \in pending
    <3>1. Lifecycle!Answer(m.id) /\ m.id \in Requests
      BY <1>1, <1>2, <2>2, HandleEffect, MessageFields DEF Lifecycle!Answer
    <3> QED BY <3>1 DEF Lifecycle!Next
  <2>3. CASE m.t # "request" /\ ~(m.t = "cancel" /\ m.id \in pending)
    BY <1>1, <1>2, <2>3, HandleEffect DEF Lifecycle!lifecycle
  <2> QED BY <2>1, <2>2, <2>3
<1> QED
  BY <1>1, <1>3, <1>4, <1>5 DEF LifecycleInv

LEMMA LifecycleReceive ==
    ASSUME TypeOK, LifecycleInv, NEW m \in Messages, ReceiveMessage(m)
    PROVE  LifecycleInv' /\ [Lifecycle!Next]_(Lifecycle!lifecycle)
<1>1. /\ m.t = "request" => m.id \in Requests /\ m.id \notin sent /\ sent' = sent \cup {m.id}
      /\ m.t # "request" => sent' = sent
      /\ m.t = "cancel" => m.id \in Requests /\ m.id \in sent
  BY MessageFields DEF ReceiveMessage, MaySend, CountSent
<1>2. CASE all_initialized \/ Bypasses(m)
  <2>1. Handle(m) /\ deferred' = deferred
    BY <1>2 DEF ReceiveMessage
  <2>2. CASE m.t = "request"
    <3>1. LifecycleInv' /\ Lifecycle!Send(m.id)
      BY <1>1, <2>1, <2>2, HandleEffect, Registering
    <3> QED BY <1>1, <2>2, <3>1 DEF Lifecycle!Next
  <2>3. CASE m.t = "cancel"
    <3>1. deferred = <<>>
      BY <1>2, <2>3 DEF ReceiveMessage, ClientsTurn, NoDeferred, Bypasses
    <3>2. Waiting = {} /\ Waiting' = {}
      BY <2>1, <3>1, WaitingIff DEF Waiting
    <3>3. CASE m.id \in pending
      <4>1. LifecycleInv' /\ Lifecycle!Answer(m.id)
        BY <1>1, <2>1, <2>3, <3>1, <3>3, HandleEffect, Answering
      <4> QED BY <1>1, <2>3, <4>1 DEF Lifecycle!Next
    <3>4. CASE m.id \notin pending
      <4>1. UNCHANGED <<pending, answers, sent>> /\ cancelSeen' = cancelSeen \cup {m.id}
        BY <1>1, <2>1, <2>3, <3>4, HandleEffect
      <4>2. LifecycleInv'
        BY <1>1, <2>1, <2>3, <3>2, <3>4, <4>1
           DEF LifecycleInv, StagesDisjoint, DeferredOnce, CancelsFollow, IsRequest, IsCancel
      <4> QED BY <3>2, <4>1, <4>2 DEF Lifecycle!lifecycle
    <3> QED BY <3>3, <3>4
  <2>4. CASE m.t \notin {"request", "cancel"}
    <3>1. UNCHANGED <<sent, deferred, pending, answers, cancelSeen>>
      BY <1>1, <2>1, <2>4, HandleEffect
    <3> QED BY <3>1, Frame
  <2> QED BY <2>2, <2>3, <2>4
<1>3. CASE ~(all_initialized \/ Bypasses(m))
  <2>1. deferred' = Append(deferred, m) /\ UNCHANGED <<pending, answers, cancelSeen>>
    BY <1>3 DEF ReceiveMessage, Defer
  <2> QED BY <1>1, <2>1, Deferring
<1> QED
  BY <1>2, <1>3

LEMMA LifecycleSendResponse ==
    ASSUME TypeOK, LifecycleInv, SendResponse
    PROVE  LifecycleInv' /\ [Lifecycle!Next]_(Lifecycle!lifecycle)
<1> DEFINE r == Head(mainq).id
<1>1. CASE r \in pending
  <2>1. LifecycleInv' /\ Lifecycle!Answer(r)
    BY <1>1, Answering DEF SendResponse, Completes
  <2>2. r \in Requests
    BY <1>1 DEF TypeOK
  <2> QED BY <2>1, <2>2 DEF Lifecycle!Next
<1>2. CASE r \notin pending
  <2>1. UNCHANGED <<sent, deferred, pending, answers, cancelSeen>>
    BY <1>2 DEF SendResponse, Completes
  <2> QED BY <2>1, Frame
<1> QED BY <1>1, <1>2

LEMMA LifecycleInit == Init => LifecycleInv /\ Lifecycle!Init
<1> SUFFICES ASSUME Init PROVE LifecycleInv /\ Lifecycle!Init
  OBVIOUS
<1>1. Waiting = {}
  BY WaitingIff DEF Init
<1> QED
  BY <1>1 DEF Init, LifecycleInv, StagesDisjoint, DeferredOnce, CancelsFollow, Lifecycle!Init

LEMMA LifecycleStep ==
    TypeOK /\ LifecycleInv /\ [Next]_vars => LifecycleInv' /\ [Lifecycle!Next]_(Lifecycle!lifecycle)
<1> SUFFICES ASSUME TypeOK, LifecycleInv, [Next]_vars
             PROVE  LifecycleInv' /\ [Lifecycle!Next]_(Lifecycle!lifecycle)
  OBVIOUS
<1> USE DEF sessionVars, clientVars
<1>1. ASSUME NEW h \in held, ReleaseHeld(h)
      PROVE  UNCHANGED <<sent, deferred, pending, answers, cancelSeen>>
  BY <1>1 DEF ReleaseHeld
<1>2. ASSUME NEW s \in suspended, ResumeSuspended(s) \/ AnswerAtShutdown(s)
      PROVE  UNCHANGED <<sent, deferred, pending, answers, cancelSeen>>
  BY <1>2 DEF ResumeSuspended, AnswerAtShutdown
<1>3. CASE ReleasedHeld \/ DeadlinePassed \/ SpawnJob \/ RetryRequest \/ HoldRequest
  BY <1>3, Frame DEF ReleasedHeld, DeadlinePassed, SpawnJob, RetryRequest, HoldRequest
<1>4. CASE SuspendWorkspaceDiagnostics \/ ResumedSuspended \/ ApplyFileSystemChanges
  BY <1>4, Frame DEF SuspendWorkspaceDiagnostics, ResumedSuspended, ApplyFileSystemChanges
<1>5. CASE InitializeWorkspaceFolders \/ PollUvEnvironments \/ SetShutdownRequested \/ WriteDone
  BY <1>5, Frame DEF InitializeWorkspaceFolders, PollUvEnvironments, SetShutdownRequested,
                     WriteDone
<1>6. CASE MainStep
  BY <1>1, <1>2, <1>3, <1>4, <1>5, <1>6, Frame, LifecycleTakeDeferred, LifecycleSendResponse
     DEF MainStep
<1>7. CASE ClientStep
  <2>1. ASSUME NEW ok \in BOOLEAN, ConfigResponse(ok)
        PROVE  UNCHANGED <<sent, deferred, pending, answers, cancelSeen>>
    BY <2>1 DEF ConfigResponse
  <2> QED BY <1>7, <2>1, Frame, LifecycleReceive DEF ClientStep
<1>8. ASSUME NEW w \in Workers, WorkerStep(w)
      PROVE  UNCHANGED <<sent, deferred, pending, answers, cancelSeen>>
  BY <1>8 DEF WorkerStep, TakeJob, FinishJob, UnwindJob, PanicResponse
<1>9. CASE UvFinishes \/ WatcherReports
  BY <1>9, Frame DEF UvFinishes, WatcherReports
<1>10. ASSUME NEW r \in Requests, HoldLimitPasses(r)
       PROVE  UNCHANGED <<sent, deferred, pending, answers, cancelSeen>>
  BY <1>10 DEF HoldLimitPasses
<1>11. CASE UNCHANGED vars
  BY <1>11, Frame DEF vars
<1> QED
  BY <1>6, <1>7, <1>8, <1>9, <1>10, <1>11, Frame DEF Next, Stopped

\* The stages of a request exclude each other, no request is deferred twice, and a
\* cancellation stays behind the request it is about.
THEOREM StagesHold == Spec => []LifecycleInv
<1>1. Init => LifecycleInv
  BY LifecycleInit
<1>2. TypeOK /\ LifecycleInv /\ [Next]_vars => LifecycleInv'
  BY LifecycleStep
<1> QED
  BY <1>1, <1>2, TypeCorrect, PTL DEF Spec

\* No request is answered twice, however its cancellation, its retries, an expired
\* hold and the shutdown interleave with its response.
THEOREM NeverTwoResponses == Spec => []AtMostOneResponse
<1>1. LifecycleInv => AtMostOneResponse
  BY DEF LifecycleInv, StagesDisjoint, AtMostOneResponse
<1> QED
  BY <1>1, StagesHold, PTL

\* A request whose cancellation the main loop has handled never becomes pending
\* afterwards, because deferral keeps the client's order.
THEOREM CancellationSticks == Spec => []CancelSticks
<1>1. LifecycleInv => CancelSticks
  BY DEF LifecycleInv, CancelsFollow, CancelSticks
<1> QED
  BY <1>1, StagesHold, PTL

\* The server implements the life cycle of a request.
THEOREM LifecycleImplemented == Spec => ImplementsLifecycle
<1>1. Init => Lifecycle!Init
  BY LifecycleInit
<1>2. TypeOK /\ LifecycleInv /\ [Next]_vars => [Lifecycle!Next]_(Lifecycle!lifecycle)
  BY LifecycleStep
<1> QED
  BY <1>1, <1>2, TypeCorrect, StagesHold, PTL DEF Spec, ImplementsLifecycle, Lifecycle!Spec
=============================================================================
