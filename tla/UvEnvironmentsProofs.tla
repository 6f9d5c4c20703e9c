------------------------ MODULE UvEnvironmentsProofs ------------------------
(***************************************************************************)
(* Proofs about UvEnvironments, for any scripts, keys and workers.         *)
(***************************************************************************)
EXTENDS UvEnvironments, SequenceTheorems, FiniteSetTheorems, TLAPS

LEMMA QueueOps ==
    ASSUME NEW S, NEW q \in Seq(S)
    PROVE  /\ \A e \in S : Append(q, e) \in Seq(S)
           /\ q # <<>> => Head(q) \in S /\ Tail(q) \in Seq(S)
OBVIOUS

\* Submitting a job keeps the queues in their types.
LEMMA TypeSubmit ==
    ASSUME TypeOK, NEW t \in Targets, NEW k \in RequestKeys, NEW rs \in Seq(Results),
           Submit(t, k, rs)
    PROVE  jobs' \in Seq(Jobs) /\ results' \in Seq(Results) /\ wake' \in BOOLEAN
<1>1. [target |-> t, key |-> k] \in Jobs
  BY DEF Jobs
<1>2. [target |-> t, key |-> k, output |-> Failed] \in Results
  BY DEF Results, Outputs
<1>3. jobs \in Seq(Jobs) /\ wake \in BOOLEAN
  BY DEF TypeOK
<1>4. Append(jobs, [target |-> t, key |-> k]) \in Seq(Jobs)
  BY <1>1, <1>3, QueueOps
<1>5. Append(rs, [target |-> t, key |-> k, output |-> Failed]) \in Seq(Results)
  BY <1>2, QueueOps
<1> QED
  BY <1>3, <1>4, <1>5 DEF Submit

LEMMA TypeStart ==
    ASSUME TypeOK, NEW t \in Targets, NEW k \in RequestKeys, NEW rs \in Seq(Results),
           StartSync(t, k, rs)
    PROVE  /\ state' \in [Targets -> {"vacant", "current", "synchronizing"}]
           /\ active' \in [Targets -> RequestKeys \cup {NoKey}]
           /\ next' \in [Targets -> RequestKeys \cup {NoKey}]
           /\ cancelled' \subseteq Targets
           /\ jobs' \in Seq(Jobs) /\ results' \in Seq(Results) /\ wake' \in BOOLEAN
<1>1. jobs' \in Seq(Jobs) /\ results' \in Seq(Results) /\ wake' \in BOOLEAN
  BY TypeSubmit DEF StartSync
<1> QED
  BY <1>1 DEF StartSync, TypeOK

\* The main thread, the workers and the file system keep the state well typed.
THEOREM TypeCorrect == Spec => []TypeOK
<1>1. Init => TypeOK
  <2> SUFFICES ASSUME Init PROVE TypeOK
    OBVIOUS
  <2>1. worker \in [Workers -> [phase : {"idle", "run", "publish", "wake"},
                                job : Jobs \cup {NoJob}, output : Outputs]]
    BY DEF Init, Idle, Outputs
  <2>2. jobs \in Seq(Jobs) /\ results \in Seq(Results)
    BY DEF Init
  <2>3. \A w \in Workers : worker[w].phase = "idle"
    BY DEF Init, Idle
  <2>4. applied \in [Targets -> Contents \cup {NoKey}] /\ saves \in Nat
    BY DEF Init
  <2>5. state \in [Targets -> {"vacant", "current", "synchronizing"}]
    BY DEF Init
  <2> QED
    BY <2>1, <2>2, <2>3, <2>4, <2>5 DEF Init, TypeOK
<1>2. TypeOK /\ [Next]_vars => TypeOK'
  <2> SUFFICES ASSUME TypeOK, [Next]_vars PROVE TypeOK'
    OBVIOUS
  <2> USE DEF diskVars, mainVars, environmentVars, serviceVars
  <2>1. ASSUME NEW s \in Scripts, NEW pending \in BOOLEAN, RequestSync(s, pending) PROVE TypeOK'
    <3>1. s \in Targets /\ view[s] \in Contents
      BY DEF Targets, TypeOK
    <3>2. CASE UNCHANGED <<environmentVars, jobs, results, wake>>
      BY <2>1, <3>2 DEF RequestSync, TypeOK
    <3>3. CASE /\ view[s] # NoTag
               /\ UpdateNextRequest(s, view[s])
               /\ UNCHANGED <<state, initializing, active, synced, applied, failed, jobs, results,
                              wake>>
      <4>1. next' \in [Targets -> RequestKeys \cup {NoKey}] /\ cancelled' \subseteq Targets
        BY <3>1, <3>3 DEF UpdateNextRequest, FollowUp, TypeOK, Contents, RequestKeys
      <4> QED
        BY <2>1, <3>3, <4>1 DEF RequestSync, TypeOK
    <3>4. CASE /\ view[s] # NoTag
               /\ StartSync(s, view[s], results)
               /\ initializing' = IF Initializes(s, pending) THEN initializing \cup {s}
                                                             ELSE initializing
               /\ UNCHANGED <<synced, applied, failed>>
      <4>1. view[s] \in RequestKeys /\ results \in Seq(Results)
        BY <3>1, <3>4 DEF Contents, RequestKeys, TypeOK
      <4>2. /\ state' \in [Targets -> {"vacant", "current", "synchronizing"}]
            /\ active' \in [Targets -> RequestKeys \cup {NoKey}]
            /\ next' \in [Targets -> RequestKeys \cup {NoKey}]
            /\ cancelled' \subseteq Targets
            /\ jobs' \in Seq(Jobs) /\ results' \in Seq(Results) /\ wake' \in BOOLEAN
        BY <3>1, <3>4, <4>1, TypeStart
      <4> QED
        BY <2>1, <3>4, <4>2 DEF RequestSync, TypeOK
    <3> QED
      BY <2>1, <3>2, <3>3, <3>4 DEF RequestSync
  <2>2. CASE ApplyChanges
    <3>1. Project \in Targets /\ Path \in RequestKeys /\ results \in Seq(Results)
      BY DEF Targets, RequestKeys, TypeOK
    <3>2. /\ state' \in [Targets -> {"vacant", "current", "synchronizing"}]
          /\ active' \in [Targets -> RequestKeys \cup {NoKey}]
          /\ next' \in [Targets -> RequestKeys \cup {NoKey}]
          /\ cancelled' \subseteq Targets
          /\ jobs' \in Seq(Jobs) /\ results' \in Seq(Results) /\ wake' \in BOOLEAN
      <4>1. CASE StartSync(Project, Path, results)
        BY <3>1, <4>1, TypeStart
      <4>2. CASE /\ next' = [next EXCEPT ![Project] = Path]
                 /\ cancelled' = cancelled \cup {Project}
                 /\ UNCHANGED <<state, active, jobs, results, wake>>
        BY <3>1, <4>2 DEF TypeOK
      <4>3. CASE UNCHANGED <<state, active, next, cancelled, jobs, results, wake>>
        BY <4>3 DEF TypeOK
      <4> QED
        BY <2>2, <4>1, <4>2, <4>3 DEF ApplyChanges, RequestProjectSync
    <3>3. view' \in [Targets -> Contents]
      BY <2>2 DEF ApplyChanges, TypeOK
    <3> QED
      BY <2>2, <3>2, <3>3 DEF ApplyChanges, TypeOK
  <2>3. CASE Scanned
    BY <2>3 DEF Scanned, TypeOK
  <2>4. CASE PollSync
    BY <2>4 DEF PollSync, TypeOK
  <2>5. CASE PollResult
    <3> DEFINE r == Head(results)
    <3>1. r \in Results /\ Tail(results) \in Seq(Results)
      BY <2>5, QueueOps DEF PollResult, TypeOK
    <3>2. r.target \in Targets /\ r.key \in RequestKeys
      BY <3>1 DEF Results
    <3>3. CASE pc' = "panicked" /\ UNCHANGED <<rescan, environmentVars, jobs, results, wake>>
      BY <2>5, <3>3 DEF PollResult, TypeOK
    <3>4. CASE /\ Record(r)
               /\ results' = Tail(results)
               /\ UNCHANGED <<pc, active, next, cancelled, jobs, wake>>
      <4>1. applied' \in [Targets -> Contents \cup {NoKey}] /\ failed' \subseteq Targets
        BY <3>2, <3>4 DEF Record, TypeOK
      <4>2. rescan' \in BOOLEAN /\ initializing' \subseteq Scripts
        BY <3>4 DEF Record, TypeOK
      <4>3. /\ state' \in [Targets -> {"vacant", "current", "synchronizing"}]
            /\ synced' \in [Targets -> RequestKeys \cup {NoKey}]
        BY <3>2, <3>4 DEF Record, TypeOK
      <4> QED
        BY <2>5, <3>1, <3>4, <4>1, <4>2, <4>3 DEF PollResult, TypeOK
    <3>5. CASE /\ ~Applies(r)
               /\ StartSync(r.target, Resubmitted(r), Tail(results))
               /\ UNCHANGED <<pc, rescan, initializing, synced, applied, failed>>
      <4>1. Resubmitted(r) \in RequestKeys
        BY <3>2 DEF Resubmitted, TypeOK
      <4>2. /\ state' \in [Targets -> {"vacant", "current", "synchronizing"}]
            /\ active' \in [Targets -> RequestKeys \cup {NoKey}]
            /\ next' \in [Targets -> RequestKeys \cup {NoKey}]
            /\ cancelled' \subseteq Targets
            /\ jobs' \in Seq(Jobs) /\ results' \in Seq(Results) /\ wake' \in BOOLEAN
        BY <3>1, <3>2, <3>5, <4>1, TypeStart
      <4> QED
        BY <2>5, <3>5, <4>2 DEF PollResult, TypeOK
    <3> QED
      BY <2>5, <3>3, <3>4, <3>5 DEF PollResult
  <2>6. CASE Polled
    BY <2>6 DEF Polled, TypeOK
  <2>7. ASSUME NEW s \in Scripts, LookUp(s) PROVE TypeOK'
    BY <2>7 DEF LookUp, TypeOK
  <2>8. ASSUME NEW w \in Workers, WorkerStep(w) PROVE TypeOK'
    <3>1. CASE TakeJob(w)
      <4>1. Head(jobs) \in Jobs /\ Tail(jobs) \in Seq(Jobs)
        BY <3>1, QueueOps DEF TakeJob, TypeOK
      <4> QED
        BY <3>1, <4>1 DEF TakeJob, TypeOK, Outputs
    <3>2. CASE RunUv(w)
      <4>1. worker[w].job \in Jobs
        BY <3>2 DEF RunUv, TypeOK
      <4>2. worker[w].job.target \in Targets /\ worker[w].job.key \in RequestKeys
        BY <4>1 DEF Jobs
      <4>3. {disk[worker[w].job.target], Failed} \subseteq Outputs
        BY <4>2 DEF TypeOK, Outputs
      <4>4. ran' \in [Targets -> RequestKeys \cup {NoKey}]
        BY <3>2, <4>2 DEF RunUv, TypeOK
      <4>5. PICK o \in Outputs :
              worker' = [worker EXCEPT ![w] = [phase |-> "publish", job |-> worker[w].job,
                                               output |-> o]]
        BY <3>2, <4>3 DEF RunUv
      <4>6. worker' \in [Workers -> [phase : {"idle", "run", "publish", "wake"},
                                     job : Jobs \cup {NoJob}, output : Outputs]]
        BY <4>5 DEF TypeOK
      <4>7. \A v \in Workers : worker'[v].phase \in {"run", "publish"} => worker'[v].job \in Jobs
        BY <4>1, <4>5 DEF TypeOK
      <4> QED
        BY <3>2, <4>4, <4>6, <4>7 DEF RunUv, TypeOK
    <3>3. CASE PublishResult(w)
      <4>1. worker[w].job \in Jobs /\ worker[w].output \in Outputs
        BY <3>3 DEF PublishResult, TypeOK
      <4>2. [target |-> worker[w].job.target, key |-> worker[w].job.key,
             output |-> worker[w].output] \in Results
        BY <4>1 DEF Jobs, Results
      <4>3. results' \in Seq(Results)
        BY <3>3, <4>2, QueueOps DEF PublishResult, TypeOK
      <4> QED
        BY <3>3, <4>3 DEF PublishResult, Idle, TypeOK, Outputs
    <3>4. CASE WakeUp(w)
      BY <3>4 DEF WakeUp, Idle, TypeOK, Outputs
    <3> QED
      BY <2>8, <3>1, <3>2, <3>3, <3>4 DEF WorkerStep
  <2>9. ASSUME NEW t \in Targets, NEW c \in Contents, Save(t, c) PROVE TypeOK'
    BY <2>9 DEF Save, TypeOK
  <2>10. CASE UNCHANGED vars
    BY <2>10 DEF vars, TypeOK
  <2> QED
    BY <2>1, <2>2, <2>3, <2>4, <2>5, <2>6, <2>7, <2>8, <2>9, <2>10 DEF Next, MainStep, Quiet
<1> QED
  BY <1>1, <1>2, PTL DEF Spec

\* What a job or a result is submitted with: the wakeup comes with the result.
LEMMA SubmitWakes ==
    ASSUME NEW t, NEW k, NEW rs, Submit(t, k, rs), results' # <<>>
    PROVE  wake' \/ (wake' = wake /\ results' = rs)
BY DEF Submit

\* However wakeups are coalesced and whenever they are consumed, a result in the queue has
\* a wakeup, a worker about to raise one, or a main thread that is still draining.
THEOREM NoneForgotten == Spec => []NoResultForgotten
<1>1. Init => NoResultForgotten
  BY DEF Init, NoResultForgotten
<1>2. TypeOK /\ NoResultForgotten /\ [Next]_vars => NoResultForgotten'
  <2> SUFFICES ASSUME TypeOK, NoResultForgotten, [Next]_vars, results' # <<>>
               PROVE  wake' \/ pc' \in {"poll", "panicked"}
                        \/ \E w \in Workers : worker'[w].phase = "wake"
    BY DEF NoResultForgotten
  <2> USE DEF diskVars, mainVars, environmentVars, serviceVars, NoResultForgotten
  <2>1. ASSUME NEW s \in Scripts, NEW pending \in BOOLEAN, RequestSync(s, pending)
        PROVE  wake' \/ \E w \in Workers : worker'[w].phase = "wake"
    <3>1. wake' \/ (wake' = wake /\ results' = results)
      BY <2>1, SubmitWakes DEF RequestSync, StartSync
    <3> QED
      BY <2>1, <3>1 DEF RequestSync
  <2>2. CASE ApplyChanges
    <3>1. wake' \/ (wake' = wake /\ results' = results)
      BY <2>2, SubmitWakes DEF ApplyChanges, RequestProjectSync, StartSync
    <3> QED
      BY <2>2, <3>1 DEF ApplyChanges
  <2>3. CASE Scanned
    BY <2>3 DEF Scanned
  <2>4. CASE PollSync
    BY <2>4 DEF PollSync
  <2>5. CASE PollResult
    BY <2>5 DEF PollResult
  <2>6. CASE Polled
    BY <2>6 DEF Polled, Drained
  <2>7. ASSUME NEW s \in Scripts, LookUp(s)
        PROVE  wake' \/ pc' \in {"poll", "panicked"}
                 \/ \E w \in Workers : worker'[w].phase = "wake"
    BY <2>7 DEF LookUp
  <2>8. ASSUME NEW w \in Workers, WorkerStep(w)
        PROVE  wake' \/ pc' \in {"poll", "panicked"}
                 \/ \E v \in Workers : worker'[v].phase = "wake"
    <3>1. CASE WakeUp(w)
      BY <3>1 DEF WakeUp
    <3>2. CASE PublishResult(w)
      <4>1. worker'[w].phase = "wake"
        BY <3>2 DEF PublishResult, Idle, TypeOK
      <4> QED
        BY <4>1
    <3>3. CASE TakeJob(w) \/ RunUv(w)
      <4>1. results' = results /\ wake' = wake /\ pc' = pc
        BY <3>3 DEF TakeJob, RunUv
      <4>2. \A v \in Workers : v # w => worker'[v] = worker[v]
        BY <3>3 DEF TakeJob, RunUv, TypeOK
      <4>3. worker[w].phase # "wake"
        BY <3>3 DEF TakeJob, RunUv
      <4> QED
        BY <4>1, <4>2, <4>3
    <3> QED
      BY <2>8, <3>1, <3>2, <3>3 DEF WorkerStep
  <2>9. ASSUME NEW t \in Targets, NEW c \in Contents, Save(t, c)
        PROVE  wake' \/ pc' \in {"poll", "panicked"}
                 \/ \E w \in Workers : worker'[w].phase = "wake"
    BY <2>9 DEF Save
  <2>10. CASE UNCHANGED vars
    BY <2>10 DEF vars
  <2> QED
    BY <2>1, <2>2, <2>3, <2>4, <2>5, <2>6, <2>7, <2>8, <2>9, <2>10 DEF Next, MainStep, Quiet
<1> QED
  BY <1>1, <1>2, TypeCorrect, PTL DEF Spec

\* A refresh never makes the environment of a script unavailable: nothing but the request
\* that creates it does.
THEOREM StaysAvailable == Spec => NeverUnavailableAgain
<1>1. [Next]_vars =>
        [\A s \in Scripts : state[s] # "vacant" /\ s \notin initializing
                              => s \notin initializing']_vars
  <2> SUFFICES ASSUME Next, NEW s \in Scripts, state[s] # "vacant", s \notin initializing
               PROVE  s \notin initializing'
    OBVIOUS
  <2>1. ASSUME NEW z \in Scripts, NEW pending \in BOOLEAN, RequestSync(z, pending)
        PROVE  s \notin initializing'
    BY <2>1 DEF RequestSync, Initializes, environmentVars
  <2>2. CASE PollResult
    BY <2>2 DEF PollResult, Record, environmentVars
  <2>3. initializing' \subseteq initializing \/ PollResult
          \/ \E z \in Scripts, pending \in BOOLEAN : RequestSync(z, pending)
    BY DEF Next, MainStep, ApplyChanges, Scanned, PollSync, Polled, LookUp, WorkerStep, TakeJob,
           RunUv, PublishResult, WakeUp, Save, Quiet, environmentVars, vars
  <2> QED
    BY <2>1, <2>2, <2>3
<1> QED
  BY <1>1, PTL DEF Spec, NeverUnavailableAgain
-----------------------------------------------------------------------------
(* Whose turn it is: where the one job of a target is.                     *)

\* The members of a queue, and the targets they are about.
Items(q) == {q[i] : i \in DOMAIN q}
TargetsIn(q) == {x.target : x \in Items(q)}
Distinct(q) == \A i, j \in DOMAIN q : q[i].target = q[j].target => i = j

Busy == {w \in Workers : worker[w].phase \in {"run", "publish"}}
TargetsRun == {worker[w].job.target : w \in Busy}

\* A queue, or the pool of workers, has one job of a target at most, and a target is in
\* one of the three places; it is in one exactly while it is synchronizing, with the key
\* its environment remembers.
OneInQueues == Distinct(jobs) /\ Distinct(results)
OneWorker ==
    /\ \A w \in Workers \ Busy : worker[w].job = NoJob
    /\ \A v, w \in Busy : worker[v].job.target = worker[w].job.target => v = w
OnePlace ==
    /\ TargetsIn(jobs) \cap TargetsIn(results) = {}
    /\ TargetsIn(jobs) \cap TargetsRun = {}
    /\ TargetsRun \cap TargetsIn(results) = {}
SomePlace ==
    \A t \in Targets :
        state[t] = "synchronizing" <=> t \in TargetsIn(jobs) \cup TargetsRun \cup TargetsIn(results)
ActiveKey ==
    /\ \A x \in Items(jobs) \cup Items(results) : x.key = active[x.target]
    /\ \A w \in Busy : worker[w].job.key = active[worker[w].job.target]
Hands == OneInQueues /\ OneWorker /\ OnePlace /\ SomePlace /\ ActiveKey
HandsInv == Hands /\ ResultsExpected

\* What uv ran for is what a result that is not skipped says, and what is recorded of a
\* script that is not synchronizing.
RanInv ==
    found => /\ \A x \in Items(results) : x.output # Skipped => ran[x.target] = x.key
             /\ \A w \in Busy : worker[w].phase = "publish" /\ worker[w].output # Skipped
                                  => ran[worker[w].job.target] = worker[w].job.key
             /\ \A s \in Scripts : state[s] = "vacant" => synced[s] = NoKey
             /\ RecordedSyncRan

\* A script whose metadata the session has read and need not request is recorded with it,
\* or is synchronizing towards it.
RequestedInv ==
    /\ \A t \in Targets \ notified : view[t] = disk[t]
    /\ pc # "scan" => todo = {}
    /\ \A s \in Scripts \ todo : view[s] # NoTag =>
         \/ state[s] = "synchronizing" /\ Desired(s) = view[s]
         \/ state[s] = "current" /\ synced[s] = view[s]

\* Metadata of the project that uv has read but the session has not recorded is what the
\* disk says, or is to be discarded.
MayBeRecorded(o) == o \in {disk[Project], Failed, Skipped}
Unspoilt ==
    /\ \A x \in Items(results) : x.target = Project => MayBeRecorded(x.output)
    /\ \A w \in Busy : worker[w].phase = "publish" /\ worker[w].job.target = Project
                         => MayBeRecorded(worker[w].output)
ProjectInv ==
    /\ state[Project] # "vacant"
    /\ Project \in notified
         \/ (state[Project] = "current" /\ (Project \notin failed => applied[Project] = disk[Project]))
         \/ (state[Project] = "synchronizing" /\ (next[Project] # NoKey \/ Unspoilt))

LEMMA AppendItems ==
    ASSUME NEW S, NEW q \in Seq(S), NEW e
    PROVE  /\ Items(Append(q, e)) = Items(q) \cup {e}
           /\ TargetsIn(Append(q, e)) = TargetsIn(q) \cup {e.target}
           /\ Distinct(q) /\ e.target \notin TargetsIn(q) => Distinct(Append(q, e))
<1> DEFINE a == Append(q, e)
<1>1. /\ DOMAIN a = DOMAIN q \cup {Len(q) + 1} /\ Len(q) + 1 \notin DOMAIN q
      /\ \A i \in DOMAIN q : a[i] = q[i]
      /\ a[Len(q) + 1] = e
  OBVIOUS
<1> HIDE DEF a
<1>2. Items(a) = Items(q) \cup {e}
  BY <1>1 DEF Items
<1>3. TargetsIn(a) = TargetsIn(q) \cup {e.target}
  BY <1>2 DEF TargetsIn
<1>4. Distinct(q) /\ e.target \notin TargetsIn(q) => Distinct(a)
  BY <1>1 DEF Distinct, TargetsIn, Items
<1> QED
  BY <1>2, <1>3, <1>4 DEF a

LEMMA TailItems ==
    ASSUME NEW S, NEW q \in Seq(S), q # <<>>, Distinct(q)
    PROVE  /\ Head(q) \in Items(q)
           /\ Items(Tail(q)) = {x \in Items(q) : x.target # Head(q).target}
           /\ TargetsIn(Tail(q)) = TargetsIn(q) \ {Head(q).target}
           /\ Distinct(Tail(q))
           /\ \A x \in Items(q) : x.target = Head(q).target => x = Head(q)
<1> DEFINE b == Tail(q)
<1>1. /\ \A i \in DOMAIN b : i + 1 \in DOMAIN q /\ i + 1 # 1 /\ b[i] = q[i + 1]
      /\ \A i \in DOMAIN q : i # 1 => i - 1 \in DOMAIN b /\ q[i] = b[i - 1]
      /\ 1 \in DOMAIN q /\ Head(q) = q[1]
      /\ DOMAIN b \subseteq Nat /\ DOMAIN q \subseteq Nat
  OBVIOUS
<1> HIDE DEF b
<1>2. \A i \in DOMAIN q : i # 1 => q[i].target # Head(q).target
  BY <1>1 DEF Distinct
<1>3. Items(b) = {x \in Items(q) : x.target # Head(q).target}
  <2>1. ASSUME NEW x \in Items(b) PROVE x \in Items(q) /\ x.target # Head(q).target
    BY <2>1, <1>1, <1>2 DEF Items
  <2>2. ASSUME NEW x \in Items(q), x.target # Head(q).target PROVE x \in Items(b)
    <3>1. PICK i \in DOMAIN q : x = q[i]
      BY DEF Items
    <3>2. i # 1
      BY <1>1, <2>2, <3>1
    <3> QED
      BY <1>1, <3>1, <3>2 DEF Items
  <2> QED
    BY <2>1, <2>2
<1>4. Head(q) \in Items(q)
  BY <1>1 DEF Items
<1>5. TargetsIn(b) = TargetsIn(q) \ {Head(q).target}
  BY <1>3 DEF TargetsIn
<1>6. Distinct(b)
  <2> SUFFICES ASSUME NEW i \in DOMAIN b, NEW j \in DOMAIN b, b[i].target = b[j].target
               PROVE  i = j
    BY DEF Distinct
  <2>1. i + 1 \in DOMAIN q /\ j + 1 \in DOMAIN q /\ b[i] = q[i + 1] /\ b[j] = q[j + 1]
    BY <1>1
  <2>2. i + 1 = j + 1
    BY <2>1 DEF Distinct
  <2> QED
    BY <1>1, <2>2
<1>7. \A x \in Items(q) : x.target = Head(q).target => x = Head(q)
  BY <1>1, <1>2 DEF Items
<1> QED
  BY <1>3, <1>4, <1>5, <1>6, <1>7 DEF b

\* Every job and result there is has a target, and a key that can be requested.
LEMMA ItemTypes ==
    ASSUME TypeOK
    PROVE  /\ \A x \in Items(jobs) : x \in Jobs /\ x.target \in Targets /\ x.key \in RequestKeys
           /\ \A x \in Items(results) : x \in Results /\ x.target \in Targets /\ x.key \in RequestKeys
           /\ \A w \in Busy : /\ worker[w].job \in Jobs
                              /\ worker[w].job.target \in Targets
                              /\ worker[w].job.key \in RequestKeys
<1>1. jobs \in Seq(Jobs) /\ results \in Seq(Results)
  BY DEF TypeOK
<1>2. \A x \in Items(jobs) : x \in Jobs
  BY <1>1 DEF Items
<1>3. \A x \in Items(results) : x \in Results
  BY <1>1 DEF Items
<1>4. \A w \in Busy : worker[w].job \in Jobs
  BY DEF Busy, TypeOK
<1> QED
  BY <1>2, <1>3, <1>4 DEF Jobs, Results

\* A job that is started for a target that is nowhere puts it in one place, whatever the
\* rest of the queue of results is.
LEMMA HandsStart ==
    ASSUME TypeOK, NEW t \in Targets, NEW k \in RequestKeys, NEW rs \in Seq(Results),
           StartSync(t, k, rs), worker' = worker,
           Distinct(jobs), Distinct(rs), OneWorker, ActiveKey, Items(rs) \subseteq Items(results),
           TargetsIn(jobs) \cap TargetsIn(rs) = {},
           TargetsIn(jobs) \cap TargetsRun = {},
           TargetsRun \cap TargetsIn(rs) = {},
           t \notin TargetsIn(jobs) \cup TargetsRun \cup TargetsIn(rs),
           \A u \in Targets \ {t} :
               state[u] = "synchronizing" <=> u \in TargetsIn(jobs) \cup TargetsRun \cup TargetsIn(rs)
    PROVE  Hands'
<1> DEFINE j == [target |-> t, key |-> k]
           x == [target |-> t, key |-> k, output |-> Failed]
<1>1. jobs \in Seq(Jobs) /\ state \in [Targets -> {"vacant", "current", "synchronizing"}]
       /\ active \in [Targets -> RequestKeys \cup {NoKey}]
  BY DEF TypeOK
<1>2. /\ Items(Append(jobs, j)) = Items(jobs) \cup {j}
      /\ TargetsIn(Append(jobs, j)) = TargetsIn(jobs) \cup {t}
      /\ Distinct(Append(jobs, j))
  BY <1>1, AppendItems
<1>3. /\ Items(Append(rs, x)) = Items(rs) \cup {x}
      /\ TargetsIn(Append(rs, x)) = TargetsIn(rs) \cup {t}
      /\ Distinct(Append(rs, x))
  BY AppendItems
<1>4. \/ jobs' = Append(jobs, j) /\ results' = rs
      \/ jobs' = jobs /\ results' = Append(rs, x)
  BY DEF StartSync, Submit
<1>5. Busy' = Busy /\ TargetsRun' = TargetsRun
  BY DEF Busy, TargetsRun
<1>6. state'[t] = "synchronizing" /\ active'[t] = k
       /\ \A u \in Targets \ {t} : state'[u] = state[u] /\ active'[u] = active[u]
  BY <1>1 DEF StartSync
<1>7. OneInQueues' /\ OnePlace'
  <2>1. CASE jobs' = Append(jobs, j) /\ results' = rs
    BY <2>1, <1>2, <1>5 DEF OneInQueues, OnePlace
  <2>2. CASE jobs' = jobs /\ results' = Append(rs, x)
    BY <2>2, <1>3, <1>5 DEF OneInQueues, OnePlace
  <2> QED
    BY <1>4, <2>1, <2>2
<1>8. OneWorker'
  BY <1>5 DEF OneWorker
<1>9. SomePlace'
  BY <1>2, <1>3, <1>4, <1>5, <1>6 DEF SomePlace
<1>10. ActiveKey'
  <2>1. \A y \in Items(jobs) \cup Items(rs) :
          y.target \in Targets \ {t} /\ y.key = active[y.target]
    BY ItemTypes DEF ActiveKey, TargetsIn
  <2>2. \A y \in Items(jobs) \cup Items(rs) : y.key = active'[y.target]
    BY <2>1, <1>6
  <2>3. (Items(jobs) \cup Items(results))' \subseteq Items(jobs) \cup Items(rs) \cup {j, x}
    BY <1>2, <1>3, <1>4
  <2>4. j.key = active'[j.target] /\ x.key = active'[x.target]
    BY <1>6
  <2>5. \A w \in Busy : worker[w].job.target \in Targets \ {t}
                          /\ worker[w].job.key = active[worker[w].job.target]
    BY ItemTypes DEF ActiveKey, TargetsRun
  <2>6. \A w \in Busy' : worker'[w].job.key = active'[worker'[w].job.target]
    BY <2>5, <1>5, <1>6
  <2> HIDE DEF j, x
  <2> QED
    BY <2>2, <2>3, <2>4, <2>6 DEF ActiveKey
<1> QED
  BY <1>7, <1>8, <1>9, <1>10 DEF Hands

\* What the result at the head of the queue is: its environment waits for it, and no other
\* job of its target is anywhere.
LEMMA HeadExpected ==
    ASSUME TypeOK, Hands, results # <<>>
    PROVE  LET r == Head(results) IN
           /\ r \in Items(results) /\ r \in Results
           /\ r.target \in Targets /\ r.key \in RequestKeys
           /\ Tail(results) \in Seq(Results)
           /\ state[r.target] = "synchronizing" /\ active[r.target] = r.key
           /\ Items(Tail(results)) = {x \in Items(results) : x.target # r.target}
           /\ TargetsIn(Tail(results)) = TargetsIn(results) \ {r.target}
           /\ Distinct(Tail(results))
           /\ r.target \in TargetsIn(results)
           /\ r.target \notin TargetsIn(jobs) \cup TargetsRun
<1> DEFINE r == Head(results)
<1>1. results \in Seq(Results) /\ Tail(results) \in Seq(Results)
  BY QueueOps DEF TypeOK
<1>2. /\ r \in Items(results)
      /\ Items(Tail(results)) = {x \in Items(results) : x.target # r.target}
      /\ TargetsIn(Tail(results)) = TargetsIn(results) \ {r.target}
      /\ Distinct(Tail(results))
  BY <1>1, TailItems DEF Hands, OneInQueues
<1>3. r.target \in TargetsIn(results) /\ r.target \in Targets /\ r.key \in RequestKeys
        /\ r \in Results
  BY <1>2, ItemTypes DEF TargetsIn
<1>4. state[r.target] = "synchronizing" /\ active[r.target] = r.key
  BY <1>2, <1>3 DEF Hands, SomePlace, ActiveKey
<1>5. r.target \notin TargetsIn(jobs) \cup TargetsRun
  BY <1>3 DEF Hands, OnePlace
<1> QED
  BY <1>1, <1>2, <1>3, <1>4, <1>5

\* Each step of a worker moves the one job of a target.
LEMMA HandsWorker ==
    ASSUME TypeOK, Hands, NEW w \in Workers, WorkerStep(w)
    PROVE  Hands'
<1> USE DEF environmentVars
<1>0. /\ state' = state /\ active' = active
      /\ jobs \in Seq(Jobs) /\ results \in Seq(Results)
      /\ DOMAIN worker = Workers
  BY DEF WorkerStep, TakeJob, RunUv, PublishResult, WakeUp, TypeOK
<1>1. CASE TakeJob(w)
  <2> DEFINE h == Head(jobs)
  <2>1. /\ h \in Items(jobs)
        /\ Items(Tail(jobs)) = {x \in Items(jobs) : x.target # h.target}
        /\ TargetsIn(Tail(jobs)) = TargetsIn(jobs) \ {h.target}
        /\ Distinct(Tail(jobs))
    BY <1>0, <1>1, TailItems DEF TakeJob, Hands, OneInQueues
  <2>2. h.target \in TargetsIn(jobs) /\ h.target \in Targets
    BY <2>1, ItemTypes DEF TargetsIn
  <2>3. /\ jobs' = Tail(jobs) /\ results' = results
        /\ worker'[w].job = h /\ worker'[w].phase \in {"run", "publish"}
        /\ \A v \in Workers \ {w} : worker'[v] = worker[v]
        /\ w \notin Busy
    BY <1>0, <1>1 DEF TakeJob, Busy
  <2> HIDE DEF h
  <2>4. Busy' = Busy \cup {w} /\ \A v \in Busy : v # w /\ worker'[v] = worker[v]
    BY <2>3 DEF Busy
  <2>5. TargetsRun' = TargetsRun \cup {h.target}
    BY <2>3, <2>4 DEF TargetsRun
  <2>6. OneInQueues'
    BY <2>1, <2>3 DEF OneInQueues, Hands
  <2>7. OneWorker'
    <3>1. \A v \in Busy : worker'[v].job.target # h.target
      BY <2>2, <2>4 DEF Hands, OnePlace, TargetsRun
    <3>2. \A u, v \in Busy' : worker'[u].job.target = worker'[v].job.target => u = v
      BY <2>3, <2>4, <3>1 DEF Hands, OneWorker
    <3>3. \A v \in Workers \ Busy' : worker'[v].job = NoJob
      BY <2>3, <2>4 DEF Hands, OneWorker
    <3> QED
      BY <3>2, <3>3 DEF OneWorker
  <2>8. OnePlace'
    BY <2>1, <2>2, <2>3, <2>5 DEF OnePlace, Hands
  <2>9. SomePlace'
    BY <1>0, <2>1, <2>2, <2>3, <2>5 DEF SomePlace, Hands
  <2>10. ActiveKey'
    BY <1>0, <2>1, <2>3, <2>4 DEF ActiveKey, Hands
  <2> QED
    BY <2>6, <2>7, <2>8, <2>9, <2>10 DEF Hands
<1>2. CASE RunUv(w) \/ WakeUp(w)
  <2>1. \A v \in Workers : worker'[v].job = worker[v].job
    <3>1. worker[w].phase = "wake" => worker[w].job = NoJob
      BY DEF Hands, OneWorker, Busy
    <3> QED
      BY <1>0, <1>2, <3>1 DEF RunUv, WakeUp, Idle
  <2>2. Busy' = Busy
    BY <1>0, <1>2 DEF RunUv, WakeUp, Idle, Busy
  <2>3. TargetsRun' = TargetsRun
    BY <2>1, <2>2 DEF TargetsRun, Busy
  <2>4. jobs' = jobs /\ results' = results
    BY <1>2 DEF RunUv, WakeUp
  <2>5. OneWorker' /\ ActiveKey'
    <3>1. Busy \subseteq Workers
      BY DEF Busy
    <3> QED
      BY <1>0, <2>1, <2>2, <2>4, <3>1 DEF OneWorker, ActiveKey, Hands
  <2>6. OneInQueues' /\ OnePlace' /\ SomePlace'
    BY <1>0, <2>3, <2>4 DEF OneInQueues, OnePlace, SomePlace, Hands
  <2> QED
    BY <2>5, <2>6 DEF Hands
<1>3. CASE PublishResult(w)
  <2> DEFINE j == worker[w].job
             x == [target |-> j.target, key |-> j.key, output |-> worker[w].output]
  <2>1. w \in Busy
    BY <1>3 DEF PublishResult, Busy
  <2>2. j.target \in Targets /\ j.target \in TargetsRun /\ j.key = active[j.target]
    BY <2>1, ItemTypes DEF TargetsRun, Hands, ActiveKey
  <2>3. j.target \notin TargetsIn(results) /\ j.target \notin TargetsIn(jobs)
    BY <2>2 DEF Hands, OnePlace
  <2>4. /\ Items(Append(results, x)) = Items(results) \cup {x}
        /\ TargetsIn(Append(results, x)) = TargetsIn(results) \cup {j.target}
        /\ Distinct(Append(results, x))
    BY <1>0, <2>3, AppendItems DEF Hands, OneInQueues
  <2>5. /\ results' = Append(results, x) /\ jobs' = jobs
        /\ worker'[w].job = NoJob /\ worker'[w].phase = "wake"
        /\ \A v \in Workers \ {w} : worker'[v] = worker[v]
    BY <1>0, <1>3 DEF PublishResult, Idle
  <2>6. Busy' = Busy \ {w} /\ \A v \in Busy' : worker'[v] = worker[v]
    BY <2>5 DEF Busy
  <2>7. \A v \in Busy : worker[v].job.target = j.target => v = w
    BY <2>1 DEF Hands, OneWorker
  <2>8. TargetsRun' = TargetsRun \ {j.target}
    BY <2>6, <2>7, <2>1 DEF TargetsRun
  <2>9. x.target = j.target /\ x.key = j.key
    OBVIOUS
  <2> HIDE DEF j, x
  <2>10. OneInQueues'
    BY <2>4, <2>5 DEF Hands, OneInQueues
  <2>11. OneWorker'
    BY <2>5, <2>6 DEF Hands, OneWorker
  <2>12. OnePlace'
    BY <2>3, <2>4, <2>5, <2>8 DEF Hands, OnePlace
  <2>13. SomePlace'
    BY <1>0, <2>2, <2>4, <2>5, <2>8 DEF Hands, SomePlace
  <2>14. ActiveKey'
    BY <1>0, <2>2, <2>4, <2>5, <2>6, <2>9 DEF Hands, ActiveKey
  <2> QED
    BY <2>10, <2>11, <2>12, <2>13, <2>14 DEF Hands
<1> QED
  BY <1>1, <1>2, <1>3 DEF WorkerStep

\* A step that touches none of the places keeps them.
LEMMA HandsStay ==
    ASSUME Hands, UNCHANGED <<jobs, worker, results, active>>,
           \A t \in Targets : state'[t] = "synchronizing" <=> state[t] = "synchronizing"
    PROVE  Hands'
<1>1. Busy' = Busy /\ TargetsRun' = TargetsRun
  BY DEF Busy, TargetsRun
<1>2. OneInQueues' /\ OnePlace'
  BY <1>1 DEF Hands, OneInQueues, OnePlace
<1>3. OneWorker' /\ ActiveKey'
  BY <1>1 DEF Hands, OneWorker, ActiveKey
<1>4. SomePlace'
  BY <1>1 DEF Hands, SomePlace
<1> QED
  BY <1>2, <1>3, <1>4 DEF Hands

\* A request starts a job only for a target that is not synchronizing, which has none.
LEMMA HandsRequest ==
    ASSUME TypeOK, Hands, NEW t \in Targets, NEW k \in RequestKeys,
           state[t] # "synchronizing", StartSync(t, k, results), worker' = worker
    PROVE  Hands'
<1>1. results \in Seq(Results)
  BY DEF TypeOK
<1>2. t \notin TargetsIn(jobs) \cup TargetsRun \cup TargetsIn(results)
  BY DEF Hands, SomePlace
<1> QED
  BY <1>1, <1>2, HandsStart DEF Hands, OneInQueues, OnePlace, SomePlace

\* One job for each target, wherever it is, and never a result nobody waits for.
LEMMA HandsHold == Spec => []HandsInv
<1> USE DEF diskVars, mainVars, environmentVars, serviceVars
<1>1. Init => HandsInv
  <2> SUFFICES ASSUME Init PROVE HandsInv
    OBVIOUS
  <2>1. Items(jobs) = {} /\ Items(results) = {} /\ TargetsIn(jobs) = {} /\ TargetsIn(results) = {}
    BY DEF Init, Items, TargetsIn
  <2>2. Busy = {} /\ TargetsRun = {} /\ \A w \in Workers : worker[w].job = NoJob
    BY DEF Init, Idle, Busy, TargetsRun
  <2>3. OneInQueues
    BY DEF Init, OneInQueues, Distinct
  <2>4. OneWorker /\ OnePlace /\ ActiveKey
    BY <2>1, <2>2 DEF OneWorker, OnePlace, ActiveKey
  <2>5. SomePlace
    BY <2>1, <2>2 DEF SomePlace, Init
  <2>6. ResultsExpected
    BY DEF Init, ResultsExpected
  <2> QED
    BY <2>3, <2>4, <2>5, <2>6 DEF HandsInv, Hands
<1>2. TypeOK /\ HandsInv /\ [Next]_vars => HandsInv'
  <2> SUFFICES ASSUME TypeOK, Hands, pc # "panicked", [Next]_vars
               PROVE  Hands' /\ pc' # "panicked"
    BY DEF HandsInv, ResultsExpected
  <2>1. ASSUME NEW s \in Scripts, NEW pending \in BOOLEAN, RequestSync(s, pending)
        PROVE  Hands' /\ pc' # "panicked"
    <3>1. s \in Targets /\ (view[s] # NoTag => view[s] \in RequestKeys)
      BY DEF Targets, TypeOK, Contents, RequestKeys
    <3>2. CASE UNCHANGED <<state, active, jobs, results>>
      BY <2>1, <3>2, HandsStay DEF RequestSync
    <3>3. CASE /\ view[s] # NoTag /\ state[s] # "synchronizing"
               /\ StartSync(s, view[s], results)
      BY <2>1, <3>1, <3>3, HandsRequest DEF RequestSync
    <3> QED
      BY <2>1, <3>2, <3>3 DEF RequestSync, InFlight
  <2>2. CASE ApplyChanges
    <3>1. Project \in Targets /\ Path \in RequestKeys
      BY DEF Targets, RequestKeys
    <3>2. CASE UNCHANGED <<state, active, jobs, results>>
      BY <2>2, <3>2, HandsStay DEF ApplyChanges
    <3>3. CASE state[Project] # "synchronizing" /\ StartSync(Project, Path, results)
      BY <2>2, <3>1, <3>3, HandsRequest DEF ApplyChanges
    <3> QED
      BY <2>2, <3>2, <3>3 DEF ApplyChanges, RequestProjectSync, InFlight
  <2>3. CASE PollResult
    <3> DEFINE r == Head(results)
    <3>1. /\ r.target \in Targets /\ r.key \in RequestKeys
          /\ Tail(results) \in Seq(Results)
          /\ state[r.target] = "synchronizing" /\ active[r.target] = r.key
          /\ Items(Tail(results)) \subseteq Items(results)
          /\ TargetsIn(Tail(results)) = TargetsIn(results) \ {r.target}
          /\ Distinct(Tail(results))
          /\ r.target \in TargetsIn(results)
          /\ r.target \notin TargetsIn(jobs) \cup TargetsRun
      BY <2>3, HeadExpected DEF PollResult
    <3>2. Expected(r)
      BY <3>1 DEF Expected
    <3>3. worker' = worker
      BY <2>3 DEF PollResult
    <3>4. CASE Record(r) /\ results' = Tail(results) /\ UNCHANGED <<pc, active, jobs>>
      <4>1. Busy' = Busy /\ TargetsRun' = TargetsRun
        BY <3>3 DEF Busy, TargetsRun
      <4>2. /\ state'[r.target] = "current"
            /\ \A t \in Targets \ {r.target} : state'[t] = state[t]
        BY <3>1, <3>4 DEF Record, TypeOK
      <4> HIDE DEF r
      <4>3. OneInQueues' /\ OnePlace'
        BY <3>1, <3>4, <4>1 DEF Hands, OneInQueues, OnePlace
      <4>4. OneWorker' /\ ActiveKey'
        BY <3>1, <3>3, <3>4, <4>1 DEF Hands, OneWorker, ActiveKey
      <4>5. SomePlace'
        BY <3>1, <3>4, <4>1, <4>2 DEF Hands, SomePlace
      <4> QED
        BY <3>4, <4>3, <4>4, <4>5 DEF Hands
    <3>5. CASE StartSync(r.target, Resubmitted(r), Tail(results)) /\ pc' = pc
      <4>1. Resubmitted(r) \in RequestKeys
        BY <3>1 DEF Resubmitted, TypeOK
      <4> HIDE DEF r
      <4>2. \A u \in Targets \ {r.target} :
              state[u] = "synchronizing"
                <=> u \in TargetsIn(jobs) \cup TargetsRun \cup TargetsIn(Tail(results))
        BY <3>1 DEF Hands, SomePlace
      <4>3. r.target \notin TargetsIn(jobs) \cup TargetsRun \cup TargetsIn(Tail(results))
        BY <3>1
      <4>4. Hands'
        BY <3>1, <3>3, <3>5, <4>1, <4>2, <4>3, HandsStart
           DEF Hands, OneInQueues, OnePlace
      <4> QED
        BY <3>5, <4>4
    <3> QED
      BY <2>3, <3>2, <3>4, <3>5 DEF PollResult
  <2>4. CASE Scanned \/ PollSync \/ Polled
    BY <2>4, HandsStay DEF Scanned, PollSync, Polled
  <2>5. ASSUME NEW s \in Scripts, LookUp(s) PROVE Hands' /\ pc' # "panicked"
    <3>1. \A t \in Targets : state'[t] = "synchronizing" <=> state[t] = "synchronizing"
      BY <2>5 DEF LookUp, TypeOK
    <3> QED
      BY <2>5, <3>1, HandsStay DEF LookUp
  <2>6. ASSUME NEW w \in Workers, WorkerStep(w) PROVE Hands' /\ pc' # "panicked"
    <3>1. pc' = pc
      BY <2>6 DEF WorkerStep, TakeJob, RunUv, PublishResult, WakeUp
    <3> QED
      BY <2>6, <3>1, HandsWorker
  <2>7. ASSUME NEW t \in Targets, NEW c \in Contents, Save(t, c) PROVE Hands' /\ pc' # "panicked"
    BY <2>7, HandsStay DEF Save
  <2>8. CASE UNCHANGED vars
    BY <2>8, HandsStay DEF vars
  <2> QED
    BY <2>1, <2>2, <2>3, <2>4, <2>5, <2>6, <2>7, <2>8 DEF Next, MainStep, Quiet
<1> QED
  BY <1>1, <1>2, TypeCorrect, PTL DEF Spec

\* A result is always one its environment waits for: neither a `panic!` nor the
\* `assert_eq!` of poll_sync is reached, whatever requests and follow-ups crossed it.
THEOREM AlwaysExpected == Spec => []ResultsExpected
<1>1. HandsInv => ResultsExpected
  BY DEF HandsInv
<1> QED
  BY <1>1, HandsHold, PTL

LEMMA AtMostOne ==
    ASSUME NEW S, \A x, y \in S : x = y
    PROVE  Cardinality(S) = IF S = {} THEN 0 ELSE 1
<1>1. CASE S = {}
  BY <1>1, FS_EmptySet
<1>2. CASE S # {}
  <2>1. PICK x : S = {x}
    BY <1>2
  <2> QED
    BY <1>2, <2>1, FS_Singleton
<1> QED
  BY <1>1, <1>2

\* A script or the project has one job queued, running or with a result to be polled
\* exactly while it is synchronizing, and none otherwise: schedule_one, the follow-ups of
\* poll_sync and the workers never start a second uv for it.
THEOREM OneJobEach == Spec => []OneJob
<1>1. TypeOK /\ HandsInv => OneJob
  <2> SUFFICES ASSUME TypeOK, Hands, NEW t \in Targets
               PROVE  JobsOf(t) = IF state[t] = "synchronizing" THEN 1 ELSE 0
    BY DEF HandsInv, OneJob
  <2> DEFINE J == {i \in DOMAIN jobs : jobs[i].target = t}
             W == {w \in Workers : worker[w].job.target = t}
             R == {i \in DOMAIN results : results[i].target = t}
  <2>1. \A i, j \in J : i = j
    BY DEF Hands, OneInQueues, Distinct
  <2>2. \A i, j \in R : i = j
    BY DEF Hands, OneInQueues, Distinct
  <2>3. \A w \in W : w \in Busy
    BY UvAssumption DEF Hands, OneWorker, NoJob
  <2>4. \A v, w \in W : v = w
    BY <2>3 DEF Hands, OneWorker
  <2>5. J # {} <=> t \in TargetsIn(jobs)
    BY DEF TargetsIn, Items
  <2>6. R # {} <=> t \in TargetsIn(results)
    BY DEF TargetsIn, Items
  <2>7. W # {} <=> t \in TargetsRun
    BY <2>3 DEF TargetsRun, Busy
  <2>8. JobsOf(t) = (IF J = {} THEN 0 ELSE 1) + (IF W = {} THEN 0 ELSE 1)
                      + (IF R = {} THEN 0 ELSE 1)
    <3>1. JobsOf(t) = Cardinality(J) + Cardinality(W) + Cardinality(R)
      BY DEF JobsOf
    <3> HIDE DEF J, W, R
    <3>2. Cardinality(J) = IF J = {} THEN 0 ELSE 1
      BY <2>1, AtMostOne
    <3>3. Cardinality(W) = IF W = {} THEN 0 ELSE 1
      BY <2>4, AtMostOne
    <3>4. Cardinality(R) = IF R = {} THEN 0 ELSE 1
      BY <2>2, AtMostOne
    <3> QED
      BY <3>1, <3>2, <3>3, <3>4
  <2> HIDE DEF J, W, R
  <2>9. state[t] = "synchronizing" <=> J # {} \/ W # {} \/ R # {}
    BY <2>5, <2>6, <2>7 DEF Hands, SomePlace
  <2>10. /\ ~(J # {} /\ W # {})
         /\ ~(J # {} /\ R # {})
         /\ ~(W # {} /\ R # {})
    BY <2>5, <2>6, <2>7 DEF Hands, OnePlace
  <2> QED
    BY <2>8, <2>9, <2>10
<1> QED
  BY <1>1, TypeCorrect, HandsHold, PTL

-----------------------------------------------------------------------------
(* What is recorded.                                                       *)

\* Nothing is published for a job that was started while there is a uv.
LEMMA StartPublishesNone ==
    ASSUME found, NEW t, NEW k, NEW rs, StartSync(t, k, rs)
    PROVE  results' = rs
BY DEF StartSync, Submit

\* Only the worker that runs the one job of a target changes what uv last ran for it.
LEMMA RanWorker ==
    ASSUME TypeOK, Hands, RanInv, found, NEW w \in Workers, WorkerStep(w)
    PROVE  RanInv'
<1> USE DEF environmentVars
<1>1. /\ state' = state /\ synced' = synced /\ found' = found
      /\ results \in Seq(Results) /\ DOMAIN worker = Workers
      /\ ran \in [Targets -> RequestKeys \cup {NoKey}]
  BY DEF WorkerStep, TakeJob, RunUv, PublishResult, WakeUp, TypeOK
<1>2. /\ \A x \in Items(results) : x.output # Skipped => ran[x.target] = x.key
      /\ \A v \in Busy : worker[v].phase = "publish" /\ worker[v].output # Skipped
                           => ran[worker[v].job.target] = worker[v].job.key
      /\ \A s \in Scripts : state[s] = "vacant" => synced[s] = NoKey
      /\ \A s \in Scripts : state[s] = "current" /\ synced[s] # NoKey => ran[s] = synced[s]
  BY DEF RanInv, RecordedSyncRan
<1> DEFINE Published == \A x \in Items(results)' : x.output # Skipped => ran'[x.target] = x.key
           Publishing == \A v \in Busy' : worker'[v].phase = "publish" /\ worker'[v].output # Skipped
                                            => ran'[worker'[v].job.target] = worker'[v].job.key
           Recorded == \A s \in Scripts : state[s] = "current" /\ synced[s] # NoKey
                                            => ran'[s] = synced[s]
<1> SUFFICES Published /\ Publishing /\ Recorded
  BY <1>1, <1>2 DEF RanInv, RecordedSyncRan
<1>3. CASE TakeJob(w) \/ WakeUp(w)
  <2>1. results' = results /\ ran' = ran
    BY <1>3 DEF TakeJob, WakeUp
  <2>2. \A v \in Workers : v # w => worker'[v] = worker[v]
    BY <1>1, <1>3 DEF TakeJob, WakeUp
  <2>3. worker'[w].output = Skipped
    BY <1>1, <1>3 DEF TakeJob, WakeUp, Idle
  <2>4. \A v \in Busy' : v = w \/ v \in Busy
    BY <2>2 DEF Busy
  <2>5. Published /\ Recorded
    BY <1>2, <2>1
  <2>6. Publishing
    <3> SUFFICES ASSUME NEW v \in Busy', worker'[v].phase = "publish", worker'[v].output # Skipped
                 PROVE  ran'[worker'[v].job.target] = worker'[v].job.key
      OBVIOUS
    <3>1. v # w /\ v \in Busy /\ v \in Workers
      BY <2>3, <2>4 DEF Busy
    <3> QED
      BY <1>2, <2>1, <2>2, <3>1
  <2> QED
    BY <2>5, <2>6
<1>4. CASE RunUv(w)
  <2> DEFINE j == worker[w].job
  <2>1. w \in Busy
    BY <1>4 DEF RunUv, Busy
  <2>2. j.target \in Targets /\ j.target \in TargetsRun
    BY <2>1, ItemTypes DEF TargetsRun
  <2>3. /\ results' = results
        /\ ran'[j.target] = j.key
        /\ \A t \in Targets \ {j.target} : ran'[t] = ran[t]
        /\ worker'[w].job = j
        /\ \A v \in Workers \ {w} : worker'[v] = worker[v]
    BY <1>1, <1>4, <2>2 DEF RunUv
  <2>4. state[j.target] = "synchronizing"
    BY <2>2 DEF Hands, SomePlace
  <2>5. \A x \in Items(results) : x.target \in Targets \ {j.target}
    BY <2>2, ItemTypes DEF Hands, OnePlace, TargetsIn
  <2>6. \A v \in Busy \ {w} : worker[v].job.target \in Targets \ {j.target}
    BY <2>1, ItemTypes DEF Hands, OneWorker
  <2> HIDE DEF j
  <2>7. Published
    BY <1>2, <2>3, <2>5
  <2>8. Recorded
    <3>1. Scripts \subseteq Targets
      BY DEF Targets
    <3> QED
      BY <1>2, <2>3, <2>4, <3>1
  <2>9. Publishing
    <3> SUFFICES ASSUME NEW v \in Busy', worker'[v].phase = "publish", worker'[v].output # Skipped
                 PROVE  ran'[worker'[v].job.target] = worker'[v].job.key
      OBVIOUS
    <3>1. CASE v = w
      BY <2>3, <3>1
    <3>2. CASE v # w
      <4>1. worker'[v] = worker[v] /\ v \in Busy
        BY <2>3, <3>2 DEF Busy
      <4> QED
        BY <1>2, <2>3, <2>6, <3>2, <4>1
    <3> QED
      BY <3>1, <3>2
  <2> QED
    BY <2>7, <2>8, <2>9
<1>5. CASE PublishResult(w)
  <2> DEFINE x == [target |-> worker[w].job.target, key |-> worker[w].job.key,
                   output |-> worker[w].output]
  <2>1. results' = Append(results, x) /\ ran' = ran
    BY <1>5 DEF PublishResult
  <2>2. Items(results)' = Items(results) \cup {x}
    BY <1>1, <2>1, AppendItems
  <2>3. w \in Busy /\ worker[w].phase = "publish"
    BY <1>5 DEF PublishResult, Busy
  <2>4. x.output # Skipped => ran[x.target] = x.key
    BY <1>2, <2>3
  <2> HIDE DEF x
  <2>5. Published /\ Recorded
    BY <1>2, <2>1, <2>2, <2>4
  <2>6. \A v \in Busy' : v \in Busy /\ worker'[v] = worker[v]
    BY <1>1, <1>5 DEF PublishResult, Idle, Busy
  <2> QED
    BY <1>2, <2>1, <2>5, <2>6
<1> QED
  BY <1>3, <1>4, <1>5, <1>1 DEF WorkerStep

LEMMA RanHolds == Spec => []RanInv
<1> USE DEF diskVars, mainVars, environmentVars, serviceVars
<1>1. Init => RanInv
  BY DEF Init, RanInv, RecordedSyncRan, Items, Busy, Idle, Targets
<1>2. TypeOK /\ HandsInv /\ RanInv /\ [Next]_vars => RanInv'
  <2> SUFFICES ASSUME TypeOK, Hands, RanInv, [Next]_vars, found' PROVE RanInv'
    BY DEF HandsInv, RanInv
  <2>1. found
    BY DEF Next, MainStep, RequestSync, ApplyChanges, Scanned, PollSync, PollResult, Polled, LookUp,
           WorkerStep, TakeJob, RunUv, PublishResult, WakeUp, Save, Quiet, vars
  <2>2. /\ \A x \in Items(results) : x.output # Skipped => ran[x.target] = x.key
        /\ \A w \in Busy : worker[w].phase = "publish" /\ worker[w].output # Skipped
                             => ran[worker[w].job.target] = worker[w].job.key
        /\ \A s \in Scripts : state[s] = "vacant" => synced[s] = NoKey
        /\ \A s \in Scripts : state[s] = "current" /\ synced[s] # NoKey => ran[s] = synced[s]
    BY <2>1 DEF RanInv, RecordedSyncRan
  <2>3. Scripts \subseteq Targets
    BY DEF Targets
  \* A step of the main thread changes what is recorded, and takes results.
  <2>4. ASSUME worker' = worker, ran' = ran, Items(results)' \subseteq Items(results),
               \A s \in Scripts : state'[s] = "vacant" => synced'[s] = NoKey,
               \A s \in Scripts : state'[s] = "current" /\ synced'[s] # NoKey => ran[s] = synced'[s]
        PROVE  RanInv'
    <3>1. Busy' = Busy
      BY <2>4 DEF Busy
    <3> QED
      BY <2>2, <2>4, <3>1 DEF RanInv, RecordedSyncRan
  <2>5. ASSUME NEW s \in Scripts, NEW pending \in BOOLEAN, RequestSync(s, pending) PROVE RanInv'
    <3>1. worker' = worker /\ ran' = ran /\ synced' = synced
      BY <2>5 DEF RequestSync
    <3>2. results' = results
      BY <2>1, <2>5, StartPublishesNone DEF RequestSync
    <3>3. \A z \in Scripts : state'[z] \in {state[z], "synchronizing"}
      BY <2>3, <2>5 DEF RequestSync, StartSync, TypeOK
    <3> QED
      BY <2>2, <2>4, <3>1, <3>2, <3>3
  <2>6. CASE ApplyChanges
    <3>1. worker' = worker /\ ran' = ran /\ synced' = synced
      BY <2>6 DEF ApplyChanges
    <3>2. results' = results
      BY <2>1, <2>6, StartPublishesNone DEF ApplyChanges, RequestProjectSync
    <3>3. \A z \in Scripts : state'[z] \in {state[z], "synchronizing"}
      BY <2>3, <2>6 DEF ApplyChanges, RequestProjectSync, StartSync, TypeOK
    <3> QED
      BY <2>2, <2>4, <3>1, <3>2, <3>3
  <2>7. CASE PollResult
    <3> DEFINE r == Head(results)
    <3>1. /\ r.target \in Targets /\ r.key \in RequestKeys
          /\ r \in Items(results)
          /\ Items(Tail(results)) \subseteq Items(results)
      BY <2>7, HeadExpected DEF PollResult
    <3>2. worker' = worker /\ ran' = ran
      BY <2>7 DEF PollResult
    <3>3. CASE UNCHANGED <<environmentVars, results>>
      BY <2>2, <2>4, <3>2, <3>3
    <3>4. CASE Applies(r) /\ Record(r) /\ results' = Tail(results)
      <4>1. ran[r.target] = r.key
        BY <2>2, <3>1, <3>4 DEF Applies
      <4>2. /\ state'[r.target] = "current" /\ synced'[r.target] = r.key
            /\ \A t \in Targets \ {r.target} : state'[t] = state[t] /\ synced'[t] = synced[t]
        BY <3>1, <3>4 DEF Record, TypeOK
      <4> HIDE DEF r
      <4> QED
        BY <2>2, <2>3, <2>4, <3>1, <3>2, <3>4, <4>1, <4>2
    <3>5. CASE StartSync(r.target, Resubmitted(r), Tail(results)) /\ synced' = synced
      <4>1. results' = Tail(results)
        BY <2>1, <3>5, StartPublishesNone
      <4>2. \A z \in Scripts : state'[z] \in {state[z], "synchronizing"}
        BY <2>3, <3>1, <3>5 DEF StartSync, TypeOK
      <4> HIDE DEF r
      <4> QED
        BY <2>2, <2>4, <3>1, <3>2, <3>5, <4>1, <4>2
    <3> QED
      BY <2>7, <3>3, <3>4, <3>5 DEF PollResult
  <2>8. CASE Scanned \/ PollSync \/ Polled
    BY <2>2, <2>4, <2>8 DEF Scanned, PollSync, Polled
  <2>9. ASSUME NEW s \in Scripts, LookUp(s) PROVE RanInv'
    <3>1. \A z \in Scripts : state'[z] = state[z] \/ (state[z] = "vacant" /\ state'[z] = "current")
      BY <2>3, <2>9 DEF LookUp, TypeOK
    <3> QED
      BY <2>2, <2>4, <2>9, <3>1 DEF LookUp
  <2>10. ASSUME NEW w \in Workers, WorkerStep(w) PROVE RanInv'
    BY <2>1, <2>10, RanWorker
  <2>11. CASE (\E t \in Targets, c \in Contents : Save(t, c)) \/ UNCHANGED vars
    BY <2>2, <2>4, <2>11 DEF Save, vars
  <2> QED
    BY <2>5, <2>6, <2>7, <2>8, <2>9, <2>10, <2>11 DEF Next, MainStep, Quiet
<1> QED
  BY <1>1, <1>2, TypeCorrect, HandsHold, PTL DEF Spec

\* Whatever follow-ups replaced each other, and whichever jobs were skipped, the key that is
\* recorded for a script is the one of the last request uv ran for: a later request for it
\* may be answered from the record.
THEOREM RecordedRan == Spec => []RecordedSyncRan
<1>1. RanInv => RecordedSyncRan
  BY DEF RanInv, RecordedSyncRan
<1> QED
  BY <1>1, RanHolds, PTL

\* Saves, rereads, requests, follow-ups and results may come in any order: once the session
\* has heard of the changes to a script and nothing is in flight for it, what is recorded is
\* the metadata the script has.
THEOREM LastWins == Spec => []LastRequestWins
<1> USE DEF diskVars, mainVars, environmentVars, serviceVars
<1>1. Init => RequestedInv
  BY DEF Init, RequestedInv
<1>2. TypeOK /\ HandsInv /\ RequestedInv /\ [Next]_vars => RequestedInv'
  <2> SUFFICES ASSUME TypeOK, Hands, RequestedInv, [Next]_vars PROVE RequestedInv'
    BY DEF HandsInv
  <2> DEFINE Requested(s) ==
               \/ state[s] = "synchronizing" /\ Desired(s) = view[s]
               \/ state[s] = "current" /\ synced[s] = view[s]
  <2>1. /\ \A t \in Targets \ notified : view[t] = disk[t]
        /\ pc # "scan" => todo = {}
        /\ \A s \in Scripts \ todo : view[s] # NoTag => Requested(s)
    BY DEF RequestedInv
  <2>2. Scripts \subseteq Targets /\ Project \notin Scripts /\ Project \in Targets
    BY UvAssumption DEF Targets
  <2>3. /\ disk \in [Targets -> Contents] /\ view \in [Targets -> Contents]
        /\ state \in [Targets -> {"vacant", "current", "synchronizing"}]
        /\ active \in [Targets -> RequestKeys \cup {NoKey}]
        /\ next \in [Targets -> RequestKeys \cup {NoKey}]
        /\ synced \in [Targets -> RequestKeys \cup {NoKey}]
    BY DEF TypeOK
  <2>4. ASSUME NEW s \in Scripts, NEW pending \in BOOLEAN, RequestSync(s, pending)
        PROVE  RequestedInv'
    <3>1. /\ view' = view /\ disk' = disk /\ notified' = notified /\ pc' = "scan"
          /\ todo' = todo \ {s}
      BY <2>4 DEF RequestSync
    <3>2. \A z \in Scripts \ {s} : /\ state'[z] = state[z] /\ synced'[z] = synced[z]
                                   /\ active'[z] = active[z] /\ next'[z] = next[z]
      BY <2>2, <2>3, <2>4 DEF RequestSync, UpdateNextRequest, StartSync
    <3>3. view[s] # NoTag => Requested(s)'
      <4> SUFFICES ASSUME view[s] # NoTag PROVE Requested(s)'
        OBVIOUS
      <4>1. view[s] # NoKey /\ view'[s] = view[s] /\ s \in Targets
        BY <2>2, <2>3, <3>1, UvAssumption
      <4>2. CASE /\ ~InFlight(s) /\ state[s] = "current" /\ synced[s] = view[s]
                 /\ UNCHANGED <<state, synced>>
        BY <3>1, <4>2
      <4>3. CASE InFlight(s) /\ UpdateNextRequest(s, view[s]) /\ UNCHANGED <<state, active>>
        <5>1. CASE Desired(s) = view[s] /\ next' = next
          BY <4>1, <4>3, <5>1 DEF InFlight, Desired
        <5>2. CASE next' = [next EXCEPT ![s] = FollowUp(s, view[s])]
          <6>1. next'[s] = FollowUp(s, view[s])
            BY <2>3, <4>1, <5>2
          <6> QED
            BY <4>1, <4>3, <6>1 DEF InFlight, Desired, FollowUp
        <5> QED
          BY <4>3, <5>1, <5>2 DEF UpdateNextRequest
      <4>4. CASE StartSync(s, view[s], results)
        <5>1. state'[s] = "synchronizing" /\ active'[s] = view[s] /\ next'[s] = NoKey
          BY <2>3, <4>1, <4>4 DEF StartSync
        <5> QED
          BY <4>1, <5>1 DEF Desired
      <4> QED
        BY <2>4, <4>2, <4>3, <4>4 DEF RequestSync
    <3>4. \A z \in Scripts \ todo : z # s => (view[z] # NoTag => Requested(z)')
      BY <2>1, <3>1, <3>2 DEF Desired
    <3> HIDE DEF Requested
    <3>5. \A z \in Scripts \ todo' : view'[z] # NoTag => Requested(z)'
      BY <3>1, <3>3, <3>4
    <3> QED
      BY <2>1, <3>1, <3>5 DEF RequestedInv, Requested
  <2>5. CASE ApplyChanges
    <3>1. /\ disk' = disk /\ notified' = {} /\ pc' = "scan" /\ synced' = synced
          /\ todo' = notified \cap Scripts
          /\ \A t \in Targets : view'[t] = IF t \in notified THEN disk[t] ELSE view[t]
          /\ todo = {}
      BY <2>1, <2>5 DEF ApplyChanges
    <3>2. \A z \in Scripts : state'[z] = state[z] /\ active'[z] = active[z] /\ next'[z] = next[z]
      BY <2>2, <2>3, <2>5 DEF ApplyChanges, RequestProjectSync, StartSync
    <3>3. \A z \in Scripts \ todo' : view'[z] # NoTag => Requested(z)'
      BY <2>1, <2>2, <3>1, <3>2 DEF Desired
    <3> QED
      BY <2>1, <3>1, <3>3 DEF RequestedInv
  <2>6. CASE PollResult
    <3> DEFINE r == Head(results)
    <3>1. r.target \in Targets /\ r.key \in RequestKeys /\ active[r.target] = r.key
            /\ state[r.target] = "synchronizing"
      BY <2>6, HeadExpected DEF PollResult
    <3>2. /\ view' = view /\ disk' = disk /\ notified' = notified /\ todo' = todo
          /\ pc = "poll" /\ pc' # "scan" /\ todo = {}
      BY <2>1, <2>6 DEF PollResult
    <3>3. CASE UNCHANGED environmentVars
      BY <2>1, <3>2, <3>3 DEF RequestedInv, Desired
    <3>4. CASE Applies(r) /\ Record(r) /\ UNCHANGED <<active, next>>
      <4>1. /\ state'[r.target] = "current" /\ synced'[r.target] = r.key
            /\ \A t \in Targets \ {r.target} : state'[t] = state[t] /\ synced'[t] = synced[t]
        BY <2>3, <3>1, <3>4 DEF Record
      <4>2. Desired(r.target) = r.key
        BY <3>1, <3>4 DEF Applies, Desired
      <4> HIDE DEF r
      <4>3. \A z \in Scripts : view[z] # NoTag => Requested(z)'
        BY <2>1, <2>2, <3>1, <3>2, <3>4, <4>1, <4>2 DEF Desired
      <4> QED
        BY <2>1, <3>2, <4>3 DEF RequestedInv
    <3>5. CASE StartSync(r.target, Resubmitted(r), Tail(results)) /\ synced' = synced
      <4>1. /\ state'[r.target] = "synchronizing" /\ active'[r.target] = Desired(r.target)
            /\ next'[r.target] = NoKey
            /\ \A t \in Targets \ {r.target} : /\ state'[t] = state[t] /\ active'[t] = active[t]
                                               /\ next'[t] = next[t]
        BY <2>3, <3>1, <3>5 DEF StartSync, Resubmitted, Desired
      <4> HIDE DEF r
      <4>2. \A z \in Scripts : view[z] # NoTag => Requested(z)'
        BY <2>1, <2>2, <3>1, <3>2, <3>5, <4>1 DEF Desired
      <4> QED
        BY <2>1, <3>2, <4>2 DEF RequestedInv
    <3> QED
      BY <2>6, <3>3, <3>4, <3>5 DEF PollResult
  <2>7. CASE Scanned \/ PollSync \/ Polled
    BY <2>1, <2>7 DEF Scanned, PollSync, Polled, RequestedInv, Desired
  <2>8. ASSUME NEW s \in Scripts, LookUp(s) PROVE RequestedInv'
    <3>1. /\ UNCHANGED <<diskVars, mainVars, active, next, synced>>
          /\ \A z \in Scripts : state[z] # "vacant" => state'[z] = state[z]
      BY <2>2, <2>3, <2>8 DEF LookUp
    <3> QED
      BY <2>1, <3>1 DEF RequestedInv, Desired
  <2>9. ASSUME NEW w \in Workers, WorkerStep(w) PROVE RequestedInv'
    <3>1. UNCHANGED <<diskVars, mainVars, environmentVars>>
      BY <2>9 DEF WorkerStep, TakeJob, RunUv, PublishResult, WakeUp
    <3> QED
      BY <2>1, <3>1 DEF RequestedInv, Desired
  <2>10. ASSUME NEW t \in Targets, NEW c \in Contents, Save(t, c) PROVE RequestedInv'
    <3>1. /\ UNCHANGED <<mainVars, environmentVars>>
          /\ notified' = notified \cup {t}
          /\ \A u \in Targets \ {t} : disk'[u] = disk[u]
      BY <2>3, <2>10 DEF Save
    <3> QED
      BY <2>1, <3>1 DEF RequestedInv, Desired
  <2>11. CASE UNCHANGED vars
    BY <2>1, <2>11 DEF vars, RequestedInv, Desired
  <2> QED
    BY <2>4, <2>5, <2>6, <2>7, <2>8, <2>9, <2>10, <2>11 DEF Next, MainStep, Quiet
<1>3. RequestedInv => LastRequestWins
  BY DEF RequestedInv, LastRequestWins, Settled, Targets
<1> QED
  BY <1>1, <1>2, <1>3, TypeCorrect, HandsHold, PTL DEF Spec

\* What starting a job may publish at once.
LEMMA StartItems ==
    ASSUME NEW t, NEW k, NEW rs \in Seq(Results), StartSync(t, k, rs)
    PROVE  Items(results)' \subseteq Items(rs) \cup {[target |-> t, key |-> k, output |-> Failed]}
<1> DEFINE x == [target |-> t, key |-> k, output |-> Failed]
<1>1. results' = rs \/ results' = Append(rs, x)
  BY DEF StartSync, Submit
<1>2. Items(Append(rs, x)) = Items(rs) \cup {x}
  BY AppendItems
<1> HIDE DEF x
<1>3. Items(results') \subseteq Items(rs) \cup {x}
  BY <1>1, <1>2
<1> QED
  BY <1>3 DEF x

\* A job that is started for the project, wherever its result goes, has read nothing yet.
LEMMA UnspoiltStart ==
    ASSUME TypeOK, NEW k, NEW rs \in Seq(Results), StartSync(Project, k, rs),
           worker' = worker, disk' = disk,
           Project \notin TargetsIn(rs) \cup TargetsRun
    PROVE  state'[Project] = "synchronizing" /\ Unspoilt'
<1> DEFINE x == [target |-> Project, key |-> k, output |-> Failed]
<1>1. state'[Project] = "synchronizing"
  BY DEF StartSync, TypeOK, Targets
<1>2. Items(results)' \subseteq Items(rs) \cup {x}
  BY StartItems
<1>3. \A y \in Items(results)' : y.target = Project => MayBeRecorded(y.output)'
  BY <1>2 DEF MayBeRecorded, TargetsIn
<1>4. \A w \in Busy' : worker'[w].job.target # Project
  BY DEF Busy, TargetsRun
<1> QED
  BY <1>1, <1>3, <1>4 DEF Unspoilt

\* A worker that runs uv for the project reads what the disk says by then.
LEMMA UnspoiltWorker ==
    ASSUME TypeOK, Unspoilt, NEW w \in Workers, WorkerStep(w)
    PROVE  Unspoilt'
<1>1. disk' = disk /\ results \in Seq(Results) /\ DOMAIN worker = Workers
  BY DEF WorkerStep, TakeJob, RunUv, PublishResult, WakeUp, TypeOK, diskVars
<1>2. \A o : MayBeRecorded(o)' <=> MayBeRecorded(o)
  BY <1>1 DEF MayBeRecorded
<1>3. \A v \in Workers \ {w} : worker'[v] = worker[v]
  BY <1>1 DEF WorkerStep, TakeJob, RunUv, PublishResult, WakeUp
<1>4. \A x \in Items(results)' : x.target = Project => MayBeRecorded(x.output)
  <2>1. CASE results' = results
    BY <2>1 DEF Unspoilt
  <2>2. CASE PublishResult(w)
    <3> DEFINE x == [target |-> worker[w].job.target, key |-> worker[w].job.key,
                     output |-> worker[w].output]
    <3>1. Items(results)' = Items(results) \cup {x}
      BY <1>1, <2>2, AppendItems DEF PublishResult
    <3>2. w \in Busy /\ worker[w].phase = "publish"
      BY <2>2 DEF PublishResult, Busy
    <3>3. x.target = Project => MayBeRecorded(x.output)
      BY <3>2 DEF Unspoilt
    <3> HIDE DEF x
    <3> QED
      BY <3>1, <3>3 DEF Unspoilt
  <2> QED
    BY <2>1, <2>2 DEF WorkerStep, TakeJob, RunUv, WakeUp
<1>5. worker'[w].phase = "publish" /\ worker'[w].job.target = Project
        => MayBeRecorded(worker'[w].output)
  <2>1. CASE TakeJob(w) \/ PublishResult(w) \/ WakeUp(w)
    BY <1>1, <2>1 DEF TakeJob, PublishResult, WakeUp, Idle, MayBeRecorded
  <2>2. CASE RunUv(w)
    <3>1. /\ worker'[w].job = worker[w].job
          /\ worker'[w].output \in {disk[worker[w].job.target], Failed}
      BY <1>1, <2>2 DEF RunUv
    <3> QED
      BY <3>1 DEF MayBeRecorded
  <2> QED
    BY <2>1, <2>2 DEF WorkerStep
<1>6. \A v \in Busy' : worker'[v].phase = "publish" /\ worker'[v].job.target = Project
                         => MayBeRecorded(worker'[v].output)
  <2>1. \A v \in Busy' : v # w => v \in Busy /\ worker'[v] = worker[v]
    BY <1>3 DEF Busy
  <2> QED
    BY <1>5, <2>1 DEF Unspoilt
<1> QED
  BY <1>2, <1>4, <1>6 DEF Unspoilt

\* What uv read of the project may be out of date when it is polled; a change that the
\* session has heard of has made it run again, so that the metadata which is recorded when
\* nothing is in flight is that of the project on disk.
THEOREM ProjectCurrent == Spec => []ProjectMetadataCurrent
<1> USE DEF diskVars, mainVars, environmentVars, serviceVars
<1>1. Init => ProjectInv
  BY DEF Init, ProjectInv, Targets
<1>2. TypeOK /\ HandsInv /\ ProjectInv /\ [Next]_vars => ProjectInv'
  <2> SUFFICES ASSUME TypeOK, Hands, ProjectInv, [Next]_vars PROVE ProjectInv'
    BY DEF HandsInv
  <2>1. Project \in Targets /\ Project \notin Scripts /\ Path # NoKey /\ Path \in RequestKeys
    BY UvAssumption DEF Targets, RequestKeys
  <2>2. /\ disk \in [Targets -> Contents]
        /\ state \in [Targets -> {"vacant", "current", "synchronizing"}]
        /\ next \in [Targets -> RequestKeys \cup {NoKey}]
        /\ applied \in [Targets -> Contents \cup {NoKey}]
        /\ results \in Seq(Results)
    BY DEF TypeOK
  \* A step that is about a script leaves what is known of the project.
  <2>3. ASSUME UNCHANGED <<disk, notified, worker>>,
               state'[Project] = state[Project], next'[Project] = next[Project],
               applied'[Project] = applied[Project],
               Project \in failed' <=> Project \in failed,
               \A x \in Items(results)' : x.target = Project => x \in Items(results)
        PROVE  ProjectInv'
    <3>1. Unspoilt => Unspoilt'
      BY <2>3 DEF Unspoilt, Busy, MayBeRecorded
    <3> QED
      BY <2>3, <3>1 DEF ProjectInv
  <2>4. ASSUME NEW t \in Scripts, NEW k, NEW rs \in Seq(Results), StartSync(t, k, rs),
               Items(rs) \subseteq Items(results)
        PROVE  /\ state'[Project] = state[Project] /\ next'[Project] = next[Project]
               /\ \A x \in Items(results)' : x.target = Project => x \in Items(results)
    <3>1. Items(results)' \subseteq
            Items(rs) \cup {[target |-> t, key |-> k, output |-> Failed]}
      BY <2>4, StartItems
    <3>2. t # Project
      BY <2>1, <2>4
    <3>3. \A x \in Items(results)' : x.target = Project => x \in Items(results)
      BY <2>4, <3>1, <3>2
    <3> QED
      BY <2>1, <2>2, <2>4, <3>2, <3>3 DEF StartSync
  <2>5. ASSUME NEW s \in Scripts, NEW pending \in BOOLEAN, RequestSync(s, pending)
        PROVE  ProjectInv'
    <3>1. UNCHANGED <<disk, notified, worker, applied, failed>>
      BY <2>5 DEF RequestSync
    <3>2. /\ state'[Project] = state[Project] /\ next'[Project] = next[Project]
          /\ \A x \in Items(results)' : x.target = Project => x \in Items(results)
      <4>1. CASE StartSync(s, view[s], results)
        BY <2>2, <2>4, <4>1
      <4>2. CASE UNCHANGED <<state, results>> /\ (next' = next \/ UpdateNextRequest(s, view[s]))
        BY <2>1, <2>2, <4>2 DEF UpdateNextRequest
      <4> QED
        BY <2>5, <4>1, <4>2 DEF RequestSync
    <3> QED
      BY <2>3, <3>1, <3>2
  <2>6. CASE ApplyChanges
    <3>1. UNCHANGED <<disk, worker, applied, failed>> /\ notified' = {}
      BY <2>6 DEF ApplyChanges
    <3>2. CASE Project \notin notified /\ UNCHANGED <<state, next, results>>
      <4>1. Unspoilt => Unspoilt'
        BY <3>1, <3>2 DEF Unspoilt, Busy, MayBeRecorded
      <4> QED
        BY <3>1, <3>2, <4>1 DEF ProjectInv
    <3>3. CASE /\ InFlight(Project) /\ next' = [next EXCEPT ![Project] = Path]
               /\ UNCHANGED state
      BY <2>1, <2>2, <3>3 DEF ProjectInv, InFlight
    <3>4. CASE ~InFlight(Project) /\ StartSync(Project, Path, results)
      <4>1. Project \notin TargetsIn(results) \cup TargetsRun
        BY <2>1, <3>4 DEF InFlight, Hands, SomePlace
      <4>2. state'[Project] = "synchronizing" /\ Unspoilt'
        BY <2>2, <3>1, <3>4, <4>1, UnspoiltStart
      <4> QED
        BY <4>2 DEF ProjectInv
    <3> QED
      BY <2>6, <3>2, <3>3, <3>4 DEF ApplyChanges, RequestProjectSync
  <2>7. CASE PollResult
    <3> DEFINE r == Head(results)
    <3>1. /\ r \in Items(results) /\ r.target \in Targets
          /\ Tail(results) \in Seq(Results)
          /\ state[r.target] = "synchronizing"
          /\ Items(Tail(results)) = {x \in Items(results) : x.target # r.target}
          /\ TargetsIn(Tail(results)) = TargetsIn(results) \ {r.target}
          /\ r.target \notin TargetsIn(jobs) \cup TargetsRun
      BY <2>7, HeadExpected DEF PollResult
    <3>2. UNCHANGED <<disk, notified, worker>>
      BY <2>7 DEF PollResult
    <3>3. CASE UNCHANGED <<environmentVars, results>>
      BY <2>3, <3>2, <3>3
    <3>4. CASE Applies(r) /\ Record(r) /\ results' = Tail(results) /\ next' = next
      <4>1. CASE r.target # Project
        <5>1. /\ state'[Project] = state[Project] /\ applied'[Project] = applied[Project]
              /\ Project \in failed' <=> Project \in failed
          BY <2>1, <2>2, <3>4, <4>1 DEF Record
        <5> HIDE DEF r
        <5> QED
          BY <2>3, <3>1, <3>2, <3>4, <5>1
      <4>2. CASE r.target = Project
        <5>1. state'[Project] = "current"
          BY <2>1, <2>2, <3>4, <4>2 DEF Record
        <5>2. Project \in failed' \/ (r.output \in Contents /\ applied'[Project] = r.output)
          BY <2>1, <2>2, <3>4, <4>2 DEF Record
        <5>3. Project \notin notified => Unspoilt
          BY <3>1, <3>4, <4>2 DEF ProjectInv, Applies
        <5>4. Project \notin notified /\ r.output \in Contents => r.output = disk[Project]
          BY <3>1, <4>2, <5>3, UvAssumption DEF Unspoilt, MayBeRecorded
        <5> HIDE DEF r
        <5> QED
          BY <3>2, <5>1, <5>2, <5>4 DEF ProjectInv
      <4> QED
        BY <4>1, <4>2
    <3>5. CASE StartSync(r.target, Resubmitted(r), Tail(results)) /\ UNCHANGED <<applied, failed>>
      <4>1. CASE r.target # Project
        <5>1. r.target \in Scripts /\ Items(Tail(results)) \subseteq Items(results)
          BY <3>1, <4>1 DEF Targets
        <5>2. /\ state'[Project] = state[Project] /\ next'[Project] = next[Project]
              /\ \A x \in Items(results)' : x.target = Project => x \in Items(results)
          BY <2>4, <3>1, <3>5, <5>1
        <5> QED
          BY <2>3, <3>2, <3>5, <5>2
      <4>2. CASE r.target = Project
        <5>1. Project \notin TargetsIn(Tail(results)) \cup TargetsRun
          BY <3>1, <4>2
        <5>2. state'[Project] = "synchronizing" /\ Unspoilt'
          BY <3>1, <3>2, <3>5, <4>2, <5>1, UnspoiltStart
        <5> QED
          BY <5>2 DEF ProjectInv
      <4> QED
        BY <4>1, <4>2
    <3> QED
      BY <2>7, <3>3, <3>4, <3>5 DEF PollResult
  <2>8. CASE Scanned \/ PollSync \/ Polled
    BY <2>3, <2>8 DEF Scanned, PollSync, Polled
  <2>9. ASSUME NEW s \in Scripts, LookUp(s) PROVE ProjectInv'
    <3>1. state'[Project] = state[Project]
      BY <2>1, <2>2, <2>9 DEF LookUp
    <3> QED
      BY <2>3, <2>9, <3>1 DEF LookUp
  <2>10. ASSUME NEW w \in Workers, WorkerStep(w) PROVE ProjectInv'
    <3>1. UNCHANGED <<diskVars, environmentVars>>
      BY <2>10 DEF WorkerStep, TakeJob, RunUv, PublishResult, WakeUp
    <3>2. Unspoilt => Unspoilt'
      BY <2>10, UnspoiltWorker
    <3> QED
      BY <3>1, <3>2 DEF ProjectInv
  <2>11. ASSUME NEW t \in Targets, NEW c \in Contents, Save(t, c) PROVE ProjectInv'
    <3>1. CASE t = Project
      BY <2>11, <3>1 DEF Save, ProjectInv
    <3>2. CASE t # Project
      <4>1. /\ UNCHANGED <<environmentVars, serviceVars>>
            /\ disk'[Project] = disk[Project] /\ notified' = notified \cup {t}
        BY <2>1, <2>2, <2>11, <3>2 DEF Save
      <4>2. Unspoilt => Unspoilt'
        BY <4>1 DEF Unspoilt, Busy, MayBeRecorded
      <4> QED
        BY <3>2, <4>1, <4>2 DEF ProjectInv
    <3> QED
      BY <3>1, <3>2
  <2>12. CASE UNCHANGED vars
    BY <2>3, <2>12 DEF vars
  <2> QED
    BY <2>5, <2>6, <2>7, <2>8, <2>9, <2>10, <2>11, <2>12 DEF Next, MainStep, Quiet
<1>3. ProjectInv => ProjectMetadataCurrent
  BY DEF ProjectInv, ProjectMetadataCurrent, Settled
<1> QED
  BY <1>1, <1>2, <1>3, TypeCorrect, HandsHold, PTL DEF Spec

-----------------------------------------------------------------------------
(* UvEnvironments implements EnvironmentSync.                              *)

\* Without uv there is nothing to run.
RunsUv == found \/ (jobs = <<>> /\ Busy = {})

LEMMA RunsUvHolds == Spec => []RunsUv
<1> USE DEF diskVars, mainVars, environmentVars, serviceVars
<1>1. Init => RunsUv
  BY DEF Init, RunsUv, Busy, Idle
<1>2. RunsUv /\ [Next]_vars => RunsUv'
  <2> SUFFICES ASSUME RunsUv, [Next]_vars PROVE RunsUv'
    OBVIOUS
  <2>0. found' = found
    BY DEF Next, MainStep, RequestSync, ApplyChanges, Scanned, PollSync, PollResult, Polled,
           LookUp, WorkerStep, TakeJob, RunUv, PublishResult, WakeUp, Save, Quiet, vars
  <2> SUFFICES ASSUME ~found, jobs = <<>>, Busy = {} PROVE RunsUv'
    BY <2>0 DEF RunsUv
  <2>1. ASSUME NEW t, NEW k, NEW rs, StartSync(t, k, rs) PROVE jobs' = jobs
    BY <2>1 DEF StartSync, Submit
  <2>2. ASSUME jobs' = jobs, worker' = worker PROVE RunsUv'
    <3>1. Busy' = Busy
      BY <2>2 DEF Busy
    <3> QED BY <2>2, <3>1 DEF RunsUv
  <2>3. ASSUME NEW s \in Scripts, NEW pending \in BOOLEAN, RequestSync(s, pending) PROVE RunsUv'
    BY <2>1, <2>2, <2>3 DEF RequestSync
  <2>4. CASE ApplyChanges \/ PollResult
    BY <2>1, <2>2, <2>4 DEF ApplyChanges, RequestProjectSync, PollResult
  <2>5. CASE \/ Scanned \/ PollSync \/ Polled \/ UNCHANGED vars
             \/ (\E s \in Scripts : LookUp(s))
             \/ (\E t \in Targets, c \in Contents : Save(t, c))
    BY <2>2, <2>5 DEF Scanned, PollSync, Polled, LookUp, Save, vars
  <2>6. ASSUME NEW w \in Workers, WorkerStep(w) PROVE RunsUv'
    <3>1. WakeUp(w)
      BY <2>6 DEF WorkerStep, TakeJob, RunUv, PublishResult, Busy
    <3>2. jobs' = <<>> /\ Busy' = {}
      BY <3>1 DEF WakeUp, Busy, Idle
    <3> QED BY <3>2 DEF RunsUv
  <2> QED
    BY <2>3, <2>4, <2>5, <2>6 DEF Next, MainStep, Quiet
<1> QED
  BY <1>1, <1>2, PTL DEF Spec

LEMMA Redirected ==
    ASSUME NEW t \in Targets, NEW k, Desired(t)' = k,
           \A z \in Targets \ {t} : Desired(z)' = Desired(z)
    PROVE  LastRequest' = [LastRequest EXCEPT ![t] = k]
<1>1. \A z \in Targets : Desired(z)' = IF z = t THEN k ELSE Desired(z)
  OBVIOUS
<1> QED
  BY <1>1 DEF LastRequest

\* What a job that is submitted changes for the users.
LEMMA SyncStart ==
    ASSUME TypeOK, NEW t \in Targets, NEW k, NEW rs, StartSync(t, k, rs)
    PROVE  /\ Known' = Known \cup {t}
           /\ Synchronizing' = Synchronizing \cup {t}
           /\ LastRequest' = [LastRequest EXCEPT ![t] = k]
<1>1. /\ \A z \in Targets : state'[z] = IF z = t THEN "synchronizing" ELSE state[z]
      /\ \A z \in Targets : active'[z] = IF z = t THEN k ELSE active[z]
      /\ \A z \in Targets : next'[z] = IF z = t THEN NoKey ELSE next[z]
  BY DEF StartSync, TypeOK
<1>2. Known' = Known \cup {t} /\ Synchronizing' = Synchronizing \cup {t}
  BY <1>1 DEF Known, Synchronizing
<1>3. LastRequest' = [LastRequest EXCEPT ![t] = k]
  BY <1>1, Redirected DEF Desired
<1> QED
  BY <1>2, <1>3

LEMMA SyncStutter ==
    ASSUME UNCHANGED <<state, initializing, active, next, ran, synced, found>>
    PROVE  UNCHANGED Sync!environments
<1>1. Known' = Known /\ Synchronizing' = Synchronizing /\ LastRequest' = LastRequest
  BY DEF Known, Synchronizing, LastRequest, Desired
<1> QED
  BY <1>1 DEF Sync!environments

LEMMA SyncRequest ==
    ASSUME TypeOK, NEW s \in Scripts, NEW pending \in BOOLEAN, RequestSync(s, pending)
    PROVE  [Sync!Next]_(Sync!environments)
<1> USE DEF environmentVars
<1>0. PICK k : k = view[s]
  OBVIOUS
<1>1. s \in Targets /\ k \in Contents /\ UNCHANGED <<found, ran>>
  BY <1>0 DEF TypeOK, Targets, RequestSync
<1>2. CASE UNCHANGED environmentVars
  BY <1>1, <1>2, SyncStutter
<1>3. CASE /\ k # NoTag /\ InFlight(s) /\ UpdateNextRequest(s, k)
           /\ UNCHANGED <<state, initializing, active, synced>>
  <2>1. CASE UNCHANGED next
    BY <1>1, <1>3, <2>1, SyncStutter
  <2>2. CASE next' = [next EXCEPT ![s] = FollowUp(s, k)]
    <3>1. /\ next'[s] = FollowUp(s, k)
          /\ \A z \in Targets \ {s} : next'[z] = next[z]
      BY <1>1, <2>2 DEF TypeOK
    <3>2. k \in RequestKeys /\ k # NoKey
      BY <1>1, <1>3, UvAssumption DEF Contents, RequestKeys
    <3>3. Desired(s)' = k
      BY <1>3, <3>1, <3>2 DEF Desired, FollowUp
    <3>4. \A z \in Targets \ {s} : Desired(z)' = Desired(z)
      BY <1>3, <3>1 DEF Desired
    <3>5. LastRequest' = [LastRequest EXCEPT ![s] = k]
      BY <1>1, <3>3, <3>4, Redirected
    <3>6. /\ Known' = Known /\ Synchronizing' = Synchronizing
          /\ s \in Known /\ s \in Synchronizing
      BY <1>1, <1>3 DEF Known, Synchronizing, InFlight
    <3>7. Sync!Request(s, k)
      BY <1>1, <1>3, <3>5, <3>6 DEF Sync!Request
    <3> QED BY <1>1, <3>2, <3>7 DEF Sync!Next
  <2> QED BY <1>3, <2>1, <2>2 DEF UpdateNextRequest
<1>4. CASE /\ k # NoTag /\ StartSync(s, k, results) /\ synced' = synced
           /\ initializing' = IF Initializes(s, pending) THEN initializing \cup {s}
                                                         ELSE initializing
  <2>1. /\ Known' = Known \cup {s} /\ Synchronizing' = Synchronizing \cup {s}
        /\ LastRequest' = [LastRequest EXCEPT ![s] = k]
    BY <1>1, <1>4, SyncStart
  <2>2. k \in RequestKeys
    BY <1>1, <1>4 DEF Contents, RequestKeys
  <2>3. initializing' = initializing \/ (s \notin Known /\ initializing' = initializing \cup {s})
    BY <1>4 DEF Initializes, Known
  <2>4. Sync!Request(s, k)
    BY <1>1, <1>4, <2>1, <2>3 DEF Sync!Request
  <2> QED BY <1>1, <2>2, <2>4 DEF Sync!Next
<1> QED
  BY <1>0, <1>2, <1>3, <1>4 DEF RequestSync

LEMMA SyncApply ==
    ASSUME TypeOK, ApplyChanges
    PROVE  [Sync!Next]_(Sync!environments)
<1>1. UNCHANGED <<found, ran, synced, initializing>> /\ Project \in Targets /\ Path \in RequestKeys
  BY DEF ApplyChanges, Targets, RequestKeys
<1>2. CASE ~(Project \in notified)
  BY <1>1, <1>2, SyncStutter DEF ApplyChanges
<1>3. CASE InFlight(Project) /\ next' = [next EXCEPT ![Project] = Path] /\ UNCHANGED <<state, active>>
  <2>1. next'[Project] = Path /\ \A z \in Targets \ {Project} : next'[z] = next[z]
    BY <1>1, <1>3 DEF TypeOK
  <2>2. Desired(Project)' = Path
    BY <2>1, UvAssumption DEF Desired
  <2>3. \A z \in Targets \ {Project} : Desired(z)' = Desired(z)
    BY <1>3, <2>1 DEF Desired
  <2>4. LastRequest' = [LastRequest EXCEPT ![Project] = Path]
    BY <1>1, <2>2, <2>3, Redirected
  <2>5. /\ Known' = Known /\ Synchronizing' = Synchronizing
        /\ Project \in Known /\ Project \in Synchronizing
    BY <1>1, <1>3 DEF Known, Synchronizing, InFlight
  <2>6. Sync!Request(Project, Path)
    BY <1>1, <2>4, <2>5 DEF Sync!Request
  <2> QED BY <1>1, <2>6 DEF Sync!Next
<1>4. CASE StartSync(Project, Path, results)
  <2>1. /\ Known' = Known \cup {Project} /\ Synchronizing' = Synchronizing \cup {Project}
        /\ LastRequest' = [LastRequest EXCEPT ![Project] = Path]
    BY <1>1, <1>4, SyncStart
  <2>2. Sync!Request(Project, Path)
    BY <1>1, <2>1 DEF Sync!Request
  <2> QED BY <1>1, <2>2 DEF Sync!Next
<1> QED
  BY <1>2, <1>3, <1>4 DEF ApplyChanges, RequestProjectSync

LEMMA SyncPoll ==
    ASSUME TypeOK, Hands, RanInv, PollResult
    PROVE  [Sync!Next]_(Sync!environments)
<1> USE DEF environmentVars
<1>0. PICK r : r = Head(results)
  OBVIOUS
<1>1. UNCHANGED <<found, ran>> /\ results # <<>>
  BY DEF PollResult
<1>2. /\ r.target \in Targets /\ r.key \in RequestKeys /\ r \in Items(results)
      /\ state[r.target] = "synchronizing" /\ active[r.target] = r.key
  BY <1>0, <1>1, HeadExpected DEF Hands, SomePlace, ActiveKey, TargetsIn
<1>3. CASE UNCHANGED environmentVars
  BY <1>1, <1>3, SyncStutter
<1>4. CASE Applies(r) /\ Record(r) /\ UNCHANGED <<active, next>>
  <2>1. /\ \A t \in Targets : state'[t] = IF t = r.target THEN "current" ELSE state[t]
        /\ synced' = [synced EXCEPT ![r.target] = r.key]
        /\ initializing' = initializing \ {r.target}
    BY <1>2, <1>4 DEF Record, TypeOK
  <2>2. /\ Known' = Known /\ Synchronizing' = Synchronizing \ {r.target}
        /\ r.target \in Synchronizing
    BY <1>2, <2>1 DEF Known, Synchronizing
  <2>3. LastRequest' = LastRequest /\ LastRequest[r.target] = r.key
    BY <1>2, <1>4 DEF LastRequest, Desired, Applies
  <2>4. found => ran[r.target] = r.key
    BY <1>2, <1>4 DEF RanInv, Applies
  <2>5. Sync!Finish(r.target)
    BY <1>1, <2>1, <2>2, <2>3, <2>4 DEF Sync!Finish
  <2> QED BY <1>2, <2>5 DEF Sync!Next
\* A result that is discarded: the users do not see the job that follows.
<1>5. CASE /\ StartSync(r.target, Resubmitted(r), Tail(results))
           /\ UNCHANGED <<initializing, synced>>
  <2>1. /\ Known' = Known \cup {r.target} /\ Synchronizing' = Synchronizing \cup {r.target}
        /\ LastRequest' = [LastRequest EXCEPT ![r.target] = Resubmitted(r)]
    BY <1>2, <1>5, SyncStart
  <2>2. r.target \in Known /\ r.target \in Synchronizing
    BY <1>2 DEF Known, Synchronizing
  <2>3. LastRequest[r.target] = Resubmitted(r)
    BY <1>2 DEF LastRequest, Desired, Resubmitted
  <2>4. LastRequest' = LastRequest
    BY <2>1, <2>3 DEF LastRequest
  <2> QED BY <1>1, <1>5, <2>1, <2>2, <2>4 DEF Sync!environments
<1> QED
  BY <1>0, <1>3, <1>4, <1>5 DEF PollResult

LEMMA SyncWorker ==
    ASSUME TypeOK, Hands, RunsUv, NEW w \in Workers, WorkerStep(w)
    PROVE  [Sync!Next]_(Sync!environments)
<1> USE DEF environmentVars
<1>1. CASE TakeJob(w) \/ PublishResult(w) \/ WakeUp(w)
  BY <1>1, SyncStutter DEF TakeJob, PublishResult, WakeUp
<1>2. CASE RunUv(w)
  <2>0. PICK j : j = worker[w].job
    OBVIOUS
  <2>1. /\ worker[w].phase = "run" /\ ran' = [ran EXCEPT ![j.target] = j.key]
        /\ UNCHANGED <<state, initializing, active, next, synced, found>>
    BY <1>2, <2>0 DEF RunUv
  <2>2. j \in Jobs
    BY <2>0, <2>1 DEF TypeOK
  <2>3. j.target \in Targets /\ j.key \in RequestKeys
    BY <2>2 DEF Jobs
  <2>4. w \in Busy /\ found
    BY <2>1 DEF Busy, RunsUv
  <2>5. j.target \in Synchronizing
    BY <2>0, <2>3, <2>4 DEF Hands, SomePlace, TargetsRun, Synchronizing
  <2>6. Known' = Known /\ Synchronizing' = Synchronizing /\ LastRequest' = LastRequest
    BY <2>1 DEF Known, Synchronizing, LastRequest, Desired
  <2>7. Sync!Run(j.target, j.key)
    BY <2>1, <2>4, <2>5, <2>6 DEF Sync!Run
  <2> QED BY <2>3, <2>7 DEF Sync!Next
<1> QED
  BY <1>1, <1>2 DEF WorkerStep

LEMMA SyncStep ==
    TypeOK /\ HandsInv /\ RanInv /\ RunsUv /\ [Next]_vars => [Sync!Next]_(Sync!environments)
<1> SUFFICES ASSUME TypeOK, Hands, RanInv, RunsUv, [Next]_vars
             PROVE  [Sync!Next]_(Sync!environments)
  BY DEF HandsInv
<1> USE DEF diskVars, mainVars, environmentVars, serviceVars
<1>1. CASE Scanned \/ PollSync \/ Polled \/ UNCHANGED vars
  BY <1>1, SyncStutter DEF Scanned, PollSync, Polled, vars
<1>2. ASSUME NEW t \in Targets, NEW c \in Contents, Save(t, c) PROVE [Sync!Next]_(Sync!environments)
  BY <1>2, SyncStutter DEF Save
<1>3. ASSUME NEW s \in Scripts, LookUp(s) PROVE [Sync!Next]_(Sync!environments)
  <2>1. /\ s \in Targets /\ state[s] = "vacant" /\ state' = [state EXCEPT ![s] = "current"]
        /\ UNCHANGED <<initializing, active, next, ran, synced, found>>
    BY <1>3 DEF LookUp, Targets
  <2>2. \A z \in Targets : state'[z] = IF z = s THEN "current" ELSE state[z]
    BY <2>1 DEF TypeOK
  <2>3. s \notin Known /\ Known' = Known \cup {s} /\ Synchronizing' = Synchronizing
    BY <2>1, <2>2 DEF Known, Synchronizing
  <2>4. LastRequest' = LastRequest
    BY <2>1 DEF LastRequest, Desired
  <2>5. Sync!LookUp(s)
    BY <2>1, <2>3, <2>4 DEF Sync!LookUp
  <2> QED BY <2>1, <2>5 DEF Sync!Next
<1> QED
  BY <1>1, <1>2, <1>3, SyncRequest, SyncApply, SyncPoll, SyncWorker DEF Next, MainStep, Quiet

\* UvEnvironments implements EnvironmentSync, for any scripts, keys and workers: uv touches
\* an environment only while its target is synchronizing, and poll_sync records a result for
\* the last request only, after uv ran for that request last.  A job that is skipped or
\* superseded and its successor are one synchronization to the users.
THEOREM SyncImplemented == Spec => ImplementsSync
<1>1. Init => Sync!Init
  <2> SUFFICES ASSUME Init PROVE Sync!Init
    OBVIOUS
  <2>1. Known \in SUBSET Targets /\ Synchronizing = {}
    BY DEF Init, Known, Synchronizing
  <2>2. LastRequest = [t \in Targets |-> NoKey]
    BY DEF Init, LastRequest, Desired
  <2> QED
    BY <2>1, <2>2 DEF Init, Sync!Init
<1> QED
  BY <1>1, SyncStep, TypeCorrect, HandsHold, RanHolds, RunsUvHolds, PTL
     DEF Spec, ImplementsSync, Sync!Spec
=============================================================================
