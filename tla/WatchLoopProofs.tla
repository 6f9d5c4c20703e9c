-------------------------- MODULE WatchLoopProofs --------------------------
(***************************************************************************)
(* Proofs about WatchLoop, for any files, scripts and capacity of the      *)
(* channel and any number of checks, events and changes.                   *)
(***************************************************************************)
EXTENDS WatchLoop, SequenceTheorems, TLAPS

LEMMA Queue ==
    ASSUME NEW S, NEW q \in Seq(S)
    PROVE  /\ \A e \in S : Append(q, e) \in Seq(S) /\ Len(Append(q, e)) = Len(q) + 1
           /\ q # <<>> => Head(q) \in S /\ Tail(q) \in Seq(S) /\ Len(Tail(q)) = Len(q) - 1
           /\ Len(q) \in Nat
OBVIOUS

LEMMA MessageTypes ==
    /\ NoReport \in Results /\ NoCheck \in CheckStates
    /\ Exit \in Messages
    /\ \A es \in Seq(Events) : Changes(es) \in Messages
    /\ \A r \in Results : Completed(r) \in Messages
    /\ Rescan \in Events /\ <<Rescan>> \in Seq(Events)
<1>1. NoReport \in Results
  BY DEF NoReport, Results, Versions, None
<1>2. NoCheck \in CheckStates
  BY DEF NoCheck, CheckStates, Versions, None
<1>3. <<>> \in Seq(Events)
  OBVIOUS
<1>4. Rescan \in Events
  BY DEF Rescan, Events, Kinds, Paths
<1>5. <<Rescan>> \in Seq(Events)
  BY <1>4
<1> QED
  BY <1>1, <1>2, <1>3, <1>4, <1>5 DEF Exit, Changes, Completed, Messages

\* A request keeps the jobs in their types.
LEMMA TypeRequest ==
    ASSUME TypeOK, NEW S \in SUBSET Scripts, NEW p \in BOOLEAN,
           NEW j \in [Targets -> {"none", "run", "done"}], NEW a \in SUBSET Targets,
           stat' \in [Files -> Versions], RequestSync(S, p, j, a)
    PROVE  /\ job' \in [Targets -> {"none", "run", "done"}]
           /\ key' \in [Targets -> Versions]
           /\ again' \subseteq Targets
<1>1. S \subseteq Targets /\ Scripts \subseteq Files /\ Config \in Targets
  BY WatchAssumption DEF Targets
<1>2. \A t \in Targets \ {Config} : stat'[t] \in Versions
  BY <1>1 DEF Targets
<1>3. key \in [Targets -> Versions]
  BY DEF TypeOK
<1> QED
  BY <1>1, <1>2, <1>3 DEF RequestSync

LEMMA TypeWalk ==
    ASSUME TypeOK, NEW b \in BOOLEAN, WalkIf(b)
    PROVE  index' \subseteq Files /\ stat' \in [Files -> Versions]
<1>1. Walked \subseteq Files /\ \A f \in Files : disk[f] \in Versions
  BY DEF Walked, TypeOK, Paths
<1> QED
  BY <1>1 DEF WalkIf, TypeOK

\* The threads keep the state well typed, and the channel within its capacity.
THEOREM TypeCorrect == Spec => []TypeOK
<1> USE DEF diskVars, watcherVars, batchVars, mainVars, dbVars, uvVars
<1>1. Init => TypeOK
  <2> SUFFICES ASSUME Init PROVE TypeOK
    OBVIOUS
  <2>1. disk \in [Paths -> Versions] /\ \A f \in Files : disk[f] \in Versions
    BY DEF Init, Versions, Paths
  <2>2. stat \in [Files -> Versions] /\ text \in [Files -> Versions] /\ index \subseteq Files
    BY <2>1 DEF Init, Versions, None
  <2>3. \A t \in Targets : disk[t] \in Versions
    BY <2>1, WatchAssumption DEF Targets, Paths
  <2>4. env \in [Targets -> Versions] /\ key \in [Targets -> Versions]
    BY <2>3 DEF Init, Versions, None
  <2>5. job \in [Targets -> {"none", "run", "done"}]
    BY DEF Init
  <2>6. check \in [Checks -> CheckStates] /\ report \in Results
    BY MessageTypes DEF Init
  <2>7. chan \in Seq(Messages) /\ Len(chan) <= Capacity
    BY WatchAssumption DEF Init
  <2>8. again \subseteq Targets /\ waking \subseteq Targets /\ changed \subseteq Files
        /\ saves \in Nat /\ revision \in Nat
    BY DEF Init
  <2>9. watch \in BOOLEAN /\ uv \in BOOLEAN /\ reload \in BOOLEAN /\ walk \in BOOLEAN
        /\ requested \in BOOLEAN /\ interrupted \in BOOLEAN /\ wake \in BOOLEAN
    BY Zenon DEF Init
  <2>10. events \in Seq(Events) /\ batch \in Seq(Events) /\ todo \in Seq(Events)
         /\ debouncer = "collect" /\ pc = "select" /\ synced \subseteq Files
    BY DEF Init
  <2> QED
    BY <2>1, <2>2, <2>4, <2>5, <2>6, <2>7, <2>8, <2>9, <2>10 DEF TypeOK
<1>2. TypeOK /\ [Next]_vars => TypeOK'
  <2> SUFFICES ASSUME TypeOK, [Next]_vars PROVE TypeOK'
    OBVIOUS
  <2>0. \A p \in Targets \cup Files : p \in Paths
    BY WatchAssumption DEF Targets, Paths
  <2>1. ASSUME NEW p \in Paths, Save(p) PROVE TypeOK'
    <3>1. disk' \in [Paths -> Versions]
      <4>1. disk \in [Paths -> Nat] /\ disk[p] \in Nat
        BY DEF TypeOK, Versions
      <4>2. disk' = [disk EXCEPT ![p] = disk[p] + 2] \/ disk' = [disk EXCEPT ![p] = disk[p] + 1]
        BY <2>1 DEF Save
      <4> QED
        BY <4>1, <4>2 DEF Versions
    <3>2. \A k \in Kinds : Event(k, p) \in Events
      BY DEF Event, Events
    <3>3. \A e \in Events : Notified(e) \in Seq(Events)
      BY Queue, MessageTypes DEF Notified, TypeOK
    <3>4. events' \in Seq(Events)
      BY <2>1, <3>2, <3>3 DEF Save, Kinds
    <3> QED
      BY <2>1, <3>1, <3>4 DEF Save, TypeOK
  <2>2. CASE TakeEvent
    <3>1. Gathered(batch, Head(events)) \in Seq(Events) /\ Tail(events) \in Seq(Events)
      BY <2>2, Queue, MessageTypes DEF TakeEvent, Gathered, TypeOK
    <3> QED
      BY <2>2, <3>1 DEF TakeEvent, TypeOK
  <2>3. CASE FlushBatch
    <3>0. Changes(batch) \in Messages /\ chan \in Seq(Messages) /\ Len(chan) <= Capacity
          /\ Len(chan) \in Nat /\ Capacity \in Nat /\ batch \in Seq(Events) /\ <<>> \in Seq(Events)
      BY Queue, MessageTypes, WatchAssumption DEF TypeOK
    <3>1. chan' \in Seq(Messages) /\ Len(chan') <= Capacity /\ batch' \in Seq(Events)
          /\ debouncer' \in {"collect", "send", "ended", "panicked"}
      <4>1. CASE Len(chan) < Capacity /\ chan' = Append(chan, Changes(batch)) /\ batch' = <<>>
                 /\ debouncer' = "collect"
        BY <4>1, <3>0, Queue
      <4>2. CASE UNCHANGED <<chan, batch>> /\ debouncer' \in {"send", "panicked"}
        BY <4>2, <3>0
      <4> QED
        BY <2>3, <4>1, <4>2 DEF FlushBatch, SendBatch
    <3> QED
      BY <2>3, <3>1 DEF FlushBatch, TypeOK
  <2>4. CASE EndDebouncer
    BY <2>4 DEF EndDebouncer, TypeOK
  <2>5. CASE Interrupt
    <3>1. chan' \in Seq(Messages) /\ Len(chan') <= Capacity
      BY <2>5, Queue, MessageTypes, WatchAssumption DEF Interrupt, TypeOK
    <3> QED
      BY <2>5, <3>1 DEF Interrupt, TypeOK
  <2>6. ASSUME NEW t \in Targets, UvStep(t) PROVE TypeOK'
    <3>1. CASE RunUv(t)
      BY <3>1 DEF RunUv, TypeOK
    <3>2. CASE WakeUp(t)
      BY <3>2 DEF WakeUp, TypeOK
    <3> QED
      BY <2>6, <3>1, <3>2 DEF UvStep
  <2>7. CASE ReceiveChanges
    <3>1. Head(chan) \in Messages /\ Tail(chan) \in Seq(Messages) /\ Len(Tail(chan)) <= Capacity
      BY <2>7, Queue, WatchAssumption DEF ReceiveChanges, Received, TypeOK
    <3>2. Head(chan).events \in Seq(Events)
      BY <3>1 DEF Messages
    <3> QED
      BY <2>7, <3>1, <3>2 DEF ReceiveChanges, NextRevision, TypeOK
  <2>8. CASE ApplyEvent
    <3>1. Head(todo) \in Events /\ Tail(todo) \in Seq(Events) /\ <<>> \in Seq(Events)
      BY <2>8, Queue DEF ApplyEvent, TypeOK
    <3>2. \A f \in Files : disk[f] \in Versions /\ Synced(f) \in Versions /\ SyncedOnce(f) \in Versions
      BY <2>0 DEF TypeOK, Synced, SyncedOnce, Versions, None
    <3>3. None \in Versions
      BY DEF None, Versions
    <3>4. stat' \in [Files -> Versions] /\ text' \in [Files -> Versions] /\ index' \subseteq Files
          /\ synced' \subseteq Files /\ changed' \subseteq Files /\ todo' \in Seq(Events)
          /\ reload' \in BOOLEAN /\ walk' \in BOOLEAN
      <4>1. CASE Head(todo) = Rescan /\ ApplyRescan
        BY <4>1, <3>1, <3>2, <3>3 DEF ApplyRescan, TypeOK
      <4>2. CASE Head(todo).path \in Files /\ ApplyFile(Head(todo))
        BY <4>2, <3>1, <3>2, <3>3 DEF ApplyFile, TypeOK
      <4>3. CASE UNCHANGED <<synced, changed, walk, stat, text, index>> /\ todo' = Tail(todo) /\ reload' \in BOOLEAN
        BY <4>3, <3>1 DEF TypeOK
      <4> QED
        BY <2>8, <4>1, <4>2, <4>3 DEF ApplyEvent, TypeOK
    <3> QED
      BY <2>8, <3>4 DEF ApplyEvent, TypeOK
  <2>9. CASE EndApply
    <3>1. PICK filesChanged \in BOOLEAN :
            /\ WalkIf(walk \/ filesChanged)
            /\ env' = IF reload /\ ~uv THEN [env EXCEPT ![Config] = disk[Config]] ELSE env
            /\ RequestSync(IF walk \/ filesChanged THEN index' \cap Scripts
                                                   ELSE changed \cap index \cap Scripts,
                           reload, job, again)
      BY <2>9 DEF EndApply
    <3>2. index' \subseteq Files /\ stat' \in [Files -> Versions]
      BY <3>1, TypeWalk DEF TypeOK
    <3>3. env' \in [Targets -> Versions]
      BY <3>1, <2>0 DEF TypeOK, Targets
    <3>4. /\ job' \in [Targets -> {"none", "run", "done"}]
          /\ key' \in [Targets -> Versions]
          /\ again' \subseteq Targets
      BY <3>1, <3>2, TypeRequest DEF TypeOK
    <3> QED
      BY <2>9, <3>2, <3>3, <3>4 DEF EndApply, Request, TypeOK
  <2>10. CASE ReceiveWakeup
    BY <2>10 DEF ReceiveWakeup, TypeOK
  <2>11. CASE PollSync
    <3> DEFINE done == {t \in Targets : job[t] = "done"}
               wanted == done \ again
               jobs == [t \in Targets |-> IF t \in wanted THEN "none"
                                          ELSE IF t \in done THEN "run" ELSE job[t]]
    <3>1. PICK filesChanged \in BOOLEAN :
            /\ WalkIf(filesChanged)
            /\ RequestSync(IF filesChanged THEN index' \cap Scripts ELSE {}, FALSE, jobs, again \ done)
      BY <2>11 DEF PollSync
    <3>2. index' \subseteq Files /\ stat' \in [Files -> Versions]
      BY <3>1, TypeWalk
    <3>3. env' \in [Targets -> Versions]
      BY <2>11, <2>0 DEF PollSync, TypeOK
    <3>4. jobs \in [Targets -> {"none", "run", "done"}] /\ again \ done \subseteq Targets
      BY DEF TypeOK
    <3> HIDE DEF jobs, done
    <3>5. /\ job' \in [Targets -> {"none", "run", "done"}]
          /\ key' \in [Targets -> Versions]
          /\ again' \subseteq Targets
      BY <3>1, <3>2, <3>4, TypeRequest
    <3> QED
      BY <2>11, <3>2, <3>3, <3>5 DEF PollSync, Request, NextRevision, TypeOK
  <2>12. CASE CheckWorkspace
    <3>1. check' \in [Checks -> CheckStates]
      <4>1. [NoCheck EXCEPT !.phase = "run", !.rev = revision] \in CheckStates
        BY MessageTypes DEF TypeOK, CheckStates
      <4> QED
        BY <2>12, <4>1 DEF CheckWorkspace, TypeOK
    <3> QED
      BY <2>12, <3>1 DEF CheckWorkspace, TypeOK
  <2>13. CASE ReceiveResult
    <3>1. Head(chan) \in Messages /\ Tail(chan) \in Seq(Messages) /\ Len(Tail(chan)) <= Capacity
      BY <2>13, Queue, WatchAssumption DEF ReceiveResult, Received, TypeOK
    <3>2. Head(chan).result \in Results
      BY <3>1 DEF Messages
    <3> QED
      BY <2>13, <3>1, <3>2 DEF ReceiveResult, TypeOK
  <2>14. CASE ReceiveExit
    <3>1. Head(chan) \in Messages /\ Tail(chan) \in Seq(Messages) /\ Len(Tail(chan)) <= Capacity
      BY <2>14, Queue, WatchAssumption DEF ReceiveExit, Received, TypeOK
    <3> QED
      BY <2>14, <3>1 DEF ReceiveExit, TypeOK
  <2>15. CASE Return
    BY <2>15 DEF Return, TypeOK
  <2>16. ASSUME NEW c \in Checks, CheckStep(c) PROVE TypeOK'
    <3>1. ASSUME NEW f \in Files, CheckRead(c, f) PROVE TypeOK'
      <4>1. check' \in [Checks -> CheckStates] /\ text' \in [Files -> Versions]
        BY <3>1, <2>0 DEF CheckRead, TypeOK, CheckStates
      <4> QED
        BY <3>1, <4>1 DEF CheckRead, TypeOK
    <3>2. CASE SendResult(c)
      <4>1. [rev |-> check[c].rev, seen |-> check[c].seen, index |-> index, env |-> env] \in Results
        BY DEF TypeOK, Results, CheckStates
      <4>2. chan' \in Seq(Messages) /\ Len(chan') <= Capacity
        <5>1. chan \in Seq(Messages) /\ Len(chan) \in Nat /\ Len(chan) <= Capacity /\ Capacity \in Nat
          BY Queue, WatchAssumption DEF TypeOK
        <5>2. CASE chan' = chan
          BY <5>1, <5>2
        <5>3. CASE chan' # chan
          BY <3>2, <4>1, <5>1, <5>3, Queue, MessageTypes DEF SendResult
        <5> QED
          BY <5>2, <5>3
      <4>3. check' \in [Checks -> CheckStates]
        <5>1. check \in [Checks -> CheckStates] /\ check[c] \in CheckStates
          BY DEF TypeOK
        <5>2. [check[c] EXCEPT !.phase = "send"] \in CheckStates
          BY <5>1 DEF CheckStates
        <5>3. check' = [check EXCEPT ![c] = NoCheck] \/ check' = [check EXCEPT ![c].phase = "send"]
          BY <3>2 DEF SendResult
        <5> QED
          BY <5>1, <5>2, <5>3, MessageTypes
      <4> QED
        BY <3>2, <4>2, <4>3 DEF SendResult, TypeOK
    <3>3. CASE CheckCancelled(c)
      <4>1. check' \in [Checks -> CheckStates]
        BY <3>3, MessageTypes DEF CheckCancelled, TypeOK
      <4> QED
        BY <3>3, <4>1 DEF CheckCancelled, TypeOK
    <3> QED
      BY <2>16, <3>1, <3>2, <3>3 DEF CheckStep
  <2>17. CASE UNCHANGED vars
    BY <2>17 DEF vars, TypeOK
  <2> QED
    BY <2>1, <2>2, <2>3, <2>4, <2>5, <2>6, <2>7, <2>8, <2>9, <2>10, <2>11, <2>12, <2>13, <2>14,
       <2>15, <2>16, <2>17 DEF Next, DebouncerStep, MainStep, Quiet
<1> QED
  BY <1>1, <1>2, PTL DEF Spec

-----------------------------------------------------------------------------
(* No check is forgotten: the invariant is inductive given the types.      *)

\* The elements of a queue.
In(q) == {q[i] : i \in DOMAIN q}

LEMMA QueueElements ==
    ASSUME NEW S, NEW q \in Seq(S)
    PROVE  /\ \A e : In(Append(q, e)) = In(q) \cup {e}
           /\ q # <<>> => In(q) = In(Tail(q)) \cup {Head(q)}
           /\ In(<<>>) = {}
           /\ In(q) \subseteq S
<1>1. ASSUME NEW e PROVE In(Append(q, e)) = In(q) \cup {e}
  <2>1. Len(Append(q, e)) = Len(q) + 1 /\ DOMAIN Append(q, e) = 1 .. Len(q) + 1 /\ DOMAIN q = 1 .. Len(q)
        /\ Len(q) \in Nat
    OBVIOUS
  <2>2. \A i \in 1 .. Len(q) : Append(q, e)[i] = q[i]
    OBVIOUS
  <2>3. Append(q, e)[Len(q) + 1] = e
    OBVIOUS
  <2>4. 1 .. Len(q) + 1 = (1 .. Len(q)) \cup {Len(q) + 1}
    BY <2>1
  <2> QED
    BY <2>1, <2>2, <2>3, <2>4 DEF In
<1>2. ASSUME q # <<>> PROVE In(q) = In(Tail(q)) \cup {Head(q)}
  <2>1. Len(q) \in Nat \ {0} /\ DOMAIN q = 1 .. Len(q) /\ DOMAIN Tail(q) = 1 .. Len(q) - 1
    BY <1>2
  <2>2. \A i \in 1 .. Len(q) - 1 : Tail(q)[i] = q[i + 1]
    BY <1>2
  <2>3. Head(q) = q[1]
    BY <1>2
  <2>4. \A i \in 1 .. Len(q) : i = 1 \/ (i - 1 \in 1 .. Len(q) - 1 /\ (i - 1) + 1 = i)
    BY <2>1
  <2>5. \A i \in 1 .. Len(q) - 1 : i + 1 \in 1 .. Len(q)
    BY <2>1
  <2>6. 1 \in 1 .. Len(q)
    BY <2>1
  <2>7. ASSUME NEW i \in DOMAIN q PROVE q[i] \in In(Tail(q)) \cup {Head(q)}
    <3>1. CASE i = 1
      BY <2>3, <3>1
    <3>2. CASE i # 1
      <4>1. i - 1 \in DOMAIN Tail(q) /\ (i - 1) + 1 = i
        BY <2>1, <2>4, <3>2
      <4>2. Tail(q)[i - 1] = q[i]
        BY <2>1, <2>2, <4>1
      <4> QED
        BY <4>1, <4>2 DEF In
    <3> QED
      BY <3>1, <3>2
  <2>8. In(Tail(q)) \cup {Head(q)} \subseteq In(q)
    BY <2>1, <2>2, <2>3, <2>5, <2>6 DEF In
  <2> QED
    BY <2>7, <2>8 DEF In
<1>3. In(<<>>) = {}
  BY DEF In
<1>4. In(q) \subseteq S
  BY DEF In
<1> QED
  BY <1>1, <1>2, <1>3, <1>4

\* A result of the current revision is on its way.
Underway(m) == m.type = "completed" /\ m.result.rev = revision

\* Under any interleaving of changes, uv results, cancellations and deferred checks, an
\* outdated report has a check that is requested, deferred to uv, running or on its way.
THEOREM NoneForgotten == Spec => []NoCheckForgotten
<1> DEFINE Inv == TypeOK /\ NoCheckForgotten
<1> USE DEF diskVars, watcherVars, batchVars, mainVars, dbVars, uvVars
<1>1. Init => NoCheckForgotten
  BY DEF Init, NoCheckForgotten
<1>2. TypeOK /\ TypeOK' /\ NoCheckForgotten /\ [Next]_vars => NoCheckForgotten'
  <2> SUFFICES ASSUME TypeOK, TypeOK', NoCheckForgotten, [Next]_vars,
                      pc' = "select", report'.rev # revision'
               PROVE  \/ requested'
                      \/ \E t \in Targets : job'[t] # "none"
                      \/ \E c \in Checks : check'[c].phase # "free" /\ check'[c].rev = revision'
                      \/ \E m \in In(chan') : m.type = "completed" /\ m.result.rev = revision'
    BY DEF NoCheckForgotten, In
  <2>0. chan \in Seq(Messages) /\ chan' \in Seq(Messages)
    BY DEF TypeOK
  <2>1. ASSUME pc = "select", report.rev # revision
        PROVE  \/ requested
               \/ \E t \in Targets : job[t] # "none"
               \/ \E c \in Checks : check[c].phase # "free" /\ check[c].rev = revision
               \/ \E m \in In(chan) : Underway(m)
    BY <2>1 DEF NoCheckForgotten, In, Underway
  <2>2. CASE /\ UNCHANGED <<pc, report, revision, requested, job, check>>
             /\ In(chan) \subseteq In(chan')
    BY <2>1, <2>2 DEF Underway
  <2>3. ASSUME NEW p \in Paths, Save(p) PROVE chan' = chan /\ UNCHANGED <<pc, report, revision, requested, job, check>>
    BY <2>3 DEF Save
  <2>4. CASE DebouncerStep
    <3>1. UNCHANGED <<pc, report, revision, requested, job, check>>
      BY <2>4 DEF DebouncerStep, TakeEvent, FlushBatch, EndDebouncer
    <3>2. chan' = chan \/ chan' = Append(chan, Changes(batch))
      BY <2>4 DEF DebouncerStep, TakeEvent, FlushBatch, SendBatch, EndDebouncer
    <3>3. In(Append(chan, Changes(batch))) = In(chan) \cup {Changes(batch)}
      BY <2>0, QueueElements
    <3>4. In(chan) \subseteq In(chan')
      BY <3>2, <3>3
    <3> QED
      BY <2>2, <3>1, <3>4
  <2>5. CASE Interrupt
    BY <2>0, <2>2, <2>5, QueueElements DEF Interrupt
  <2>6. ASSUME NEW t \in Targets, UvStep(t) PROVE \E u \in Targets : job'[u] # "none"
                                  \/ (chan' = chan /\ UNCHANGED <<pc, report, revision, requested, job, check>>)
    <3>1. CASE RunUv(t)
      <4>1. job'[t] = "done"
        BY <3>1 DEF RunUv, TypeOK
      <4> QED
        BY <4>1
    <3>2. CASE WakeUp(t)
      BY <3>2 DEF WakeUp
    <3> QED
      BY <2>6, <3>1, <3>2 DEF UvStep
  <2>7. CASE ReceiveChanges \/ ApplyEvent \/ ReceiveWakeup \/ ReceiveExit \/ Return
    BY <2>7 DEF ReceiveChanges, ApplyEvent, ReceiveWakeup, ReceiveExit, Return
  <2>8. CASE EndApply \/ PollSync
    BY <2>8 DEF EndApply, PollSync, Request
  <2>9. CASE CheckWorkspace
    <3>1. CASE Deferred
      BY <2>9, <3>1 DEF CheckWorkspace, Deferred
    <3>2. CASE ~Deferred
      <4>1. PICK c \in Checks :
              check' = [check EXCEPT ![c] = [NoCheck EXCEPT !.phase = "run", !.rev = revision]]
        BY <2>9, <3>2 DEF CheckWorkspace
      <4>2. check'[c].phase = "run" /\ check'[c].rev = revision
        BY <4>1 DEF TypeOK, NoCheck
      <4> QED
        BY <2>9, <4>2 DEF CheckWorkspace
    <3> QED
      BY <3>1, <3>2
  <2>10. CASE ReceiveResult
    <3>1. pc = "select" /\ UNCHANGED <<revision, requested, job, check>> /\ chan # <<>>
          /\ chan' = Tail(chan)
      BY <2>10 DEF ReceiveResult, Received
    <3>2. report' = report /\ Head(chan).result.rev # revision
      BY <2>10, <3>1 DEF ReceiveResult, Outdated
    <3>3. In(chan) = In(chan') \cup {Head(chan)}
      BY <2>0, <3>1, QueueElements
    <3> QED
      BY <2>1, <3>1, <3>2, <3>3 DEF Underway
  <2>11. ASSUME NEW c \in Checks, CheckStep(c)
         PROVE  \/ requested'
                \/ \E t \in Targets : job'[t] # "none"
                \/ \E d \in Checks : check'[d].phase # "free" /\ check'[d].rev = revision'
                \/ \E m \in In(chan') : m.type = "completed" /\ m.result.rev = revision'
    <3>1. UNCHANGED <<pc, report, revision, requested, job>>
      BY <2>11 DEF CheckStep, CheckRead, SendResult, CheckCancelled
    <3>2. pc = "select" /\ ~Cancels
      BY <3>1 DEF Cancels
    <3>3. CASE \E f \in Files : CheckRead(c, f)
      <4>1. PICK f \in Files : CheckRead(c, f)
        BY <3>3
      <4>2. \A d \in Checks : check'[d].phase = check[d].phase /\ check'[d].rev = check[d].rev
        BY <4>1 DEF CheckRead, TypeOK, CheckStates
      <4>3. chan' = chan
        BY <4>1 DEF CheckRead
      <4> QED
        BY <2>1, <3>1, <3>2, <4>2, <4>3 DEF Underway
    <3>4. CASE SendResult(c)
      <4>1. CASE Len(chan) = Capacity /\ chan' = chan /\ check' = [check EXCEPT ![c].phase = "send"]
        <5>1. \A d \in Checks : (check[d].phase # "free" => check'[d].phase # "free")
                                /\ check'[d].rev = check[d].rev
          BY <4>1 DEF TypeOK, CheckStates
        <5> QED
          BY <2>1, <3>1, <3>2, <4>1, <5>1 DEF Underway
      <4>2. CASE /\ chan' = Append(chan, Completed([rev |-> check[c].rev, seen |-> check[c].seen,
                                                    index |-> index, env |-> env]))
                 /\ check' = [check EXCEPT ![c] = NoCheck]
        <5> DEFINE m == Completed([rev |-> check[c].rev, seen |-> check[c].seen,
                                   index |-> index, env |-> env])
        <5>1. m.type = "completed" /\ m.result.rev = check[c].rev
          BY DEF Completed
        <5> HIDE DEF m
        <5>2. In(chan') = In(chan) \cup {m}
          BY <2>0, <4>2, QueueElements DEF m
        <5>3. \A d \in Checks \ {c} : check'[d] = check[d]
          BY <4>2 DEF TypeOK
        <5> QED
          BY <2>1, <3>1, <3>2, <5>1, <5>2, <5>3 DEF Underway
      <4> QED
        BY <3>4, <4>1, <4>2 DEF SendResult
    <3>5. CASE CheckCancelled(c)
      <4>1. Cancels
        BY <3>5 DEF CheckCancelled
      <4> QED
        BY <3>2, <4>1
    <3> QED
      BY <2>11, <3>3, <3>4, <3>5 DEF CheckStep
  <2>12. CASE UNCHANGED vars
    BY <2>2, <2>12 DEF vars
  <2> QED
    BY <2>2, <2>3, <2>4, <2>5, <2>6, <2>7, <2>8, <2>9, <2>10, <2>11, <2>12 DEF Next, MainStep, Quiet
<1> QED
  BY <1>1, <1>2, TypeCorrect, PTL DEF Spec

-----------------------------------------------------------------------------
(* No check outlives the main loop.                                        *)

\* Without a watcher there is one check at a time, and none beside a result.
AloneInv ==
    ~watch =>
        /\ events = <<>> /\ batch = <<>> /\ pc # "apply"
        /\ \A m \in In(chan) : m.type # "changes"
        /\ requested => Alive = {}
        /\ \A c, d \in Alive : c = d
        /\ (\E m \in In(chan) : m.type = "completed") => Alive = {}

\* The main loop ends when it was interrupted and has waited for the checks, or, without
\* a watcher, with the result of the only one: the unwrap of a check's send never fails.
THEOREM NoneOutlives == Spec => []NoCheckOutlivesLoop
<1> USE DEF diskVars, watcherVars, batchVars, mainVars, dbVars, uvVars
<1> DEFINE Inv == NoCheckOutlivesLoop /\ AloneInv
<1>1. Init => Inv
  <2> SUFFICES ASSUME Init PROVE Inv
    OBVIOUS
  <2>1. Alive = {}
    BY DEF Init, Alive, NoCheck
  <2>2. In(chan) = {}
    BY DEF Init, In
  <2> QED
    BY <2>1, <2>2 DEF Init, NoCheckOutlivesLoop, AloneInv
<1>2. TypeOK /\ Inv /\ [Next]_vars => Inv'
  <2> SUFFICES ASSUME TypeOK, Inv, [Next]_vars PROVE Inv'
    OBVIOUS
  <2>0. chan \in Seq(Messages) /\ (check' = check => Alive' = Alive)
    BY DEF TypeOK, Alive
  <2>1. ASSUME NEW p \in Paths, Save(p) PROVE Inv'
    <3>1. ~watch => events' = <<>>
      BY <2>1 DEF Save, Notified, AloneInv
    <3> QED
      BY <2>0, <2>1, <3>1 DEF Save, NoCheckOutlivesLoop, AloneInv, ReceiverDropped
  <2>2. CASE TakeEvent \/ EndDebouncer
    BY <2>0, <2>2 DEF TakeEvent, EndDebouncer, NoCheckOutlivesLoop, AloneInv, ReceiverDropped
  <2>3. CASE FlushBatch
    BY <2>0, <2>3 DEF FlushBatch, NoCheckOutlivesLoop, AloneInv, ReceiverDropped
  <2>4. CASE Interrupt
    <3>1. In(chan') = In(chan) \cup {Exit}
      BY <2>0, <2>4, QueueElements DEF Interrupt
    <3>2. Exit.type = "exit"
      BY DEF Exit
    <3> QED
      BY <2>0, <2>4, <3>1, <3>2 DEF Interrupt, NoCheckOutlivesLoop, AloneInv, ReceiverDropped
  <2>5. ASSUME NEW t \in Targets, UvStep(t) PROVE Inv'
    BY <2>0, <2>5 DEF UvStep, RunUv, WakeUp, NoCheckOutlivesLoop, AloneInv, ReceiverDropped
  <2>6. CASE ReceiveChanges
    <3>1. Head(chan) \in In(chan)
      BY <2>0, <2>6, QueueElements DEF ReceiveChanges, Received
    <3> QED
      BY <2>6, <3>1 DEF ReceiveChanges, NoCheckOutlivesLoop, AloneInv, ReceiverDropped
  <2>7. CASE ApplyEvent \/ EndApply
    BY <2>7 DEF ApplyEvent, EndApply, NoCheckOutlivesLoop, AloneInv, ReceiverDropped
  <2>8. CASE ReceiveWakeup
    BY <2>0, <2>8 DEF ReceiveWakeup, NoCheckOutlivesLoop, AloneInv, ReceiverDropped
  <2>9. CASE PollSync
    <3>1. Alive = {} /\ pc' = "select" /\ UNCHANGED <<watch, events, batch, chan, check>>
      BY <2>9 DEF PollSync
    <3> QED
      BY <2>0, <3>1 DEF NoCheckOutlivesLoop, AloneInv, ReceiverDropped
  <2>10. CASE CheckWorkspace
    <3>1. /\ pc = "select" /\ requested /\ ~requested' /\ In(chan') = {}
          /\ UNCHANGED <<watch, events, batch, chan, pc>>
      BY <2>10, QueueElements, <2>0 DEF CheckWorkspace
    <3>2. CASE check' = check
      BY <2>0, <3>1, <3>2 DEF NoCheckOutlivesLoop, AloneInv, ReceiverDropped
    <3>3. CASE check' # check
      <4>1. PICK c \in Checks :
              check' = [check EXCEPT ![c] = [NoCheck EXCEPT !.phase = "run", !.rev = revision]]
        BY <2>10, <3>3 DEF CheckWorkspace
      <4>2. Alive' \subseteq Alive \cup {c}
        BY <4>1 DEF Alive, TypeOK
      <4> QED
        BY <3>1, <4>2 DEF NoCheckOutlivesLoop, AloneInv, ReceiverDropped
    <3> QED
      BY <3>2, <3>3
  <2>11. CASE ReceiveResult
    <3>1. In(chan) = In(chan') \cup {Head(chan)} /\ Head(chan).type = "completed"
          /\ UNCHANGED <<watch, events, batch, requested, check>> /\ Alive' = Alive
      BY <2>0, <2>11, QueueElements DEF ReceiveResult, Received
    <3>2. pc = "select" /\ (pc' = pc \/ (~watch /\ pc' = "closed"))
      BY <2>11 DEF ReceiveResult, Received
    <3> QED
      BY <3>1, <3>2 DEF NoCheckOutlivesLoop, AloneInv, ReceiverDropped
  <2>12. CASE ReceiveExit
    <3>1. In(chan) = In(chan') \cup {Head(chan)} /\ pc' = "exit"
          /\ UNCHANGED <<watch, events, batch, requested, check>> /\ Alive' = Alive
      BY <2>0, <2>12, QueueElements DEF ReceiveExit, Received
    <3> QED
      BY <3>1 DEF NoCheckOutlivesLoop, AloneInv, ReceiverDropped
  <2>13. CASE Return
    BY <2>0, <2>13 DEF Return, Cancelled, NoCheckOutlivesLoop, AloneInv, ReceiverDropped
  <2>14. ASSUME NEW c \in Checks, CheckStep(c) PROVE Inv'
    <3>0. UNCHANGED <<watch, events, batch, requested, pc>>
      BY <2>14 DEF CheckStep, CheckRead, SendResult, CheckCancelled
    <3>1. ASSUME chan' = chan, Alive' \subseteq Alive PROVE Inv'
      BY <3>0, <3>1 DEF NoCheckOutlivesLoop, AloneInv, ReceiverDropped
    <3>2. ASSUME NEW f \in Files, CheckRead(c, f) PROVE Inv'
      <4>1. Alive' = Alive /\ chan' = chan
        BY <3>2 DEF CheckRead, Alive, TypeOK, CheckStates
      <4> QED
        BY <3>1, <4>1
    <3>3. CASE SendResult(c) /\ chan' = chan
      <4>1. check' = [check EXCEPT ![c].phase = "send"] /\ check[c].phase = "run"
        <5>1. Len(chan) \in Nat /\ \A m : Len(Append(chan, m)) = Len(chan) + 1
          BY <2>0
        <5> QED
          BY <3>3, <5>1 DEF SendResult
      <4>2. Alive' = Alive
        BY <4>1 DEF Alive, TypeOK, CheckStates
      <4> QED
        BY <3>1, <3>3, <4>2
    <3>4. CASE SendResult(c) /\ chan' # chan
      <4>1. PICK m : m.type = "completed" /\ chan' = Append(chan, m)
        BY <3>4 DEF SendResult, Completed
      <4>2. check' = [check EXCEPT ![c] = NoCheck] /\ c \in Alive
        BY <3>4 DEF SendResult, Alive
      <4>3. Alive' = Alive \ {c}
        BY <4>2 DEF Alive, TypeOK, NoCheck
      <4>4. In(chan') = In(chan) \cup {m}
        BY <2>0, <4>1, QueueElements
      <4> QED
        BY <3>0, <4>1, <4>2, <4>3, <4>4 DEF NoCheckOutlivesLoop, AloneInv, ReceiverDropped
    <3>5. CASE CheckCancelled(c)
      <4>1. Alive' \subseteq Alive /\ chan' = chan
        BY <3>5 DEF CheckCancelled, Alive, TypeOK, NoCheck
      <4> QED
        BY <3>1, <4>1
    <3> QED
      BY <2>14, <3>2, <3>3, <3>4, <3>5 DEF CheckStep
  <2>15. CASE UNCHANGED vars
    BY <2>0, <2>15 DEF vars, NoCheckOutlivesLoop, AloneInv, ReceiverDropped
  <2> QED
    BY <2>1, <2>2, <2>3, <2>4, <2>5, <2>6, <2>7, <2>8, <2>9, <2>10, <2>11, <2>12, <2>13, <2>14,
       <2>15 DEF Next, MainStep, DebouncerStep, Quiet
<1> QED
  BY <1>1, <1>2, TypeCorrect, PTL DEF Spec

-----------------------------------------------------------------------------
(* What is printed is fresh.  A result of the current revision, wherever   *)
(* it is, agrees with the database, because whatever writes the database   *)
(* has raised the revision.                                                *)

\* What has been read is never older than what the database knows of.
ReadsNotOld ==
    \A f \in Files : /\ stat[f] <= disk[f] /\ disk[f] # None
                     /\ text[f] = None \/ text[f] >= stat[f]
                     /\ stat[f] = None => text[f] = None /\ f \notin index

\* No result is of a later revision, nor of this one while a change is applied.
Earlier(r) == IF pc = "apply" THEN r < revision ELSE r <= revision

RevisionsPast ==
    /\ revision > 0
    /\ \A c \in Checks : Earlier(check[c].rev)
    /\ \A m \in In(chan) : m.type = "completed" => Earlier(m.result.rev)

\* A script the project has is either synchronized, or that is under way, or its request
\* is still to be made at the end of the changes that are applied.
Covered(s) ==
    \/ job[s] = "none" /\ env[s] = stat[s]
    \/ job[s] # "none" /\ key[s] = stat[s]
    \/ pc = "apply" /\ (walk \/ s \in changed)

ScriptsCovered == uv => \A s \in index \cap Scripts : Exists(stat[s]) => Covered(s)

ScriptsSettled == uv => \A s \in index \cap Scripts : Exists(stat[s]) => env[s] = stat[s]

\* The checks of the current revision have read nothing that is outdated.
ChecksFresh ==
    \A c \in Checks : check[c].phase # "free" /\ check[c].rev = revision =>
        /\ \A f \in Files : check[c].seen[f] = None \/ check[c].seen[f] >= stat[f]
        /\ ScriptsSettled

ResultsFresh ==
    \A m \in In(chan) : m.type = "completed" /\ m.result.rev = revision => Fresh(m.result)

FreshInv == ReadsNotOld /\ RevisionsPast /\ ScriptsCovered /\ ChecksFresh /\ ResultsFresh

\* A step that neither writes the database nor sends a result keeps all of it.
LEMMA FreshStutter ==
    ASSUME TypeOK, FreshInv,
           UNCHANGED <<stat, text, index, env, revision, job, key, check, uv, walk, changed>>,
           pc = "apply" <=> pc' = "apply",
           \A f \in Files : disk'[f] \in Nat /\ disk'[f] >= disk[f],
           \A m \in In(chan') : m \in In(chan) \/ m.type # "completed"
    PROVE  FreshInv'
<1>1. \A f \in Files : stat[f] \in Nat /\ disk[f] \in Nat
  BY DEF TypeOK, Versions, Paths
<1>2. ReadsNotOld'
  BY <1>1 DEF FreshInv, ReadsNotOld, None
<1>3. RevisionsPast'
  BY DEF FreshInv, RevisionsPast, Earlier
<1>4. ScriptsCovered'
  BY DEF FreshInv, ScriptsCovered, Covered
<1>5. ChecksFresh'
  BY DEF FreshInv, ChecksFresh, ScriptsSettled
<1>6. ResultsFresh'
  BY DEF FreshInv, ResultsFresh, Fresh
<1> QED
  BY <1>2, <1>3, <1>4, <1>5, <1>6 DEF FreshInv

LEMMA RevisionTypes ==
    ASSUME TypeOK
    PROVE  /\ revision \in Nat
           /\ \A c \in Checks : check[c].rev \in Nat
           /\ \A m \in In(chan) : m \in Messages /\ m.result \in Results /\ m.result.rev \in Nat
<1>1. chan \in Seq(Messages)
  BY DEF TypeOK
<1>2. In(chan) \subseteq Messages
  BY <1>1, QueueElements
<1>3. \A m \in Messages : m.result \in Results
  BY DEF Messages
<1>4. \A r \in Results : r.rev \in Nat
  BY DEF Results
<1>5. revision \in Nat /\ \A c \in Checks : check[c].rev \in Nat
  BY DEF TypeOK, CheckStates
<1> QED
  BY <1>2, <1>3, <1>4, <1>5

\* While a change is applied no check and no result is of the current revision.
LEMMA NoneCurrent ==
    ASSUME TypeOK, TypeOK', RevisionsPast, pc = "apply", UNCHANGED <<revision, check, chan>>
    PROVE  RevisionsPast' /\ ChecksFresh' /\ ResultsFresh'
<1> QED
  BY RevisionTypes DEF RevisionsPast, Earlier, ChecksFresh, ResultsFresh

\* A request leaves every script it is for covered, and the others as they were.
LEMMA RequestCovers ==
    ASSUME TypeOK, uv, NEW S \in SUBSET Scripts, NEW p, NEW j, NEW a, RequestSync(S, p, j, a),
           NEW s \in Scripts
    PROVE  /\ s \in S /\ Exists(stat'[s]) =>
                 \/ job'[s] = "none" /\ env'[s] = stat'[s]
                 \/ job'[s] # "none" /\ key'[s] = stat'[s]
           /\ s \notin S => job'[s] = j[s] /\ key'[s] = key[s]
<1> DEFINE asked == {x \in S : Exists(stat'[x])} \cup (IF p THEN {Config} ELSE {})
           start == {t \in asked : j[t] = "none" /\ (t # Config => env'[t] # stat'[t])}
           follow == {t \in asked : j[t] # "none" /\ (t # Config => key[t] # stat'[t])}
<1>1. s # Config /\ s \in Targets
  BY WatchAssumption DEF Targets
<1>2. /\ job' = [t \in Targets |-> IF t \in start THEN "run" ELSE j[t]]
      /\ key' = [t \in Targets |-> IF t \in (start \cup follow) \ {Config} THEN stat'[t] ELSE key[t]]
  BY DEF RequestSync
<1>3. s \in asked <=> s \in S /\ Exists(stat'[s])
  BY <1>1
<1>4. s \in start <=> s \in asked /\ j[s] = "none" /\ env'[s] # stat'[s]
  BY <1>1
<1>5. s \in follow <=> s \in asked /\ j[s] # "none" /\ key[s] # stat'[s]
  BY <1>1
<1> HIDE DEF asked, start, follow
<1>6. job'[s] = (IF s \in start THEN "run" ELSE j[s])
      /\ key'[s] = (IF s \in start \cup follow THEN stat'[s] ELSE key[s])
  BY <1>1, <1>2
<1> QED
  BY <1>3, <1>4, <1>5, <1>6

LEMMA WalkReads ==
    ASSUME TypeOK, ReadsNotOld, NEW b \in BOOLEAN, WalkIf(b), UNCHANGED <<disk, text>>
    PROVE  ReadsNotOld' /\ (~b => UNCHANGED <<index, stat>>)
<1>1. \A f \in Files : stat[f] \in Nat /\ disk[f] \in Nat /\ text[f] \in Nat
  BY DEF TypeOK, Versions, Paths
<1>2. Walked \subseteq Files
  BY DEF Walked
<1>3. ASSUME ~b PROVE UNCHANGED <<index, stat>>
  <2>1. index' = index /\ stat' = [f \in Files |-> stat[f]]
    BY <1>3 DEF WalkIf
  <2> QED
    BY <2>1 DEF TypeOK
<1>4. ReadsNotOld'
  BY <1>1, <1>2 DEF ReadsNotOld, WalkIf, None
<1> QED
  BY <1>3, <1>4

\* One event of a batch: what changes is covered by the requests at its end.
LEMMA ApplyEventFresh ==
    ASSUME TypeOK, TypeOK', FreshInv, ApplyEvent
    PROVE  FreshInv'
<1> USE DEF diskVars, watcherVars, batchVars, mainVars, dbVars, uvVars
<1>1. /\ pc = "apply" /\ pc' = "apply"
      /\ UNCHANGED <<disk, revision, check, chan, env, job, key, uv>>
  BY DEF ApplyEvent
<1>2. RevisionsPast' /\ ChecksFresh' /\ ResultsFresh'
  BY <1>1, NoneCurrent DEF FreshInv
<1>3. \A f \in Files : stat[f] \in Nat /\ disk[f] \in Nat /\ text[f] \in Nat
  BY DEF TypeOK, Versions, Paths
<1>4. ~Exists(None)
  BY DEF Exists, None
<1>5. CASE ApplyRescan
  <2>1. ReadsNotOld'
    BY <1>1, <1>3, <1>5 DEF ApplyRescan, FreshInv, ReadsNotOld, Synced, None
  <2>2. ScriptsCovered'
    BY <1>1, <1>5 DEF ApplyRescan, ScriptsCovered, Covered
  <2> QED
    BY <1>2, <2>1, <2>2 DEF FreshInv
<1>6. ASSUME NEW e \in Events, e.path \in Files, ApplyFile(e) PROVE FreshInv'
  <2> DEFINE f == e.path
             now == IF Joins(e) /\ stat[f] = None THEN disk[f] ELSE SyncedOnce(f)
  <2>1. /\ stat' = [stat EXCEPT ![f] = now] /\ UNCHANGED walk
        /\ text' = [text EXCEPT ![f] = IF now = stat[f] /\ text[f] # None THEN text[f]
                                       ELSE IF Joins(e) THEN disk[f] ELSE None]
        /\ changed' = IF Joins(e) THEN changed \cup {f} ELSE changed
        /\ index' = CASE e.kind = "deleted" -> index \ {f}
                      [] Joins(e) -> index \cup {f}
                      [] OTHER -> index
    BY <1>6 DEF ApplyFile
  <2>2. now \in Nat /\ now <= disk[f] /\ (now = None => ~Joins(e) /\ stat[f] = None)
    BY <1>3, <1>6 DEF FreshInv, ReadsNotOld, Synced, SyncedOnce, None
  <2>3. Joins(e) => e.kind # "deleted"
    BY DEF Joins
  <2>4. ReadsNotOld'
    <3>1. ASSUME NEW g \in Files, g # f
          PROVE  stat'[g] = stat[g] /\ text'[g] = text[g] /\ (g \in index' => g \in index)
      BY <2>1, <3>1 DEF TypeOK
    <3>2. stat'[f] = now /\ text'[f] = IF now = stat[f] /\ text[f] # None THEN text[f]
                                       ELSE IF Joins(e) THEN disk[f] ELSE None
      BY <1>6, <2>1 DEF TypeOK
    <3>3. ~Joins(e) /\ f \in index' => f \in index
      BY <2>1
    <3> QED
      BY <1>1, <1>3, <1>6, <2>2, <3>1, <3>2, <3>3 DEF FreshInv, ReadsNotOld, None
  <2>5. ASSUME uv, NEW s \in index' \cap Scripts, Exists(stat'[s]) PROVE Covered(s)'
    <3>1. CASE s # f
      BY <1>1, <2>1, <2>5, <3>1 DEF FreshInv, ScriptsCovered, Covered, TypeOK
    <3>2. CASE s = f /\ Joins(e)
      BY <1>1, <2>1, <3>2 DEF Covered
    <3>3. CASE s = f /\ ~Joins(e)
      <4>1. e.kind # "deleted" /\ stat'[f] = SyncedOnce(f) /\ f \in index
        BY <1>6, <2>1, <2>5, <3>3 DEF TypeOK
      <4>2. stat[f] # None /\ Exists(SyncedOnce(f))
        BY <1>4, <2>5, <3>3, <4>1 DEF Synced, SyncedOnce
      <4>3. stat'[f] = stat[f]
        BY <3>3, <4>1, <4>2 DEF Joins, Synced, SyncedOnce
      <4>4. Covered(f)
        BY <2>5, <3>3, <4>1, <4>3 DEF FreshInv, ScriptsCovered
      <4> QED
        BY <1>1, <2>1, <3>3, <4>3, <4>4 DEF Covered
    <3> QED
      BY <3>1, <3>2, <3>3
  <2> QED
    BY <1>1, <1>2, <2>4, <2>5 DEF FreshInv, ScriptsCovered
<1>7. CASE UNCHANGED <<changed, walk, stat, text, index>>
  BY <1>1, <1>7, FreshStutter, <1>3
<1>8. Head(todo) \in Events
  BY Queue DEF ApplyEvent, TypeOK
<1> QED
  BY <1>5, <1>6, <1>7, <1>8 DEF ApplyEvent

LEMMA EndApplyFresh ==
    ASSUME TypeOK, TypeOK', FreshInv, EndApply
    PROVE  FreshInv'
<1> USE DEF diskVars, watcherVars, batchVars, mainVars, dbVars, uvVars
<1>1. /\ pc = "apply" /\ pc' = "select"
      /\ UNCHANGED <<disk, revision, check, chan, text, uv>>
  BY DEF EndApply
<1>2. RevisionsPast' /\ ChecksFresh' /\ ResultsFresh'
  BY <1>1, NoneCurrent DEF FreshInv
<1>3. PICK filesChanged \in BOOLEAN :
        /\ WalkIf(walk \/ filesChanged)
        /\ env' = IF reload /\ ~uv THEN [env EXCEPT ![Config] = disk[Config]] ELSE env
        /\ RequestSync(IF walk \/ filesChanged THEN index' \cap Scripts
                                               ELSE changed \cap index \cap Scripts,
                       reload, job, again)
  BY DEF EndApply
<1>4. ReadsNotOld' /\ (~(walk \/ filesChanged) => UNCHANGED <<index, stat>>)
  BY <1>1, <1>3, WalkReads DEF FreshInv, TypeOK
<1>5. ASSUME uv, NEW s \in index' \cap Scripts, Exists(stat'[s]) PROVE Covered(s)'
  <2>1. env'[s] = env[s]
    BY <1>3, <1>5
  <2>2. CASE walk \/ filesChanged
    BY <1>3, <1>5, <2>2, RequestCovers DEF Covered
  <2>3. CASE ~(walk \/ filesChanged) /\ s \in changed
    BY <1>3, <1>4, <1>5, <2>3, RequestCovers DEF Covered
  <2>4. CASE ~(walk \/ filesChanged) /\ s \notin changed
    <3>1. job'[s] = job[s] /\ key'[s] = key[s]
      BY <1>3, <1>5, <2>4, RequestCovers
    <3> QED
      BY <1>4, <1>5, <2>1, <2>4, <3>1 DEF FreshInv, ScriptsCovered, Covered
  <2> QED
    BY <2>2, <2>3, <2>4
<1> QED
  BY <1>1, <1>2, <1>4, <1>5 DEF FreshInv, ScriptsCovered

LEMMA PollSyncFresh ==
    ASSUME TypeOK, TypeOK', FreshInv, PollSync
    PROVE  FreshInv'
<1> USE DEF diskVars, watcherVars, batchVars, mainVars, dbVars, uvVars
<1> DEFINE done == {t \in Targets : job[t] = "done"}
           wanted == done \ again
           jobs == [t \in Targets |-> IF t \in wanted THEN "none"
                                      ELSE IF t \in done THEN "run" ELSE job[t]]
<1>1. /\ pc = "poll" /\ pc' = "select"
      /\ UNCHANGED <<disk, check, chan, text, uv, walk, changed>>
      /\ revision' = IF wanted = {} THEN revision ELSE revision + 1
      /\ env' = [t \in Targets |-> IF t \notin wanted THEN env[t]
                                   ELSE IF t = Config THEN disk[t] ELSE key[t]]
  BY DEF PollSync, NextRevision
<1>2. PICK filesChanged \in (IF Config \in wanted THEN BOOLEAN ELSE {FALSE}) :
        /\ WalkIf(filesChanged)
        /\ RequestSync(IF filesChanged THEN index' \cap Scripts ELSE {}, FALSE, jobs, again \ done)
  BY DEF PollSync
<1>3. filesChanged \in BOOLEAN /\ (filesChanged => wanted # {})
  BY <1>2
<1>4. ReadsNotOld' /\ (~filesChanged => UNCHANGED <<index, stat>>)
  BY <1>1, <1>2, <1>3, WalkReads DEF FreshInv
<1>5. ASSUME uv, NEW s \in index' \cap Scripts, Exists(stat'[s]) PROVE Covered(s)'
  <2>1. s \in Targets /\ s # Config
    BY <1>5, WatchAssumption DEF Targets
  <2>2. CASE filesChanged
    BY <1>2, <1>5, <2>2, RequestCovers DEF Covered
  <2>3. CASE ~filesChanged
    <3>1. job'[s] = jobs[s] /\ key'[s] = key[s]
      <4> HIDE DEF jobs, done
      <4>1. RequestSync({}, FALSE, jobs, again \ done)
        BY <1>2, <2>3
      <4>2. {} \in SUBSET Scripts /\ s \in Scripts /\ s \notin {}
        BY <1>5
      <4> HIDE DEF wanted
      <4> QED
        BY <1>5, <4>1, <4>2, RequestCovers
    <3>2. (job[s] = "none" /\ env[s] = stat[s]) \/ (job[s] # "none" /\ key[s] = stat[s])
      BY <1>1, <1>4, <1>5, <2>3 DEF FreshInv, ScriptsCovered, Covered
    <3>3. jobs[s] = IF s \in wanted THEN "none" ELSE IF s \in done THEN "run" ELSE job[s]
      BY <2>1
    <3>4. env'[s] = IF s \in wanted THEN key[s] ELSE env[s]
      BY <1>1, <2>1
    <3>5. s \in done => job[s] = "done"
      OBVIOUS
    <3>6. stat'[s] = stat[s]
      BY <1>4, <2>3
    <3> HIDE DEF jobs, done
    <3> QED
      BY <3>1, <3>2, <3>3, <3>4, <3>5, <3>6 DEF Covered
  <2> QED
    BY <1>3, <2>2, <2>3
<1>6. ScriptsCovered'
  BY <1>1, <1>5 DEF ScriptsCovered
<1>7. revision \in Nat /\ (\A c \in Checks : check[c].rev \in Nat) /\ \A m \in In(chan) : m.result.rev \in Nat
  BY RevisionTypes
<1>8. RevisionsPast'
  <2>1. revision' \in Nat /\ revision' >= revision
    BY <1>1, <1>7
  <2> QED
    BY <1>1, <1>7, <2>1 DEF FreshInv, RevisionsPast, Earlier
<1>9. CASE wanted # {}
  <2>1. ChecksFresh' /\ ResultsFresh'
    BY <1>1, <1>7, <1>9 DEF FreshInv, RevisionsPast, Earlier, ChecksFresh, ResultsFresh
  <2> QED
    BY <1>4, <1>6, <1>8, <2>1 DEF FreshInv
<1>10. CASE wanted = {}
  <2>1. env' = [t \in Targets |-> env[t]] /\ UNCHANGED <<index, stat, revision>>
    BY <1>1, <1>3, <1>4, <1>10
  <2>2. env' = env
    BY <2>1 DEF TypeOK
  <2>3. ChecksFresh' /\ ResultsFresh'
    BY <1>1, <2>1, <2>2 DEF FreshInv, ChecksFresh, ResultsFresh, ScriptsSettled, Fresh
  <2> QED
    BY <1>4, <1>6, <1>8, <2>3 DEF FreshInv
<1> QED
  BY <1>9, <1>10

\* A check that is started finds every script settled: none is under way.
LEMMA CheckWorkspaceFresh ==
    ASSUME TypeOK, TypeOK', FreshInv, CheckWorkspace
    PROVE  FreshInv'
<1> USE DEF diskVars, watcherVars, batchVars, mainVars, dbVars, uvVars
<1>1. /\ pc = "select" /\ pc' = "select"
      /\ UNCHANGED <<disk, stat, text, index, env, revision, job, key, uv, walk, changed, chan>>
  BY DEF CheckWorkspace
<1>2. CASE UNCHANGED check
  BY <1>1, <1>2, FreshStutter DEF TypeOK, Versions, Paths
<1>3. CASE ~Deferred /\ \E c \in Checks :
             check' = [check EXCEPT ![c] = [NoCheck EXCEPT !.phase = "run", !.rev = revision]]
  <2>1. PICK c \in Checks :
            check' = [check EXCEPT ![c] = [NoCheck EXCEPT !.phase = "run", !.rev = revision]]
    BY <1>3
  <2>2. /\ check'[c].rev = revision /\ \A f \in Files : check'[c].seen[f] = None
        /\ \A d \in Checks : d # c => check'[d] = check[d]
    BY <2>1 DEF TypeOK, NoCheck
  <2>3. ScriptsSettled
    <3>1. \A s \in Scripts : s \in Targets /\ job[s] = "none"
      BY <1>3 DEF Deferred, Targets
    <3> QED
      BY <1>1, <3>1 DEF FreshInv, ScriptsCovered, Covered, ScriptsSettled
  <2>4. ReadsNotOld' /\ ScriptsCovered' /\ ResultsFresh' /\ ScriptsSettled'
    BY <1>1, <2>3 DEF FreshInv, ReadsNotOld, ScriptsCovered, Covered, ResultsFresh, Fresh,
                      ScriptsSettled
  <2>5. RevisionsPast'
    BY <1>1, <2>2, RevisionTypes DEF FreshInv, RevisionsPast, Earlier
  <2>6. ChecksFresh'
    BY <1>1, <2>2, <2>4 DEF FreshInv, ChecksFresh
  <2> QED
    BY <2>4, <2>5, <2>6 DEF FreshInv
<1> QED
  BY <1>2, <1>3 DEF CheckWorkspace

\* A file is read at a version that is not older than what the database knows of.
LEMMA CheckReadFresh ==
    ASSUME TypeOK, FreshInv, NEW c \in Checks, NEW f \in Files, CheckRead(c, f)
    PROVE  FreshInv'
<1> USE DEF diskVars, watcherVars, batchVars, mainVars, dbVars, uvVars
<1> DEFINE v == IF text[f] = None THEN disk[f] ELSE text[f]
<1>1. /\ UNCHANGED <<disk, pc, stat, index, env, revision, job, key, uv, walk, changed, chan>>
      /\ text' = [text EXCEPT ![f] = v] /\ check' = [check EXCEPT ![c].seen[f] = v]
      /\ f \in index
  BY DEF CheckRead
<1>2. \A g \in Files : stat[g] \in Nat /\ disk[g] \in Nat /\ text[g] \in Nat
  BY DEF TypeOK, Versions, Paths
<1>3. v \in Nat /\ v >= stat[f] /\ stat[f] # None
  BY <1>1, <1>2 DEF FreshInv, ReadsNotOld, None
<1> HIDE DEF v
<1>4. /\ text'[f] = v /\ \A g \in Files : g # f => text'[g] = text[g]
  BY <1>1 DEF TypeOK
<1>5. /\ \A d \in Checks : check'[d].rev = check[d].rev /\ check'[d].phase = check[d].phase
      /\ \A d \in Checks, g \in Files : check'[d].seen[g] = check[d].seen[g] \/ (g = f /\ check'[d].seen[g] = v)
  BY <1>1 DEF TypeOK, CheckStates
<1>6. ReadsNotOld'
  BY <1>1, <1>3, <1>4 DEF FreshInv, ReadsNotOld
<1>7. RevisionsPast' /\ ScriptsCovered' /\ ResultsFresh'
  BY <1>1, <1>5 DEF FreshInv, RevisionsPast, Earlier, ScriptsCovered, Covered, ResultsFresh, Fresh
<1>8. ChecksFresh'
  BY <1>1, <1>3, <1>5 DEF FreshInv, ChecksFresh, ScriptsSettled
<1> QED
  BY <1>6, <1>7, <1>8 DEF FreshInv

\* A check that has read every file sends a result that is fresh, if it is of the current
\* revision.
LEMMA SendResultFresh ==
    ASSUME TypeOK, TypeOK', FreshInv, NEW c \in Checks, SendResult(c)
    PROVE  FreshInv'
<1> USE DEF diskVars, watcherVars, batchVars, mainVars, dbVars, uvVars
<1>1. UNCHANGED <<disk, pc, stat, text, index, env, revision, job, key, uv, walk, changed>>
  BY DEF SendResult
<1>2. ReadsNotOld' /\ ScriptsCovered'
  BY <1>1 DEF FreshInv, ReadsNotOld, ScriptsCovered, Covered
<1>3. CASE UNCHANGED chan /\ check' = [check EXCEPT ![c].phase = "send"] /\ check[c].phase = "run"
  <2>1. \A d \in Checks : /\ check'[d].rev = check[d].rev /\ check'[d].seen = check[d].seen
                          /\ check'[d].phase # "free" => check[d].phase # "free"
    BY <1>3 DEF TypeOK, CheckStates
  <2>2. RevisionsPast' /\ ResultsFresh'
    BY <1>1, <1>3, <2>1 DEF FreshInv, RevisionsPast, Earlier, ResultsFresh, Fresh
  <2>3. ChecksFresh'
    BY <1>1, <2>1 DEF FreshInv, ChecksFresh, ScriptsSettled
  <2> QED
    BY <1>2, <2>2, <2>3 DEF FreshInv
<1> DEFINE r == [rev |-> check[c].rev, seen |-> check[c].seen, index |-> index, env |-> env]
           m == Completed(r)
<1>4. CASE chan' = Append(chan, m) /\ check' = [check EXCEPT ![c] = NoCheck]
  <2>1. m.type = "completed" /\ m.result = r
    BY DEF Completed
  <2>2. m.result.rev = check[c].rev /\ In(chan') = In(chan) \cup {m}
    <3>1. chan \in Seq(Messages)
      BY DEF TypeOK
    <3> HIDE DEF m
    <3>2. In(chan') = In(chan) \cup {m}
      BY <1>4, <3>1, QueueElements
    <3> QED
      BY <2>1, <3>2
  <2>3. check[c].rev = revision => Fresh(r)
    <3>1. check[c].phase # "free" /\ \A f \in index : f \in Files /\ check[c].seen[f] # None
      BY DEF SendResult, TypeOK
    <3> QED
      BY <3>1 DEF FreshInv, ChecksFresh, ScriptsSettled, Fresh
  <2>4. \A d \in Checks : check'[d] = check[d] \/ (check'[d].phase = "free" /\ check'[d].rev = 0)
    BY <1>4 DEF TypeOK, NoCheck
  <2> HIDE DEF m, r
  <2>5. RevisionsPast'
    BY <1>1, <2>2, <2>4, RevisionTypes DEF FreshInv, RevisionsPast, Earlier
  <2>6. ChecksFresh'
    BY <1>1, <2>4 DEF FreshInv, ChecksFresh, ScriptsSettled
  <2>7. ResultsFresh'
    BY <1>1, <2>1, <2>2, <2>3 DEF FreshInv, ResultsFresh, Fresh
  <2> QED
    BY <1>2, <2>5, <2>6, <2>7 DEF FreshInv
<1> QED
  BY <1>3, <1>4 DEF SendResult

LEMMA RunUvFresh ==
    ASSUME TypeOK, FreshInv, NEW t \in Targets, RunUv(t)
    PROVE  FreshInv'
<1> USE DEF diskVars, watcherVars, batchVars, mainVars, dbVars, uvVars
<1>1. /\ UNCHANGED <<disk, pc, stat, text, index, env, revision, key, uv, walk, changed, chan, check>>
      /\ job' = [job EXCEPT ![t] = "done"] /\ job[t] = "run"
  BY DEF RunUv
<1>2. \A s \in Scripts : s \in Targets /\ (job'[s] = "none" <=> job[s] = "none")
  BY <1>1 DEF TypeOK, Targets
<1>3. ScriptsCovered'
  BY <1>1, <1>2 DEF FreshInv, ScriptsCovered, Covered
<1> QED
  BY <1>1, <1>3 DEF FreshInv, ReadsNotOld, RevisionsPast, Earlier, ChecksFresh, ScriptsSettled,
                    ResultsFresh, Fresh

\* A new revision outdates every check and every result at once.
LEMMA ReceiveChangesFresh ==
    ASSUME TypeOK, TypeOK', FreshInv, ReceiveChanges
    PROVE  FreshInv'
<1> USE DEF diskVars, watcherVars, batchVars, mainVars, dbVars, uvVars
<1>1. /\ UNCHANGED <<disk, stat, text, index, env, job, key, uv, walk, changed, check>>
      /\ pc = "select" /\ pc' = "apply" /\ revision' = revision + 1 /\ chan # <<>> /\ chan' = Tail(chan)
  BY DEF ReceiveChanges, Received, NextRevision
<1>2. In(chan') \subseteq In(chan)
  BY <1>1, QueueElements DEF TypeOK
<1>3. ReadsNotOld' /\ ScriptsCovered'
  BY <1>1 DEF FreshInv, ReadsNotOld, ScriptsCovered, Covered
<1>4. RevisionsPast'
  BY <1>1, <1>2, RevisionTypes DEF FreshInv, RevisionsPast, Earlier
<1>5. ChecksFresh' /\ ResultsFresh'
  BY <1>1, <1>2, RevisionTypes DEF FreshInv, RevisionsPast, Earlier, ChecksFresh, ResultsFresh
<1> QED
  BY <1>3, <1>4, <1>5 DEF FreshInv

LEMMA CheckCancelledFresh ==
    ASSUME TypeOK, FreshInv, NEW c \in Checks, CheckCancelled(c)
    PROVE  FreshInv'
<1> USE DEF diskVars, watcherVars, batchVars, mainVars, dbVars, uvVars
<1>1. UNCHANGED <<disk, pc, stat, text, index, env, revision, job, key, uv, walk, changed, chan>>
  BY DEF CheckCancelled
<1>2. \A d \in Checks : check'[d] = check[d] \/ (check'[d].phase = "free" /\ check'[d].rev = 0)
  BY DEF CheckCancelled, TypeOK, NoCheck
<1>3. RevisionsPast' /\ ChecksFresh'
  BY <1>1, <1>2, RevisionTypes DEF FreshInv, RevisionsPast, Earlier, ChecksFresh, ScriptsSettled
<1> QED
  BY <1>1, <1>3 DEF FreshInv, ReadsNotOld, ScriptsCovered, Covered, ResultsFresh, Fresh

\* The revision is enough: what CheckCompleted prints is always what the database has, for
\* any number of files, scripts, checks, events and saves.
THEOREM FreshPrints == Spec => PrintsFresh
<1> USE DEF diskVars, watcherVars, batchVars, mainVars, dbVars, uvVars
<1>1. Init => FreshInv
  <2> SUFFICES ASSUME Init PROVE FreshInv
    OBVIOUS
  <2>1. /\ pc = "select" /\ revision = 1 /\ chan = <<>> /\ check = [c \in Checks |-> NoCheck]
        /\ \A f \in Files : /\ stat[f] = IF Exists(disk[f]) THEN disk[f] ELSE None
                            /\ text[f] = None /\ disk[f] \in {2, 3}
                            /\ f \in index <=> Exists(disk[f])
    BY DEF Init, Paths
  <2>2. ReadsNotOld
    BY <2>1 DEF ReadsNotOld, None
  <2>3. RevisionsPast
    BY <2>1 DEF RevisionsPast, Earlier, NoCheck, In
  <2>4. ScriptsCovered
    BY <2>1, WatchAssumption DEF ScriptsCovered, Covered, Init, Targets
  <2>5. ChecksFresh /\ ResultsFresh
    BY <2>1 DEF ChecksFresh, ResultsFresh, NoCheck, In
  <2> QED
    BY <2>2, <2>3, <2>4, <2>5 DEF FreshInv
<1>2. TypeOK /\ TypeOK' /\ FreshInv /\ [Next]_vars => FreshInv'
  <2> SUFFICES ASSUME TypeOK, TypeOK', FreshInv, [Next]_vars PROVE FreshInv'
    OBVIOUS
  <2>1. \A f \in Files : disk[f] \in Nat /\ disk'[f] \in Nat
    BY DEF TypeOK, Versions, Paths
  <2>2. chan \in Seq(Messages)
    BY DEF TypeOK
  <2>3. chan # <<>> => In(Tail(chan)) \subseteq In(chan)
    BY <2>2, QueueElements
  <2>4. ASSUME NEW p \in Paths, Save(p) PROVE FreshInv'
    <3>1. \A f \in Files : disk'[f] >= disk[f]
      <4>1. disk \in [Paths -> Nat] /\ disk[p] \in Nat
        BY DEF TypeOK, Versions
      <4>2. disk' = [disk EXCEPT ![p] = disk[p] + 2] \/ disk' = [disk EXCEPT ![p] = disk[p] + 1]
        BY <2>4 DEF Save
      <4> QED
        BY <2>1, <4>1, <4>2 DEF Paths
    <3> QED
      BY <2>1, <2>4, <3>1, FreshStutter DEF Save
  <2>5. CASE TakeEvent \/ EndDebouncer
    BY <2>1, <2>5, FreshStutter DEF TakeEvent, EndDebouncer
  <2>6. CASE FlushBatch
    <3>1. CASE chan' = chan
      BY <2>1, <2>6, <3>1, FreshStutter DEF FlushBatch
    <3>2. CASE chan' = Append(chan, Changes(batch))
      <4>1. In(chan') = In(chan) \cup {Changes(batch)}
        BY <2>2, <3>2, QueueElements
      <4>2. Changes(batch).type = "changes"
        BY DEF Changes
      <4> QED
        BY <2>1, <2>6, <4>1, <4>2, FreshStutter DEF FlushBatch
    <3> QED
      BY <2>6, <3>1, <3>2 DEF FlushBatch, SendBatch
  <2>7. CASE Interrupt
    <3>1. In(chan') = In(chan) \cup {Exit}
      BY <2>2, <2>7, QueueElements DEF Interrupt
    <3>2. Exit.type = "exit"
      BY DEF Exit
    <3> QED
      BY <2>1, <2>7, <3>1, <3>2, FreshStutter DEF Interrupt
  <2>8. ASSUME NEW t \in Targets, UvStep(t) PROVE FreshInv'
    <3>1. CASE RunUv(t)
      BY <3>1, RunUvFresh
    <3>2. CASE WakeUp(t)
      BY <2>1, <3>2, FreshStutter DEF WakeUp
    <3> QED
      BY <2>8, <3>1, <3>2 DEF UvStep
  <2>9. CASE ReceiveChanges
    BY <2>9, ReceiveChangesFresh
  <2>10. CASE ApplyEvent
    BY <2>10, ApplyEventFresh
  <2>11. CASE EndApply
    BY <2>11, EndApplyFresh
  <2>12. CASE ReceiveWakeup
    BY <2>1, <2>12, FreshStutter DEF ReceiveWakeup
  <2>13. CASE PollSync
    BY <2>13, PollSyncFresh
  <2>14. CASE CheckWorkspace
    BY <2>14, CheckWorkspaceFresh
  <2>15. CASE ReceiveResult \/ ReceiveExit
    <3>1. /\ UNCHANGED <<disk, stat, text, index, env, revision, job, key, check, uv, walk, changed>>
          /\ pc # "apply" /\ pc' # "apply" /\ chan # <<>> /\ chan' = Tail(chan)
      BY <2>15 DEF ReceiveResult, ReceiveExit, Received
    <3> QED
      BY <2>1, <2>3, <3>1, FreshStutter
  <2>16. CASE Return
    BY <2>1, <2>16, FreshStutter DEF Return
  <2>17. ASSUME NEW c \in Checks, CheckStep(c) PROVE FreshInv'
    BY <2>17, CheckReadFresh, SendResultFresh, CheckCancelledFresh DEF CheckStep
  <2>18. CASE UNCHANGED vars
    BY <2>1, <2>18, FreshStutter DEF vars
  <2> QED
    BY <2>4, <2>5, <2>6, <2>7, <2>8, <2>9, <2>10, <2>11, <2>12, <2>13, <2>14, <2>15, <2>16, <2>17,
       <2>18 DEF Next, MainStep, DebouncerStep, Quiet
<1>3. TypeOK /\ FreshInv /\ [Next]_vars => [report' # report => Fresh(report')]_vars
  <2> SUFFICES ASSUME TypeOK, FreshInv, Next, report' # report PROVE Fresh(report')
    BY DEF vars
  <2>1. ReceiveResult
    BY DEF Next, MainStep, DebouncerStep, UvStep, CheckStep, Quiet, vars, Save, TakeEvent,
           FlushBatch, EndDebouncer, Interrupt, RunUv, WakeUp, ReceiveChanges, ApplyEvent, EndApply,
           ReceiveWakeup, PollSync, CheckWorkspace, ReceiveExit, Return, CheckRead, SendResult,
           CheckCancelled
  <2>2. Head(chan) \in In(chan) /\ Head(chan).type = "completed"
    BY <2>1, QueueElements DEF ReceiveResult, Received, TypeOK
  <2>3. Head(chan).result.rev = revision /\ report' = Head(chan).result
    BY <2>1 DEF ReceiveResult, Outdated
  <2> QED
    BY <2>2, <2>3 DEF FreshInv, ResultsFresh
<1> QED
  BY <1>1, <1>2, <1>3, TypeCorrect, PTL DEF Spec, PrintsFresh
=============================================================================
