--------------------- MODULE WorkspaceDiagnosticsProofs ---------------------
(***************************************************************************)
(* Proofs about WorkspaceDiagnostics, for any files and fingerprints.      *)
(* DiagnosticsInv follows a file through a run: not checked yet, it is     *)
(* shown as the params say; checked, it is shown, about to be reported or  *)
(* about to be cleared.  A run that reports nothing has none of the latter. *)
(***************************************************************************)
EXTENDS WorkspaceDiagnostics, TLAPS

\* Every step of the client, of a run and of the session leaves the variables in
\* their types.
THEOREM TypeCorrect == Spec => []TypeOK
<1>1. Init => TypeOK
  <2> SUFFICES ASSUME Init PROVE TypeOK
    OBVIOUS
  <2>1. edits \in 0 .. MaxEdits
    BY ValuesAssumption DEF Init
  <2> QED
    BY <2>1 DEF Init, TypeOK, Results
<1>2. TypeOK /\ [Next]_vars => TypeOK'
  <2> SUFFICES ASSUME TypeOK, [Next]_vars PROVE TypeOK'
    OBVIOUS
  <2> USE DEF TypeOK, Results
  <2>1. CASE Pull
    BY <2>1 DEF Pull, writer
  <2>2. CASE CancelRequest
    BY <2>2 DEF CancelRequest, writer
  <2>3. CASE NotReady
    BY <2>3 DEF NotReady, writer
  <2>4. CASE StartCheck
    BY <2>4 DEF StartCheck
  <2>5. ASSUME NEW f \in Files, CheckFile(f) PROVE TypeOK'
    BY <2>5 DEF CheckFile, WriteDiagnostics, Written, Shown
  <2>6. CASE Finish
    BY <2>6 DEF Finish, Shown, Cleared, all_unchanged
  <2>7. ASSUME NEW f \in Files, NEW id \in Ids \cup {NoId}, Edit(f, id) PROVE TypeOK'
    BY <2>7, ValuesAssumption DEF Edit, Change, AfterChange, writer
  <2>8. CASE OpenScript
    <3>1. edits' \in 0 .. MaxEdits
      BY <2>8, ValuesAssumption DEF OpenScript
    <3> QED
      BY <2>8, <3>1 DEF OpenScript, Change, AfterChange, writer
  <2>9. CASE EnvironmentReady
    BY <2>9 DEF EnvironmentReady, Change, AfterChange, writer
  <2>10. CASE UNCHANGED vars
    BY <2>10 DEF vars, writer
  <2> QED
    BY <2>1, <2>2, <2>3, <2>4, <2>5, <2>6, <2>7, <2>8, <2>9, <2>10 DEF Next, RunStep
<1> QED
  BY <1>1, <1>2, PTL DEF Spec

\* A change of the session, whatever it is, leaves what the client shows and what the
\* request asked for, and no run goes on over it.
LEMMA ChangeKeeps ==
    ASSUME TypeOK, DiagnosticsInv, Change
    PROVE  DiagnosticsInv'
<1> USE DEF TypeOK, DiagnosticsInv, Awaiting, Checking, ParamsCurrent, Change, AfterChange
<1>1. CASE request = "running"
  BY <1>1
<1>2. CASE request = "suspended"
  BY <1>2
<1>3. CASE request \in {"none", "queued"}
  BY <1>3
<1> QED
  BY <1>1, <1>2, <1>3

\* The invariant of the first run of a request, and of every run that streams nothing.
LEMMA InvHolds == Spec => []DiagnosticsInv
<1>1. Init => DiagnosticsInv
  BY DEF Init, DiagnosticsInv, Awaiting, Checking
<1>2. TypeOK /\ DiagnosticsInv /\ [Next]_vars => DiagnosticsInv'
  <2> SUFFICES ASSUME TypeOK, DiagnosticsInv, [Next]_vars PROVE DiagnosticsInv'
    OBVIOUS
  <2>1. CASE Pull
    BY <2>1 DEF Pull, DiagnosticsInv, Awaiting, Checking, ParamsCurrent
  <2>2. CASE CancelRequest
    BY <2>2 DEF CancelRequest, DiagnosticsInv, Awaiting, Checking
  <2>3. CASE NotReady
    BY <2>3 DEF NotReady, DiagnosticsInv, Awaiting, Checking, ParamsCurrent
  <2>4. CASE StartCheck
    BY <2>4 DEF StartCheck, DiagnosticsInv, Awaiting, Checking, ParamsCurrent
  <2>5. ASSUME NEW f \in Files, CheckFile(f) PROVE DiagnosticsInv'
    <3> USE <2>5 DEF CheckFile
    <3>1. Awaiting'
      BY DEF Awaiting
    <3>2. Checking'
      <4> SUFFICES ASSUME ParamsCurrent, NEW g \in Files
                   PROVE  /\ ~token => shown'[g] = asked[g]
                          /\ g \in left' => /\ g \notin changed'
                                            /\ shown'[g] = asked[g]
                                            /\ g \in previous' <=> asked[g] # NoId
                          /\ g \notin left' => g \in changed' \/ shown'[g] = actual[g]
                                                 \/ (g \in previous' /\ actual[g] = NoId)
                          /\ g \in previous' => g \in left' \/ actual[g] = NoId
        BY DEF Checking, ParamsCurrent
      <4>1. /\ ~token => shown[g] = asked[g]
            /\ g \in left => g \notin changed /\ shown[g] = asked[g]
                               /\ (g \in previous <=> asked[g] # NoId)
            /\ g \notin left => g \in changed \/ shown[g] = actual[g]
                                  \/ (g \in previous /\ actual[g] = NoId)
            /\ g \in previous => g \in left \/ actual[g] = NoId
        BY DEF DiagnosticsInv, Checking
      <4>3. CASE g # f
        <5>1. g \in previous' <=> g \in previous
          BY <4>3 DEF WriteDiagnostics
        <5>2. g \in left' <=> g \in left
          BY <4>3
        <5>3. g \in Written(f) <=> g \in changed
          BY <4>3 DEF Written
        <5>4. CASE changed' = Written(f) /\ UNCHANGED shown
          BY <4>1, <5>1, <5>2, <5>3, <5>4
        <5>5. CASE token /\ changed' = {} /\ shown' = Shown(Written(f), {})
          <6>1. shown'[g] = IF g \in changed THEN actual[g] ELSE shown[g]
            BY <5>3, <5>5 DEF Shown
          <6> QED
            BY <4>1, <5>1, <5>2, <5>5, <6>1
        <5> QED
          BY <5>4, <5>5
      <4>4. CASE g = f
        BY <4>1, <4>4 DEF WriteDiagnostics, Written, IsUnchanged, Shown, TypeOK
      <4> QED
        BY <4>3, <4>4
    <3> QED
      BY <3>1, <3>2 DEF DiagnosticsInv
  <2>6. CASE Finish
    <3>1. CASE all_unchanged
      <4>1. ParamsCurrent => \A f \in Files : shown[f] = actual[f]
        BY <2>6, <3>1 DEF Finish, all_unchanged, DiagnosticsInv, Checking
      <4>2. ~token => \A f \in Files : shown[f] = asked[f]
        BY <2>6 DEF Finish, DiagnosticsInv, Checking, ParamsCurrent
      <4> QED
        BY <2>6, <3>1, <4>1, <4>2
        DEF Finish, DiagnosticsInv, Awaiting, Checking, ParamsCurrent, TypeOK, Results
    <3>2. CASE ~all_unchanged
      BY <2>6, <3>2 DEF Finish, DiagnosticsInv, Awaiting, Checking
    <3> QED
      BY <3>1, <3>2
  <2>7. ASSUME NEW f \in Files, NEW id \in Ids \cup {NoId}, Edit(f, id) PROVE DiagnosticsInv'
    BY <2>7, ChangeKeeps DEF Edit
  <2>8. CASE OpenScript
    BY <2>8, ChangeKeeps DEF OpenScript
  <2>9. CASE EnvironmentReady
    BY <2>9, ChangeKeeps DEF EnvironmentReady
  <2>10. CASE UNCHANGED vars
    BY <2>10 DEF vars, writer, DiagnosticsInv, Awaiting, Checking, ParamsCurrent
  <2> QED
    BY <2>1, <2>2, <2>3, <2>4, <2>5, <2>6, <2>7, <2>8, <2>9, <2>10 DEF Next, RunStep
<1> QED
  BY <1>1, <1>2, TypeCorrect, PTL DEF Spec

\* A request is held open only while the client shows what every file of the workspace
\* has: however often it is resumed without partial results, until its second run with.
THEOREM HeldIsCurrent == Spec => []HeldClientCurrent
<1>1. DiagnosticsInv => HeldClientCurrent
  BY DEF DiagnosticsInv, Awaiting, HeldClientCurrent
<1> QED
  BY <1>1, InvHolds, PTL

\* The report that answers a first run, or any run that streams nothing, leaves no file
\* shown as it no longer is.
THEOREM AnswersComplete == Spec => AnswersAreComplete
<1>1. TypeOK /\ DiagnosticsInv /\ [Next]_vars => [ParamsCurrent /\ Answers => shown' = actual]_vars
  <2> SUFFICES ASSUME TypeOK, DiagnosticsInv, Next, ParamsCurrent, Answers PROVE shown' = actual
    OBVIOUS
  <2>1. Finish
    BY DEF Answers, Next, RunStep, Pull, CancelRequest, NotReady, StartCheck, CheckFile, Edit,
           OpenScript, EnvironmentReady, Change
  <2>2. \A f \in Files : f \in changed \/ shown[f] = actual[f]
                           \/ (f \in previous /\ actual[f] = NoId)
    BY <2>1 DEF Finish, DiagnosticsInv, Checking, ParamsCurrent
  <2>3. \A f \in Files : f \in previous => actual[f] = NoId
    BY <2>1 DEF Finish, DiagnosticsInv, Checking, ParamsCurrent
  <2>4. shown' = Shown(changed, previous)
    BY <2>1 DEF Finish, Answers, Cleared
  <2> QED
    BY <2>2, <2>3, <2>4 DEF Shown, TypeOK, Results
<1> QED
  BY <1>1, InvHolds, TypeCorrect, PTL DEF Spec, AnswersAreComplete
=============================================================================
