------------------------ MODULE ProjectServerProofs ------------------------
(***************************************************************************)
(* Proofs about ProjectServer, for any commands, servers, files and        *)
(* contents, any number of retries and any reuse of process ids.           *)
(***************************************************************************)
EXTENDS ProjectServer, SequenceTheorems, TLAPS

LEMMA Queue ==
    ASSUME NEW S, NEW q \in Seq(S)
    PROVE  /\ \A e \in S : Append(q, e) \in Seq(S) /\ Len(Append(q, e)) = Len(q) + 1
           /\ q # <<>> => Head(q) \in S /\ Tail(q) \in Seq(S) /\ Len(Tail(q)) = Len(q) - 1
           /\ Len(q) \in Nat
OBVIOUS

LEMMA RequestAt ==
    ASSUME NEW r \in Requests, NEW p \in {"none", "sent", "queued", "taken", "run", "check", "end"}
    PROVE  [r EXCEPT !.at = p] \in Requests
BY DEF Requests

LEMMA RequestTaken ==
    ASSUME NEW r \in Requests
    PROVE  Taken(r) \in Requests
<1>1. CASE r.rescanned
  BY <1>1 DEF Requests, Taken
<1>2. CASE ~r.rescanned
  BY <1>2 DEF Requests, Taken
<1> QED
  BY <1>1, <1>2

LEMMA MessageTypes ==
    /\ NoSeen \in [Files -> Texts]
    /\ Accepted \in Answers /\ Refused \in Answers /\ NoAnswer \in Answers
    /\ NoRequest \in Requests /\ [NoRequest EXCEPT !.at = "end"] \in Requests
    /\ NoRecord \in Records /\ Torn \in Records
<1>1. NoSeen \in [Files -> Texts]
  BY DEF NoSeen, Texts
<1> QED
  BY <1>1 DEF Accepted, Refused, NoAnswer, Answer, Answers, NoRequest, Requests, NoRecord, Torn, Records

\* A response, and a request that is queued again, keep requests and connections well typed.
LEMMA TypeRespond ==
    ASSUME TypeOK, NEW c \in Commands, NEW s \in Servers, NEW answer \in Answers,
           Respond(c, s, answer)
    PROVE  /\ req' \in [Commands -> [Servers -> Requests]]
           /\ lines' \in [Commands -> [Servers -> Seq(Answers)]]
<1>1. Append(lines[c][s], answer) \in Seq(Answers)
  BY Queue DEF TypeOK
<1> QED
  BY <1>1, MessageTypes DEF Respond, TypeOK

LEMMA TypeRequeue ==
    ASSUME TypeOK, NEW c \in Commands, NEW s \in Servers, NEW r \in Requests, Requeue(c, s, r)
    PROVE  /\ req' \in [Commands -> [Servers -> Requests]]
           /\ queue' \in [Servers -> Seq(Commands)]
           /\ lines' = lines
<1>1. [r EXCEPT !.at = "queued", !.seen = NoSeen] \in Requests
  BY MessageTypes DEF Requests
<1>2. Append(queue[s], c) \in Seq(Commands)
  BY Queue DEF TypeOK
<1> QED
  BY <1>1, <1>2 DEF Requeue, TypeOK

LEMMA TypeTask ==
    ASSUME TypeOK, NEW c \in Commands, NEW s \in Servers, TaskStep(c, s)
    PROVE  TypeOK'
<1> USE DEF diskVars, lifeVars, sessionVars, commandVars
<1>0. req[c][s] \in Requests
  BY DEF TypeOK
<1>1. CASE Gate(c, s)
  <2>1. CASE Respond(c, s, Refused) /\ UNCHANGED queue
    BY <1>1, <2>1, MessageTypes, TypeRespond DEF Gate, TypeOK
  <2>2. CASE Requeue(c, s, [req[c][s] EXCEPT !.rescanned = TRUE])
    <3>1. [req[c][s] EXCEPT !.rescanned = TRUE] \in Requests
      BY <1>0 DEF Requests
    <3> QED
      BY <1>1, <2>2, <3>1, TypeRequeue DEF Gate, TypeOK
  <2>3. CASE req' = [req EXCEPT ![c][s].at = "check"] /\ UNCHANGED <<queue, lines>>
    <3>1. req' \in [Commands -> [Servers -> Requests]]
      BY <2>3, <1>0 DEF TypeOK, Requests
    <3> QED
      BY <1>1, <2>3, <3>1 DEF Gate, TypeOK
  <2> QED
    BY <1>1, <2>1, <2>2, <2>3 DEF Gate
<1>2. ASSUME NEW f \in Files, CheckRead(c, s, f) PROVE TypeOK'
  <2> DEFINE v == IF Open(s, f) THEN buffer[s][f] ELSE IF text[s][f] # None THEN text[s][f] ELSE disk[f]
  <2>1. v \in Texts
    BY DEF TypeOK, Texts, OnDisk
  <2>2. req' = [req EXCEPT ![c][s].seen[f] = v] /\ text' = [text EXCEPT ![s][f] = IF Open(s, f) THEN @ ELSE v]
    BY <1>2 DEF CheckRead
  <2> HIDE DEF v
  <2>3. [req[c][s] EXCEPT !.seen[f] = v] \in Requests
    BY <1>0, <2>1 DEF Requests
  <2>4. req' \in [Commands -> [Servers -> Requests]]
    BY <2>2, <2>3 DEF TypeOK
  <2>5. text' \in [Servers -> [Files -> Texts]]
    BY <2>1, <2>2 DEF TypeOK
  <2> QED
    BY <1>2, <2>4, <2>5 DEF CheckRead, TypeOK
<1>3. CASE AnswerCheck(c, s)
  <2> DEFINE answer == Answer("check", [f \in Files |-> IF f \in index[s] THEN req[c][s].seen[f] ELSE Absent])
  <2>1. answer \in Answers
    <3>1. [f \in Files |-> IF f \in index[s] THEN req[c][s].seen[f] ELSE Absent] \in [Files -> Texts]
      BY <1>0 DEF Requests, Texts, OnDisk
    <3> QED
      BY <3>1 DEF Answer, Answers
  <2>2. Respond(c, s, answer)
    BY <1>3 DEF AnswerCheck
  <2> QED
    BY <1>3, <2>1, <2>2, TypeRespond DEF AnswerCheck, TypeOK
<1>4. CASE CancelCheck(c, s)
  <2>1. CASE Respond(c, s, Refused) /\ UNCHANGED queue
    BY <1>4, <2>1, MessageTypes, TypeRespond DEF CancelCheck, TypeOK
  <2>2. CASE Requeue(c, s, Retried(req[c][s]))
    <3>1. Retried(req[c][s]) \in Requests
      BY <1>0 DEF Retried, Requests
    <3> QED
      BY <1>4, <2>2, <3>1, TypeRequeue DEF CancelCheck, TypeOK
  <2> QED
    BY <1>4, <2>1, <2>2 DEF CancelCheck
<1> QED
  BY <1>1, <1>2, <1>3, <1>4 DEF TaskStep

LEMMA TypeMain ==
    ASSUME TypeOK, NEW s \in Servers,
           StartServer(s) \/ StopServer(s) \/ ReceiveEdit(s) \/ MainStep(s)
    PROVE  TypeOK'
<1> USE DEF diskVars, lifeVars, sessionVars, commandVars
<1>0. Existing \subseteq Files /\ Looked(s) \subseteq Files
  BY DEF Existing, Looked, TypeOK
<1>1. CASE StartServer(s)
  <2>1. life' \in [Servers -> Nat] /\ record' \in [Servers -> Records] /\ index' \in [Servers -> SUBSET Files]
    BY <1>0, <1>1, MessageTypes DEF StartServer, TypeOK
  <2> QED
    BY <1>1, <2>1 DEF StartServer, TypeOK
<1>2. CASE StopServer(s)
  <2>1. req' \in [Commands -> [Servers -> Requests]]
    BY <1>2, MessageTypes DEF StopServer, TypeOK
  <2>2. record' \in [Servers -> Records]
    BY <1>2, MessageTypes DEF StopServer, TypeOK
  <2>3. /\ queue' \in [Servers -> Seq(Commands)]
        /\ buffer' \in [Servers -> [Files -> Contents \cup {None}]]
        /\ text' \in [Servers -> [Files -> Texts]]
        /\ stale' \in [Servers -> SUBSET Files]
        /\ index' \in [Servers -> SUBSET Files]
    BY <1>2 DEF StopServer, TypeOK, Texts
  <2> QED
    BY <1>2, <2>1, <2>2, <2>3 DEF StopServer, TypeOK
<1>3. CASE ReceiveEdit(s)
  BY <1>3 DEF ReceiveEdit, TypeOK
<1>4. CASE Publish(s)
  <2>1. [file |-> "written", life |-> life[s]] \in Records
    BY DEF Records, TypeOK
  <2>2. record' \in [Servers -> Records]
    BY <1>4, <2>1 DEF Publish, TypeOK
  <2> QED
    BY <1>4, <2>2 DEF Publish, TypeOK
<1>5. CASE ApplyEdit(s)
  <2>0. pc' \in [Servers -> {"dead", "starting", "idle", "edit", "rescan"}]
    BY <1>5 DEF ApplyEdit, TypeOK
  <2>1. ASSUME NEW f \in Files, SyncFile(s, f)
        PROVE  /\ text' \in [Servers -> [Files -> Texts]]
               /\ stale' \in [Servers -> SUBSET Files]
               /\ index' \in [Servers -> SUBSET Files]
    <3>1. text' \in [Servers -> [Files -> Texts]]
      BY <2>1 DEF SyncFile, TypeOK, Texts
    <3>2. stale' \in [Servers -> SUBSET Files] /\ index' \in [Servers -> SUBSET Files]
      BY <2>1 DEF SyncFile, TypeOK
    <3> QED
      BY <3>1, <3>2
  <2>2. ASSUME NEW f \in Files, NEW v \in Contents \cup {None}
        PROVE  [buffer EXCEPT ![s][f] = v] \in [Servers -> [Files -> Contents \cup {None}]]
    BY DEF TypeOK
  <2>3. /\ text' \in [Servers -> [Files -> Texts]]
        /\ stale' \in [Servers -> SUBSET Files]
        /\ index' \in [Servers -> SUBSET Files]
        /\ buffer' \in [Servers -> [Files -> Contents \cup {None}]]
    <3>1. ASSUME NEW f \in Files, NEW v \in Contents, buffer' = [buffer EXCEPT ![s][f] = v],
                 index' = [index EXCEPT ![s] = @ \cup {f}], UNCHANGED <<text, stale>>
          PROVE  <2>3!1 /\ <2>3!2 /\ <2>3!3 /\ <2>3!4
      BY <3>1, <2>2 DEF TypeOK
    <3>2. ASSUME NEW f \in Files, buffer' = [buffer EXCEPT ![s][f] = None] \/ UNCHANGED buffer, SyncFile(s, f)
          PROVE  <2>3!1 /\ <2>3!2 /\ <2>3!3 /\ <2>3!4
      <4>1. buffer' \in [Servers -> [Files -> Contents \cup {None}]]
        <5>1. buffer \in [Servers -> [Files -> Contents \cup {None}]]
          BY DEF TypeOK
        <5> QED
          BY <3>2, <5>1
      <4> QED
        BY <3>2, <4>1, <2>1, Zenon
    <3>3. CASE UNCHANGED sessionVars
      BY <3>3 DEF sessionVars, TypeOK
    <3> QED
      BY <1>5, <3>1, <3>2, <3>3 DEF ApplyEdit
  <2> QED
    BY <1>5, <2>0, <2>3 DEF ApplyEdit, TypeOK
<1>6. CASE TakeRequest(s)
  <2>0. Head(queue[s]) \in Commands /\ Tail(queue[s]) \in Seq(Commands)
    BY <1>6, Queue DEF TakeRequest, TypeOK
  <2>1. PICK c \in Commands : c = Head(queue[s])
    BY <2>0
  <2>2. queue' \in [Servers -> Seq(Commands)]
    BY <1>6, <2>0 DEF TakeRequest, TypeOK
  <2>3. /\ req' = [req EXCEPT ![c][s] = Taken(req[c][s])] \/ req' = [req EXCEPT ![c][s].at = "end"]
        /\ lines' = lines \/ lines' = [lines EXCEPT ![c][s] = Append(@, Accepted)]
        /\ pc' = pc \/ pc' = [pc EXCEPT ![s] = "rescan"]
    BY <1>6, <2>1 DEF TakeRequest
  <2>9. req[c][s] \in Requests
    BY DEF TypeOK
  <2>4. Taken(req[c][s]) \in Requests
    BY <2>9, RequestTaken
  <2>5. Append(lines[c][s], Accepted) \in Seq(Answers)
    BY Queue, MessageTypes DEF TypeOK
  <2>6. req' \in [Commands -> [Servers -> Requests]]
    <3>1. [req[c][s] EXCEPT !.at = "end"] \in Requests
      BY <2>9, RequestAt
    <3>2. req \in [Commands -> [Servers -> Requests]]
      BY DEF TypeOK
    <3> QED
      BY <2>3, <2>4, <3>1, <3>2
  <2>7. lines' \in [Commands -> [Servers -> Seq(Answers)]]
    <3>1. lines \in [Commands -> [Servers -> Seq(Answers)]]
      BY DEF TypeOK
    <3>2. CASE lines' = [lines EXCEPT ![c][s] = Append(lines[c][s], Accepted)]
      BY <2>5, <3>1, <3>2
    <3> QED
      BY <2>3, <3>1, <3>2
  <2>8. pc' \in [Servers -> {"dead", "starting", "idle", "edit", "rescan"}]
    BY <2>3 DEF TypeOK
  <2> QED
    BY <1>6, <2>2, <2>6, <2>7, <2>8 DEF TakeRequest, TypeOK
<1>7. CASE RescanSession(s)
  <2>1. text' \in [Servers -> [Files -> Texts]]
    BY <1>7 DEF RescanSession, TypeOK, Texts
  <2>2. stale' \in [Servers -> SUBSET Files] /\ index' \in [Servers -> SUBSET Files]
    BY <1>7, <1>0 DEF RescanSession, TypeOK
  <2>3. \A c \in Commands : [req[c][s] EXCEPT !.at = "run"] \in Requests
    <3>1. \A c \in Commands : req[c][s] \in Requests
      BY DEF TypeOK
    <3> QED
      BY <3>1, RequestAt
  <2>4. req' \in [Commands -> [Servers -> Requests]]
    BY <1>7, <2>3 DEF RescanSession, TypeOK
  <2> QED
    BY <1>7, <2>1, <2>2, <2>4 DEF RescanSession, TypeOK
<1> QED
  BY <1>1, <1>2, <1>3, <1>4, <1>5, <1>6, <1>7 DEF MainStep

\* A command that waits for a server, or forgets one, has one it asks.
AsksServer ==
    \A c \in Commands : at[c] \in {"accept", "answer", "forget", "remove"} => asking[c] \in Servers

LEMMA TypeCommand ==
    ASSUME TypeOK, AsksServer, NEW c \in Commands, CommandStep(c)
    PROVE  TypeOK' /\ AsksServer'
<1> USE DEF diskVars, lifeVars, sessionVars, commandVars
<1>1. CASE StartCommand(c)
  <2>1. [s \in Servers |-> IF Readable(s) THEN record[s].life ELSE 0] \in [Servers -> Nat]
    BY DEF TypeOK, Records
  <2>2. [f \in Files |-> {disk[f]}] \in [Files -> SUBSET OnDisk]
    BY DEF TypeOK
  <2>3. cands' \in [Commands -> [Servers -> Nat]] /\ since' \in [Commands -> [Files -> SUBSET OnDisk]]
    BY <1>1, <2>1, <2>2 DEF StartCommand, TypeOK
  <2> QED
    BY <1>1, <2>3 DEF StartCommand, TypeOK, AsksServer
<1>2. ASSUME NEW s \in Servers, Connect(c, s) PROVE TypeOK' /\ AsksServer'
  <2>0. req[c][s] \in Requests
    BY DEF TypeOK
  <2>1. [req[c][s] EXCEPT !.at = "sent"] \in Requests
    BY <2>0, RequestAt
  <2>2. req' \in [Commands -> [Servers -> Requests]]
    <3>1. req' = req \/ req' = [req EXCEPT ![c][s] = [req[c][s] EXCEPT !.at = "sent"]]
      BY <1>2 DEF Connect
    <3>2. req \in [Commands -> [Servers -> Requests]]
      BY DEF TypeOK
    <3> QED
      BY <2>1, <3>1, <3>2
  <2>3. cands' \in [Commands -> [Servers -> Nat]]
    <3>1. cands' = cands \/ cands' = [cands EXCEPT ![c][s] = 0]
      BY <1>2 DEF Connect
    <3>2. cands \in [Commands -> [Servers -> Nat]]
      BY DEF TypeOK
    <3> QED
      BY <3>1, <3>2
  <2>4. at' \in [Commands -> {"start", "ask", "accept", "answer", "forget", "remove", "hot", "cold"}]
        /\ asking' = [asking EXCEPT ![c] = s]
        /\ \A d \in Commands \ {c} : at'[d] = at[d]
    BY <1>2 DEF Connect, TypeOK
  <2> QED
    BY <1>2, <2>2, <2>3, <2>4 DEF Connect, TypeOK, AsksServer
<1>3. CASE Forget(c)
  <2>1. asking[c] \in Servers
    BY <1>3 DEF Forget, AsksServer
  <2>2. record' \in [Servers -> Records]
    BY <1>3, MessageTypes DEF Forget, TypeOK
  <2>3. cands' = cands \/ cands' = [cands EXCEPT ![c][asking[c]] = 0]
    BY <1>3 DEF Forget
  <2>4. cands' \in [Commands -> [Servers -> Nat]]
    <3>1. cands \in [Commands -> [Servers -> Nat]]
      BY DEF TypeOK
    <3> QED
      BY <2>1, <2>3, <3>1
  <2>5. at' = [at EXCEPT ![c] = "ask"] \/ at' = [at EXCEPT ![c] = "remove"]
    BY <1>3 DEF Forget
  <2> QED
    BY <1>3, <2>1, <2>2, <2>4, <2>5 DEF Forget, TypeOK, AsksServer
<1>4. CASE ReadLine(c)
  <2>1. asking[c] \in Servers
    BY <1>4 DEF ReadLine, AsksServer
  <2> DEFINE n == IF at[c] = "accept" THEN 1 ELSE 2
  <2>2. lines[c][asking[c]][n] \in Answers
    <3>1. lines[c][asking[c]] \in Seq(Answers)
      BY <2>1 DEF TypeOK
    <3>2. n \in 1..Len(lines[c][asking[c]])
      BY <1>4, <3>1, Queue DEF ReadLine
    <3> QED
      BY <3>1, <3>2
  <2>3. printed' = printed \/ printed' = [printed EXCEPT ![c] = lines[c][asking[c]][n]]
    BY <1>4 DEF ReadLine
  <2> HIDE DEF n
  <2>4. printed' \in [Commands -> Answers]
    BY <2>2, <2>3 DEF TypeOK
  <2>5. at' = [at EXCEPT ![c] = "answer"] \/ at' = [at EXCEPT ![c] = "hot"] \/ at' = [at EXCEPT ![c] = "ask"]
    BY <1>4 DEF ReadLine
  <2> QED
    BY <1>4, <2>1, <2>4, <2>5 DEF ReadLine, TypeOK, AsksServer
<1>5. CASE GiveUp(c)
  BY <1>5 DEF GiveUp, TypeOK, AsksServer
<1>6. CASE CheckItself(c)
  BY <1>6 DEF CheckItself, TypeOK, AsksServer
<1> QED
  BY <1>1, <1>2, <1>3, <1>4, <1>5, <1>6 DEF CommandStep

\* The commands, the threads of the servers and the editor keep the state well typed.
THEOREM TypeCorrect == Spec => [](TypeOK /\ AsksServer)
<1> USE DEF diskVars, lifeVars, sessionVars, commandVars
<1>1. Init => TypeOK /\ AsksServer
  <2> SUFFICES ASSUME Init PROVE TypeOK /\ AsksServer
    OBVIOUS
  <2>1. record \in [Servers -> Records] /\ req \in [Commands -> [Servers -> Requests]]
        /\ printed \in [Commands -> Answers]
    BY MessageTypes DEF Init
  <2>2. queue \in [Servers -> Seq(Commands)] /\ lines \in [Commands -> [Servers -> Seq(Answers)]]
    BY DEF Init
  <2>3. /\ buffer \in [Servers -> [Files -> Contents \cup {None}]]
        /\ text \in [Servers -> [Files -> Texts]]
        /\ stale \in [Servers -> SUBSET Files] /\ index \in [Servers -> SUBSET Files]
    BY DEF Init, Texts
  <2>4. /\ life \in [Servers -> Nat] /\ cands \in [Commands -> [Servers -> Nat]]
        /\ since \in [Commands -> [Files -> SUBSET OnDisk]]
        /\ asking \in [Commands -> Servers \cup {None}]
        /\ disk \in [Files -> OnDisk]
    BY DEF Init
  <2>5. /\ pc \in [Servers -> {"dead", "starting", "idle", "edit", "rescan"}]
        /\ at \in [Commands -> {"start", "ask", "accept", "answer", "forget", "remove", "hot", "cold"}]
        /\ AsksServer
    BY DEF Init, AsksServer
  <2> QED
    BY <2>1, <2>2, <2>3, <2>4, <2>5 DEF TypeOK
<1>2. TypeOK /\ AsksServer /\ [Next]_vars => TypeOK' /\ AsksServer'
  <2> SUFFICES ASSUME TypeOK, AsksServer, [Next]_vars PROVE TypeOK' /\ AsksServer'
    OBVIOUS
  <2>1. ASSUME NEW f \in Files, NEW v \in OnDisk, Write(f, v) PROVE TypeOK' /\ AsksServer'
    <3>1. disk' \in [Files -> OnDisk] /\ stale' \in [Servers -> SUBSET Files]
      BY <2>1 DEF Write, TypeOK
    <3>2. \A c \in Commands : [since[c] EXCEPT ![f] = @ \cup {v}] \in [Files -> SUBSET OnDisk]
      BY DEF TypeOK
    <3>3. since' \in [Commands -> [Files -> SUBSET OnDisk]]
      BY <2>1, <3>2 DEF Write, TypeOK
    <3> QED
      BY <2>1, <3>1, <3>3 DEF Write, TypeOK, AsksServer
  <2>2. ASSUME NEW s \in Servers, StartServer(s) \/ StopServer(s) \/ ReceiveEdit(s) \/ MainStep(s)
        PROVE  TypeOK' /\ AsksServer'
    <3>1. UNCHANGED <<at, asking>>
      BY <2>2 DEF StartServer, StopServer, ReceiveEdit, MainStep, Publish, ApplyEdit, TakeRequest, RescanSession
    <3> QED
      BY <2>2, <3>1, TypeMain DEF AsksServer
  <2>3. ASSUME NEW s \in Servers, NEW f \in Files, EditorRead(s, f) PROVE TypeOK' /\ AsksServer'
    <3>1. text' \in [Servers -> [Files -> Texts]]
      BY <2>3 DEF EditorRead, TypeOK, Texts
    <3> QED
      BY <2>3, <3>1 DEF EditorRead, TypeOK, AsksServer
  <2>4. ASSUME NEW c \in Commands, NEW s \in Servers, AcceptRequest(c, s) PROVE TypeOK' /\ AsksServer'
    <3>0. req[c][s] \in Requests
      BY DEF TypeOK
    <3>1. [req[c][s] EXCEPT !.at = "queued"] \in Requests /\ [req[c][s] EXCEPT !.at = "end"] \in Requests
      BY <3>0, RequestAt
    <3>2. req' \in [Commands -> [Servers -> Requests]]
      <4>1. req \in [Commands -> [Servers -> Requests]]
        BY DEF TypeOK
      <4>2. req' = [req EXCEPT ![c][s] = [req[c][s] EXCEPT !.at = "queued"]]
            \/ req' = [req EXCEPT ![c][s] = [req[c][s] EXCEPT !.at = "end"]]
        BY <2>4 DEF AcceptRequest
      <4> QED
        BY <3>1, <4>1, <4>2
    <3>3. queue' \in [Servers -> Seq(Commands)]
      <4>1. Append(queue[s], c) \in Seq(Commands) /\ queue \in [Servers -> Seq(Commands)]
        BY Queue DEF TypeOK
      <4>2. queue' = queue \/ queue' = [queue EXCEPT ![s] = Append(queue[s], c)]
        BY <2>4 DEF AcceptRequest
      <4> QED
        BY <4>1, <4>2
    <3> QED
      BY <2>4, <3>2, <3>3 DEF AcceptRequest, TypeOK, AsksServer
  <2>5. ASSUME NEW c \in Commands, NEW s \in Servers, TaskStep(c, s) PROVE TypeOK' /\ AsksServer'
    <3>1. UNCHANGED <<at, asking>>
      BY <2>5 DEF TaskStep, Gate, CheckRead, AnswerCheck, CancelCheck
    <3> QED
      BY <2>5, <3>1, TypeTask DEF AsksServer
  <2>6. ASSUME NEW c \in Commands, CommandStep(c) PROVE TypeOK' /\ AsksServer'
    BY <2>6, TypeCommand
  <2>7. CASE UNCHANGED vars
    BY <2>7 DEF vars, TypeOK, AsksServer
  <2> QED
    BY <2>1, <2>2, <2>3, <2>4, <2>5, <2>6, <2>7 DEF Next
<1> QED
  BY <1>1, <1>2, PTL DEF Spec

-----------------------------------------------------------------------------
(* A record is removed only when it is that of a server that is gone.      *)

Serving(s) == pc[s] \in {"idle", "edit", "rescan"}

\* The lives that records and commands know of are no newer than the server's.
LivesPast ==
    /\ \A s \in Servers : Readable(s) => record[s].life <= life[s]
    /\ \A c \in Commands, s \in Servers : cands[c][s] <= life[s]

\* A command that forgets a server has found that the one it read of does not listen.
ForgetsTheDead ==
    \A c \in Commands : at[c] \in {"forget", "remove"} =>
        cands[c][asking[c]] # 0 /\ ~Listening(c, asking[c])

\* The first server of a process id has its record, from the moment it listens.
FirstHasRecord ==
    \A s \in Servers : life[s] = 1 => /\ pc[s] = "starting" => record[s] = Torn
                                      /\ Serving(s) => Readable(s)

RecordInv == LivesPast /\ ForgetsTheDead /\ FirstHasRecord

LEMMA RecordStep ==
    ASSUME TypeOK, AsksServer, RecordInv, [Next]_vars
    PROVE  RecordInv'
<1> USE DEF diskVars, lifeVars, sessionVars, commandVars
<1>0. /\ life \in [Servers -> Nat] /\ cands \in [Commands -> [Servers -> Nat]]
      /\ record \in [Servers -> Records]
      /\ pc \in [Servers -> {"dead", "starting", "idle", "edit", "rescan"}]
      /\ at \in [Commands -> {"start", "ask", "accept", "answer", "forget", "remove", "hot", "cold"}]
      /\ asking \in [Commands -> Servers \cup {None}]
  BY DEF TypeOK
\* Most steps touch neither records nor lives, nor make a server listen.
<1>1. ASSUME UNCHANGED <<life, record, at, cands, asking>>,
             \A s \in Servers : /\ pc[s] = "dead" => pc'[s] = "dead"
                                /\ pc'[s] = "starting" => pc[s] = "starting"
                                /\ pc'[s] \in {"idle", "edit", "rescan"} => Serving(s)
      PROVE  RecordInv'
  BY <1>0, <1>1 DEF RecordInv, LivesPast, ForgetsTheDead, FirstHasRecord, Readable, Listening, Serving, AsksServer
<1>2. ASSUME UNCHANGED <<life, record, at, cands, asking, pc>> PROVE RecordInv'
  BY <1>1, <1>2, <1>0 DEF Serving
<1>3. ASSUME NEW s \in Servers, StartServer(s) PROVE RecordInv'
  <2>1. /\ pc[s] = "dead" /\ life' = [life EXCEPT ![s] = life[s] + 1] /\ pc' = [pc EXCEPT ![s] = "starting"]
        /\ record' = [record EXCEPT ![s] = Torn] /\ UNCHANGED <<at, cands, asking>>
    BY <1>3 DEF StartServer
  <2>2. LivesPast'
    BY <1>0, <2>1 DEF RecordInv, LivesPast, Readable, Torn
  <2>3. ForgetsTheDead'
    BY <1>0, <2>1 DEF RecordInv, LivesPast, ForgetsTheDead, Listening, AsksServer
  <2>4. FirstHasRecord'
    BY <1>0, <2>1 DEF RecordInv, FirstHasRecord, Readable, Serving
  <2> QED
    BY <2>2, <2>3, <2>4 DEF RecordInv
<1>4. ASSUME NEW s \in Servers, Publish(s) PROVE RecordInv'
  <2>1. /\ pc[s] = "starting" /\ pc' = [pc EXCEPT ![s] = "idle"] /\ UNCHANGED <<life, at, cands, asking>>
        /\ record' = [record EXCEPT ![s] = IF record[s].file = "none" THEN record[s]
                                           ELSE [file |-> "written", life |-> life[s]]]
    BY <1>4 DEF Publish
  <2> DEFINE r == IF record[s].file = "none" THEN record[s] ELSE [file |-> "written", life |-> life[s]]
  <2>2. /\ r.file = "written" => r.life = life[s]
        /\ life[s] = 1 => r.file = "written"
    BY <2>1 DEF RecordInv, FirstHasRecord, Torn
  <2>3. LivesPast'
    BY <1>0, <2>1, <2>2 DEF RecordInv, LivesPast, Readable
  <2>4. ForgetsTheDead' /\ FirstHasRecord'
    BY <1>0, <2>1, <2>2 DEF RecordInv, ForgetsTheDead, FirstHasRecord, Listening, AsksServer, Readable, Serving
  <2> QED
    BY <2>3, <2>4 DEF RecordInv
<1>5. ASSUME NEW s \in Servers, StopServer(s) PROVE RecordInv'
  <2>1. /\ pc' = [pc EXCEPT ![s] = "dead"] /\ UNCHANGED <<life, at, cands, asking>>
        /\ record' = [record EXCEPT ![s] = NoRecord] \/ record' = record
    BY <1>5 DEF StopServer
  <2>2. LivesPast' /\ ForgetsTheDead'
    BY <1>0, <2>1 DEF RecordInv, LivesPast, ForgetsTheDead, Readable, Listening, AsksServer, NoRecord
  <2>3. FirstHasRecord'
    BY <1>0, <2>1 DEF RecordInv, FirstHasRecord, Readable, Serving
  <2> QED
    BY <2>2, <2>3 DEF RecordInv
<1>6. ASSUME NEW s \in Servers, ReceiveEdit(s) \/ ApplyEdit(s) \/ TakeRequest(s) \/ RescanSession(s)
      PROVE  RecordInv'
  <2>1. /\ UNCHANGED <<life, record, at, cands, asking>> /\ Serving(s)
        /\ pc' = pc \/ pc' = [pc EXCEPT ![s] = "idle"] \/ pc' = [pc EXCEPT ![s] = "edit"]
           \/ pc' = [pc EXCEPT ![s] = "rescan"]
    BY <1>6 DEF ReceiveEdit, ApplyEdit, TakeRequest, RescanSession, Serving
  <2>2. \A t \in Servers : /\ pc[t] = "dead" => pc'[t] = "dead"
                           /\ pc'[t] = "starting" => pc[t] = "starting"
                           /\ pc'[t] \in {"idle", "edit", "rescan"} => Serving(t)
    BY <1>0, <2>1 DEF Serving
  <2> QED
    BY <1>1, <2>1, <2>2
<1>7. ASSUME NEW c \in Commands, CommandStep(c) PROVE RecordInv'
  <2>1. CASE StartCommand(c)
    <3>1. /\ at' = [at EXCEPT ![c] = "ask"] /\ UNCHANGED <<life, record, pc, asking>>
          /\ cands' = [cands EXCEPT ![c] = [s \in Servers |-> IF Readable(s) THEN record[s].life ELSE 0]]
      BY <2>1 DEF StartCommand
    <3>2. LivesPast'
      BY <1>0, <3>1 DEF RecordInv, LivesPast, Readable, Records
    <3>3. ForgetsTheDead' /\ FirstHasRecord'
      BY <1>0, <3>1 DEF RecordInv, ForgetsTheDead, FirstHasRecord, Readable, Listening, Serving
    <3> QED
      BY <3>2, <3>3 DEF RecordInv
  <2>2. ASSUME NEW s \in Servers, Connect(c, s) PROVE RecordInv'
    <3>1. CASE Listening(c, s) /\ at' = [at EXCEPT ![c] = "accept"] /\ cands' = [cands EXCEPT ![c][s] = 0]
      <4>1. UNCHANGED <<life, record, pc>> /\ asking' = [asking EXCEPT ![c] = s]
        BY <2>2 DEF Connect
      <4>2. LivesPast' /\ FirstHasRecord'
        BY <1>0, <3>1, <4>1 DEF RecordInv, LivesPast, FirstHasRecord, Readable, Serving
      <4>3. ForgetsTheDead'
        BY <1>0, <3>1, <4>1 DEF RecordInv, ForgetsTheDead, Listening
      <4> QED
        BY <4>2, <4>3 DEF RecordInv
    <3>2. CASE ~Listening(c, s) /\ at' = [at EXCEPT ![c] = "forget"] /\ UNCHANGED cands
      <4>1. UNCHANGED <<life, record, pc>> /\ asking' = [asking EXCEPT ![c] = s] /\ cands[c][s] # 0
        BY <2>2 DEF Connect
      <4>2. LivesPast' /\ FirstHasRecord'
        BY <1>0, <3>2, <4>1 DEF RecordInv, LivesPast, FirstHasRecord, Readable, Serving
      <4>3. ForgetsTheDead'
        BY <1>0, <3>2, <4>1 DEF RecordInv, ForgetsTheDead, Listening
      <4> QED
        BY <4>2, <4>3 DEF RecordInv
    <3> QED
      BY <2>2, <3>1, <3>2 DEF Connect
  <2>3. CASE Forget(c)
    <3>1. PICK s \in Servers : s = asking[c]
      BY <2>3 DEF Forget, AsksServer
    <3>2. /\ UNCHANGED <<life, pc, asking>> /\ at[c] \in {"forget", "remove"}
          /\ record' = record \/ record' = [record EXCEPT ![s] = NoRecord]
          /\ \/ at' = [at EXCEPT ![c] = "ask"] /\ cands' = [cands EXCEPT ![c][s] = 0]
             \/ at' = [at EXCEPT ![c] = "remove"] /\ cands' = cands
      BY <2>3, <3>1 DEF Forget
    <3>3. ~(life[s] = 1 /\ pc[s] # "dead")
      <4>1. cands[c][s] # 0 /\ cands[c][s] <= life[s] /\ ~Listening(c, s)
        BY <3>1, <3>2 DEF RecordInv, LivesPast, ForgetsTheDead
      <4>2. cands[c][s] \in Nat /\ life[s] \in Nat
        BY <1>0
      <4>3. life[s] = 1 => cands[c][s] = life[s]
        BY <4>1, <4>2
      <4> QED
        BY <4>1, <4>3 DEF Listening
    <3>4. \A d \in Commands, t \in Servers : cands'[d][t] = cands[d][t] \/ cands'[d][t] = 0
      BY <1>0, <3>2
    <3>5. \A t \in Servers : record'[t] = record[t] \/ (t = s /\ record'[t] = NoRecord)
      BY <1>0, <3>2
    <3>6. \A d \in Commands : d # c => at'[d] = at[d] /\ \A t \in Servers : cands'[d][t] = cands[d][t]
      BY <1>0, <3>2
    <3>7. LivesPast'
      <4>1. \A t \in Servers : Readable(t)' => Readable(t) /\ record'[t] = record[t]
        BY <3>5 DEF Readable, NoRecord
      <4>2. \A d \in Commands, t \in Servers : cands'[d][t] <= life[t]
        BY <1>0, <3>4 DEF RecordInv, LivesPast
      <4> QED
        BY <3>2, <4>1, <4>2 DEF RecordInv, LivesPast
    <3>8. FirstHasRecord'
      BY <1>0, <3>2, <3>3, <3>5 DEF RecordInv, FirstHasRecord, Readable, Serving
    <3>9. ForgetsTheDead'
      <4>1. at'[c] = "ask" \/ (at'[c] = "remove" /\ cands' = cands)
        <5>1. \A p \in {"ask", "remove"} : at' = [at EXCEPT ![c] = p] => at'[c] = p
          BY <1>0
        <5> QED
          BY <3>2, <5>1
      <4>2. \A d \in Commands : at'[d] \in {"forget", "remove"} =>
              /\ at[d] \in {"forget", "remove"} /\ asking[d] \in Servers
              /\ cands'[d][asking[d]] = cands[d][asking[d]]
        <5> SUFFICES ASSUME NEW d \in Commands, at'[d] \in {"forget", "remove"}
                     PROVE  /\ at[d] \in {"forget", "remove"} /\ asking[d] \in Servers
                            /\ cands'[d][asking[d]] = cands[d][asking[d]]
          OBVIOUS
        <5>1. CASE d = c
          BY <5>1, <3>2, <4>1 DEF AsksServer
        <5>2. CASE d # c
          BY <5>2, <3>6 DEF AsksServer
        <5> QED
          BY <5>1, <5>2
      <4> QED
        BY <3>2, <4>2 DEF RecordInv, ForgetsTheDead, Listening
    <3> QED
      BY <3>7, <3>8, <3>9 DEF RecordInv
  <2>4. CASE ReadLine(c) \/ GiveUp(c) \/ CheckItself(c)
    <3>1. /\ UNCHANGED <<life, record, pc, cands, asking>>
          /\ at' = [at EXCEPT ![c] = "answer"] \/ at' = [at EXCEPT ![c] = "hot"]
             \/ at' = [at EXCEPT ![c] = "ask"] \/ at' = [at EXCEPT ![c] = "cold"]
      BY <2>4 DEF ReadLine, GiveUp, CheckItself
    <3>2. \A d \in Commands : at'[d] \in {"forget", "remove"} => at'[d] = at[d]
      BY <1>0, <3>1
    <3> QED
      BY <3>1, <3>2 DEF RecordInv, LivesPast, ForgetsTheDead, FirstHasRecord, Readable, Listening, Serving
  <2> QED
    BY <1>7, <2>1, <2>2, <2>3, <2>4 DEF CommandStep
<1>8. ASSUME NEW f \in Files, NEW v \in OnDisk, Write(f, v) PROVE RecordInv'
  BY <1>2, <1>8 DEF Write
<1>9. ASSUME NEW s \in Servers, NEW f \in Files, EditorRead(s, f) PROVE RecordInv'
  BY <1>2, <1>9 DEF EditorRead
<1>10. ASSUME NEW c \in Commands, NEW s \in Servers, AcceptRequest(c, s) \/ TaskStep(c, s) PROVE RecordInv'
  BY <1>2, <1>10 DEF AcceptRequest, TaskStep, Gate, CheckRead, AnswerCheck, CancelCheck
<1>11. CASE UNCHANGED vars
  BY <1>2, <1>11 DEF vars
<1> QED
  BY <1>3, <1>4, <1>5, <1>6, <1>7, <1>8, <1>9, <1>10, <1>11 DEF Next, MainStep

\* A server with a process id of its own can be found for as long as it lives, whatever
\* the commands conclude from a connection that fails.
THEOREM StaysDiscoverable == Spec => []Discoverable
<1>1. Init => RecordInv
  BY DEF Init, RecordInv, LivesPast, ForgetsTheDead, FirstHasRecord, Readable, NoRecord, Serving
<1>2. RecordInv => Discoverable
  BY DEF RecordInv, FirstHasRecord, Serving, Discoverable
<1> QED
  BY <1>1, <1>2, RecordStep, TypeCorrect, PTL DEF Spec

-----------------------------------------------------------------------------
(* A request is accepted once, and answered once after that.               *)

Spoken(l) == \A i \in DOMAIN l : i <= 2 /\ (l[i].type = "accepted" <=> i = 1)

\* How far a connection is, from where its request is.
Told(r, l) ==
    /\ Spoken(l)
    /\ r.at \in {"none", "sent"} => ~r.accepted /\ Len(l) = 0
    /\ r.at = "queued" => Len(l) = IF r.accepted THEN 1 ELSE 0
    /\ r.at \in {"taken", "run", "check"} => r.accepted /\ Len(l) = 1

\* A command asks a server once.
Fresh(c, s) == at[c] = "start" \/ cands[c][s] # 0 => req[c][s].at = "none"

\* The main loop's queue holds requests that are queued, each of them once.
QueueSound(s) ==
    /\ \A i \in 1..Len(queue[s]) : req[queue[s][i]][s].at = "queued"
    /\ \A i, j \in 1..Len(queue[s]) : queue[s][i] = queue[s][j] => i = j

AllTold == \A c \in Commands, s \in Servers : Told(req[c][s], lines[c][s])
AllFresh == \A c \in Commands, s \in Servers : Fresh(c, s)
AllQueues == \A s \in Servers : QueueSound(s)
LinesInv == AllTold /\ AllFresh /\ AllQueues

LEMMA Appended ==
    ASSUME NEW l \in Seq(Answers), NEW a \in Answers
    PROVE  Spoken(l) /\ Len(l) = 1 /\ a.type # "accepted" => Spoken(Append(l, a))
<1>1. /\ DOMAIN Append(l, a) = 1..(Len(l) + 1) /\ DOMAIN l = 1..Len(l)
      /\ \A i \in 1..Len(l) : Append(l, a)[i] = l[i]
      /\ Append(l, a)[Len(l) + 1] = a
  OBVIOUS
<1>2. Len(l) = 1 => DOMAIN Append(l, a) = 1..2 /\ DOMAIN l = 1..1 /\ Append(l, a)[1] = l[1] /\ Append(l, a)[2] = a
  BY <1>1
<1> QED
  BY <1>2 DEF Spoken

LEMMA AcceptedFirst ==
    ASSUME NEW l \in Seq(Answers), Len(l) = 0
    PROVE  Spoken(Append(l, Accepted)) /\ Len(Append(l, Accepted)) = 1
<1>1. Accepted \in Answers /\ Accepted.type = "accepted"
  BY MessageTypes DEF Accepted, Answer
<1>2. Append(l, Accepted) = <<Accepted>>
  BY <1>1
<1> QED
  BY <1>1, <1>2 DEF Spoken

\* A step of one request that is not new and leaves the queue, or joins it, or is its head.
LEMMA OneRequest ==
    ASSUME TypeOK, LinesInv, NEW c \in Commands, NEW s \in Servers,
           req[c][s].at # "none", UNCHANGED <<at, cands>>,
           \A d \in Commands, t \in Servers : d # c \/ t # s =>
               req'[d][t] = req[d][t] /\ lines'[d][t] = lines[d][t],
           Told(req'[c][s], lines'[c][s]), req'[c][s].at # "none",
           \A t \in Servers \ {s} : queue'[t] = queue[t],
           \/ queue'[s] = queue[s] /\ req[c][s].at # "queued"
           \/ queue'[s] = Append(queue[s], c) /\ req[c][s].at # "queued" /\ req'[c][s].at = "queued"
           \/ queue[s] # <<>> /\ c = Head(queue[s]) /\ queue'[s] = Tail(queue[s])
    PROVE  LinesInv'
<1>0. queue[s] \in Seq(Commands) /\ \A t \in Servers : queue[t] \in Seq(Commands)
  BY DEF TypeOK
<1>1. AllTold'
  BY DEF LinesInv, AllTold
<1>2. AllFresh'
  BY DEF LinesInv, AllFresh, Fresh
<1>3. ASSUME NEW t \in Servers, t # s PROVE QueueSound(t)'
  <2>1. \A i \in 1..Len(queue[t]) : queue[t][i] \in Commands
    BY <1>0
  <2> QED
    BY <1>3, <2>1 DEF LinesInv, AllQueues, QueueSound
<1>4. QueueSound(s)'
  <2>0. QueueSound(s) /\ Len(queue[s]) \in Nat /\ \A i \in 1..Len(queue[s]) : queue[s][i] \in Commands
    BY <1>0 DEF LinesInv, AllQueues
  <2>1. CASE queue'[s] = queue[s] /\ req[c][s].at # "queued"
    BY <2>0, <2>1 DEF QueueSound
  <2>2. CASE queue'[s] = Append(queue[s], c) /\ req[c][s].at # "queued" /\ req'[c][s].at = "queued"
    <3>1. /\ Len(queue'[s]) = Len(queue[s]) + 1 /\ queue'[s][Len(queue[s]) + 1] = c
          /\ \A i \in 1..Len(queue[s]) : queue'[s][i] = queue[s][i]
      BY <1>0, <2>2
    <3>2. \A i \in 1..Len(queue[s]) : queue[s][i] # c
      BY <2>0, <2>2 DEF QueueSound
    <3>3. \A i \in 1..(Len(queue[s]) + 1) : i \in 1..Len(queue[s]) \/ i = Len(queue[s]) + 1
      BY <2>0
    <3>4. \A i \in 1..Len(queue'[s]) : req'[queue'[s][i]][s].at = "queued"
      BY <2>0, <2>2, <3>1, <3>2, <3>3 DEF QueueSound
    <3>5. \A i, j \in 1..Len(queue'[s]) : queue'[s][i] = queue'[s][j] => i = j
      BY <2>0, <3>1, <3>2, <3>3 DEF QueueSound
    <3> QED
      BY <3>4, <3>5 DEF QueueSound
  <2>3. CASE queue[s] # <<>> /\ c = Head(queue[s]) /\ queue'[s] = Tail(queue[s])
    <3>1. /\ Len(queue'[s]) = Len(queue[s]) - 1 /\ Len(queue[s]) >= 1 /\ c = queue[s][1]
          /\ \A i \in 1..(Len(queue[s]) - 1) : queue'[s][i] = queue[s][i + 1]
      BY <1>0, <2>3
    <3>2. \A i \in 1..(Len(queue[s]) - 1) : i + 1 \in 1..Len(queue[s]) /\ i + 1 # 1 /\ 1 \in 1..Len(queue[s])
      BY <2>0, <3>1
    <3>3. \A i \in 1..(Len(queue[s]) - 1) : queue'[s][i] \in Commands /\ queue'[s][i] # c
                                            /\ req[queue'[s][i]][s].at = "queued"
      <4>1. \A k \in 1..Len(queue[s]) : /\ queue[s][k] \in Commands /\ (k # 1 => queue[s][k] # c)
                                         /\ req[queue[s][k]][s].at = "queued"
        BY <2>0, <3>1 DEF QueueSound
      <4> QED
        BY <3>1, <3>2, <4>1
    <3>4. \A i, j \in 1..(Len(queue[s]) - 1) : i + 1 = j + 1 => i = j
      BY <2>0
    <3>5. \A i, j \in 1..(Len(queue[s]) - 1) : queue'[s][i] = queue'[s][j] => i = j
      BY <2>0, <3>1, <3>2, <3>4 DEF QueueSound
    <3> QED
      BY <3>1, <3>3, <3>5 DEF QueueSound
  <2> QED
    BY <2>1, <2>2, <2>3
<1> QED
  BY <1>1, <1>2, <1>3, <1>4 DEF LinesInv, AllQueues

\* A response of a request that is being run, and putting it back into the queue.
LEMMA LinesRespond ==
    ASSUME TypeOK, LinesInv, NEW c \in Commands, NEW s \in Servers, NEW a \in Answers,
           a.type # "accepted", req[c][s].at \in {"taken", "run", "check"},
           Respond(c, s, a), UNCHANGED <<at, cands, queue>>
    PROVE  LinesInv'
<1>1. lines[c][s] \in Seq(Answers) /\ Told(req[c][s], lines[c][s])
  BY DEF TypeOK, LinesInv, AllTold
<1>2. Spoken(Append(lines[c][s], a))
  BY <1>1, Appended DEF Told
<1>3. /\ req'[c][s].at = "end" /\ lines'[c][s] = Append(lines[c][s], a)
      /\ \A d \in Commands, t \in Servers : d # c \/ t # s =>
             req'[d][t] = req[d][t] /\ lines'[d][t] = lines[d][t]
  BY DEF Respond, TypeOK, NoRequest
<1>4. Told(req'[c][s], lines'[c][s])
  BY <1>2, <1>3 DEF Told
<1> QED
  BY <1>3, <1>4, OneRequest

LEMMA LinesRequeue ==
    ASSUME TypeOK, LinesInv, NEW c \in Commands, NEW s \in Servers, NEW r \in Requests,
           req[c][s].at \in {"run", "check"}, r.accepted = req[c][s].accepted,
           Requeue(c, s, r), UNCHANGED <<at, cands>>
    PROVE  LinesInv'
<1>1. Told(req[c][s], lines[c][s])
  BY DEF LinesInv, AllTold
<1>2. /\ req'[c][s].at = "queued" /\ req'[c][s].accepted = r.accepted /\ lines' = lines
      /\ \A d \in Commands, t \in Servers : d # c \/ t # s => req'[d][t] = req[d][t]
  BY DEF Requeue, TypeOK, Requests
<1>3. /\ queue'[s] = Append(queue[s], c)
      /\ \A t \in Servers \ {s} : queue'[t] = queue[t]
  BY DEF Requeue, TypeOK
<1>4. Told(req'[c][s], lines'[c][s])
  BY <1>1, <1>2 DEF Told
<1> QED
  BY <1>2, <1>3, <1>4, OneRequest

LEMMA LinesStep ==
    ASSUME TypeOK, AsksServer, LinesInv, [Next]_vars
    PROVE  LinesInv'
<1> USE DEF diskVars, lifeVars, sessionVars, commandVars
<1>0. /\ req \in [Commands -> [Servers -> Requests]] /\ lines \in [Commands -> [Servers -> Seq(Answers)]]
      /\ cands \in [Commands -> [Servers -> Nat]] /\ queue \in [Servers -> Seq(Commands)]
      /\ at \in [Commands -> {"start", "ask", "accept", "answer", "forget", "remove", "hot", "cold"}]
  BY DEF TypeOK
<1>1. ASSUME UNCHANGED <<req, lines, queue>>,
             \A c \in Commands, s \in Servers : at'[c] = "start" \/ cands'[c][s] # 0 =>
                 at[c] = "start" \/ cands[c][s] # 0
      PROVE  LinesInv'
  BY <1>1 DEF LinesInv, AllTold, AllFresh, AllQueues, Fresh, QueueSound
<1>2. ASSUME UNCHANGED <<req, lines, queue, at, cands>> PROVE LinesInv'
  BY <1>1, <1>2
<1>3. ASSUME NEW s \in Servers, StopServer(s) PROVE LinesInv'
  <2>1. /\ queue' = [queue EXCEPT ![s] = <<>>] /\ UNCHANGED <<lines, at, cands>>
        /\ req' = [c \in Commands |-> IF req[c][s].at = "none" THEN req[c]
                                      ELSE [req[c] EXCEPT ![s] = [NoRequest EXCEPT !.at = "end"]]]
    BY <1>3 DEF StopServer
  <2>2. \A c \in Commands, t \in Servers :
          req'[c][t] = req[c][t] \/ (t = s /\ req[c][t].at # "none" /\ req'[c][t].at = "end")
    BY <1>0, <2>1 DEF NoRequest
  <2>3. AllTold'
    BY <2>1, <2>2 DEF LinesInv, AllTold, Told
  <2>4. AllFresh'
    BY <2>1, <2>2 DEF LinesInv, AllFresh, Fresh
  <2>5. ASSUME NEW t \in Servers PROVE QueueSound(t)'
    <3>1. CASE t = s
      BY <1>0, <2>1, <3>1 DEF QueueSound
    <3>2. CASE t # s
      <4>1. queue'[t] = queue[t] /\ \A c \in Commands : req'[c][t] = req[c][t]
        BY <1>0, <2>1, <2>2, <3>2
      <4>2. \A i \in 1..Len(queue[t]) : queue[t][i] \in Commands
        BY <1>0
      <4> QED
        BY <4>1, <4>2 DEF LinesInv, AllQueues, QueueSound
    <3> QED
      BY <3>1, <3>2
  <2> QED
    BY <2>3, <2>4, <2>5 DEF LinesInv, AllQueues
<1>4. ASSUME NEW s \in Servers, RescanSession(s) PROVE LinesInv'
  <2>1. /\ UNCHANGED <<lines, queue, at, cands>>
        /\ req' = [c \in Commands |-> IF req[c][s].at = "taken" THEN [req[c] EXCEPT ![s].at = "run"] ELSE req[c]]
    BY <1>4 DEF RescanSession
  <2>2. \A c \in Commands, t \in Servers :
          \/ req'[c][t] = req[c][t]
          \/ req[c][t].at = "taken" /\ req'[c][t].at = "run" /\ req'[c][t].accepted = req[c][t].accepted
    BY <1>0, <2>1 DEF Requests
  <2>3. AllTold'
    BY <2>1, <2>2 DEF LinesInv, AllTold, Told
  <2>4. AllFresh'
    BY <2>1, <2>2 DEF LinesInv, AllFresh, Fresh
  <2>5. AllQueues'
    <3>1. \A t \in Servers : \A i \in 1..Len(queue[t]) : queue[t][i] \in Commands
      BY <1>0
    <3> QED
      BY <2>1, <2>2, <3>1 DEF LinesInv, AllQueues, QueueSound
  <2> QED
    BY <2>3, <2>4, <2>5 DEF LinesInv
<1>5. ASSUME NEW s \in Servers, TakeRequest(s) PROVE LinesInv'
  <2>0. queue[s] # <<>> /\ Len(queue[s]) \in Nat /\ Len(queue[s]) >= 1 /\ queue[s][1] \in Commands
        /\ Head(queue[s]) = queue[s][1]
    BY <1>0, <1>5 DEF TakeRequest
  <2>1. PICK c \in Commands : c = Head(queue[s])
    BY <2>0
  <2>2. req[c][s].at = "queued" /\ Told(req[c][s], lines[c][s]) /\ lines[c][s] \in Seq(Answers)
    BY <1>0, <2>0, <2>1 DEF LinesInv, AllQueues, QueueSound, AllTold
  <2>3. /\ queue'[s] = Tail(queue[s]) /\ \A t \in Servers \ {s} : queue'[t] = queue[t]
        /\ UNCHANGED <<at, cands>>
    BY <1>0, <1>5 DEF TakeRequest
  <2>4. CASE req' = [req EXCEPT ![c][s] = Taken(req[c][s])] /\
             lines' = IF req[c][s].accepted THEN lines ELSE [lines EXCEPT ![c][s] = Append(@, Accepted)]
    <3>1. /\ \A d \in Commands, t \in Servers : d # c \/ t # s => req'[d][t] = req[d][t]
          /\ req'[c][s] = Taken(req[c][s])
      BY <1>0, <2>4
    <3>2. Taken(req[c][s]).accepted /\ Taken(req[c][s]).at \in {"taken", "run"}
      <4>1. req[c][s] \in Requests
        BY <1>0
      <4>2. CASE req[c][s].rescanned
        BY <4>1, <4>2 DEF Taken, Requests
      <4>3. CASE ~req[c][s].rescanned
        BY <4>1, <4>3 DEF Taken, Requests
      <4> QED
        BY <4>2, <4>3
    <3>3. /\ \A d \in Commands, t \in Servers : d # c \/ t # s => lines'[d][t] = lines[d][t]
          /\ lines'[c][s] = IF req[c][s].accepted THEN lines[c][s] ELSE Append(lines[c][s], Accepted)
      BY <1>0, <2>4
    <3>4. Told(req'[c][s], lines'[c][s])
      <4>1. CASE req[c][s].accepted
        BY <2>2, <3>1, <3>2, <3>3, <4>1 DEF Told
      <4>2. CASE ~req[c][s].accepted
        <5>1. Len(lines[c][s]) = 0
          BY <2>2, <4>2 DEF Told
        <5>2. Spoken(Append(lines[c][s], Accepted)) /\ Len(Append(lines[c][s], Accepted)) = 1
          BY <2>2, <5>1, AcceptedFirst
        <5> QED
          BY <3>1, <3>2, <3>3, <4>2, <5>2 DEF Told
      <4> QED
        BY <4>1, <4>2
    <3> QED
      BY <2>0, <2>1, <2>2, <2>3, <3>1, <3>2, <3>3, <3>4, OneRequest
  <2>5. CASE req' = [req EXCEPT ![c][s].at = "end"] /\ UNCHANGED lines
    <3>1. /\ \A d \in Commands, t \in Servers : d # c \/ t # s => req'[d][t] = req[d][t]
          /\ req'[c][s].at = "end"
      BY <1>0, <2>5 DEF Requests
    <3>2. Told(req'[c][s], lines'[c][s])
      BY <2>2, <2>5, <3>1 DEF Told
    <3>3. \A d \in Commands, t \in Servers : d # c \/ t # s =>
            req'[d][t] = req[d][t] /\ lines'[d][t] = lines[d][t]
      BY <2>5, <3>1
    <3> QED
      BY <2>0, <2>1, <2>2, <2>3, <3>1, <3>2, <3>3, OneRequest
  <2> QED
    BY <1>5, <2>1, <2>4, <2>5 DEF TakeRequest
<1>6. ASSUME NEW c \in Commands, NEW s \in Servers, AcceptRequest(c, s) PROVE LinesInv'
  <2>1. Told(req[c][s], lines[c][s]) /\ req[c][s].at = "sent" /\ UNCHANGED <<lines, at, cands>>
    BY <1>6 DEF AcceptRequest, LinesInv, AllTold
  <2>2. CASE req' = [req EXCEPT ![c][s].at = "queued"] /\ queue' = [queue EXCEPT ![s] = Append(@, c)]
    <3>1. /\ \A d \in Commands, t \in Servers : d # c \/ t # s => req'[d][t] = req[d][t]
          /\ req'[c][s].at = "queued" /\ req'[c][s].accepted = req[c][s].accepted
      BY <1>0, <2>2 DEF Requests
    <3>2. queue'[s] = Append(queue[s], c) /\ \A t \in Servers \ {s} : queue'[t] = queue[t]
      BY <1>0, <2>2
    <3>3. Told(req'[c][s], lines'[c][s])
      BY <2>1, <3>1 DEF Told
    <3> QED
      BY <2>1, <3>1, <3>2, <3>3, OneRequest
  <2>3. CASE req' = [req EXCEPT ![c][s].at = "end"] /\ UNCHANGED queue
    <3>1. /\ \A d \in Commands, t \in Servers : d # c \/ t # s => req'[d][t] = req[d][t]
          /\ req'[c][s].at = "end"
      BY <1>0, <2>3 DEF Requests
    <3>2. Told(req'[c][s], lines'[c][s])
      BY <2>1, <3>1 DEF Told
    <3> QED
      BY <2>1, <2>3, <3>1, <3>2, OneRequest
  <2> QED
    BY <1>6, <2>2, <2>3 DEF AcceptRequest
<1>7. ASSUME NEW c \in Commands, NEW s \in Servers, TaskStep(c, s) PROVE LinesInv'
  <2>0. /\ Told(req[c][s], lines[c][s]) /\ req[c][s] \in Requests
        /\ UNCHANGED <<at, cands>>
    BY <1>0, <1>7 DEF TaskStep, Gate, CheckRead, AnswerCheck, CancelCheck, LinesInv, AllTold
  <2>1. Refused \in Answers /\ Refused.type # "accepted"
    BY MessageTypes DEF Refused, Answer
  <2>2. CASE Gate(c, s)
    <3>1. CASE Respond(c, s, Refused) /\ UNCHANGED queue
      BY <2>0, <2>1, <2>2, <3>1, LinesRespond DEF Gate
    <3>2. CASE Requeue(c, s, [req[c][s] EXCEPT !.rescanned = TRUE])
      <4>1. [req[c][s] EXCEPT !.rescanned = TRUE] \in Requests
            /\ [req[c][s] EXCEPT !.rescanned = TRUE].accepted = req[c][s].accepted
        BY <2>0 DEF Requests
      <4> QED
        BY <2>0, <2>2, <3>2, <4>1, LinesRequeue DEF Gate
    <3>3. CASE req' = [req EXCEPT ![c][s].at = "check"] /\ UNCHANGED <<queue, lines>>
      <4>1. /\ \A d \in Commands, t \in Servers : d # c \/ t # s => req'[d][t] = req[d][t]
            /\ req'[c][s].at = "check" /\ req'[c][s].accepted = req[c][s].accepted
        BY <1>0, <3>3 DEF Requests
      <4>2. req[c][s].at = "run"
        BY <2>2 DEF Gate
      <4>3. Told(req'[c][s], lines'[c][s])
        BY <2>0, <3>3, <4>1, <4>2 DEF Told
      <4> QED
        BY <2>0, <3>3, <4>1, <4>2, <4>3, OneRequest
    <3> QED
      BY <2>2, <3>1, <3>2, <3>3 DEF Gate
  <2>3. ASSUME NEW f \in Files, CheckRead(c, s, f) PROVE LinesInv'
    <3>1. PICK v : req' = [req EXCEPT ![c][s].seen[f] = v]
      BY <2>3 DEF CheckRead
    <3>2. /\ \A d \in Commands, t \in Servers : d # c \/ t # s => req'[d][t] = req[d][t]
          /\ req'[c][s].at = "check" /\ req'[c][s].accepted = req[c][s].accepted
          /\ req[c][s].at = "check"
      BY <1>0, <2>3, <3>1 DEF Requests, CheckRead
    <3>3. UNCHANGED <<lines, queue>>
      BY <2>3 DEF CheckRead
    <3>4. Told(req'[c][s], lines'[c][s])
      BY <2>0, <3>2, <3>3 DEF Told
    <3> QED
      BY <2>0, <3>2, <3>3, <3>4, OneRequest
  <2>4. CASE AnswerCheck(c, s)
    <3> DEFINE a == Answer("check", [f \in Files |-> IF f \in index[s] THEN req[c][s].seen[f] ELSE Absent])
    <3>1. a \in Answers /\ a.type # "accepted"
      <4>1. [f \in Files |-> IF f \in index[s] THEN req[c][s].seen[f] ELSE Absent] \in [Files -> Texts]
        BY <2>0 DEF Requests, Texts, OnDisk
      <4> QED
        BY <4>1 DEF Answer, Answers
    <3>2. Respond(c, s, a) /\ UNCHANGED queue /\ req[c][s].at = "check"
      BY <2>4 DEF AnswerCheck
    <3> HIDE DEF a
    <3> QED
      BY <2>0, <3>1, <3>2, LinesRespond
  <2>5. CASE CancelCheck(c, s)
    <3>1. CASE Respond(c, s, Refused) /\ UNCHANGED queue
      BY <2>0, <2>1, <2>5, <3>1, LinesRespond DEF CancelCheck
    <3>2. CASE Requeue(c, s, Retried(req[c][s]))
      <4>1. Retried(req[c][s]) \in Requests /\ Retried(req[c][s]).accepted = req[c][s].accepted
        BY <2>0 DEF Retried, Requests
      <4> QED
        BY <2>0, <2>5, <3>2, <4>1, LinesRequeue DEF CancelCheck
    <3> QED
      BY <2>5, <3>1, <3>2 DEF CancelCheck
  <2> QED
    BY <1>7, <2>2, <2>3, <2>4, <2>5 DEF TaskStep
<1>8. ASSUME NEW c \in Commands, CommandStep(c) PROVE LinesInv'
  <2>1. CASE StartCommand(c)
    <3>1. at[c] = "start" /\ at' = [at EXCEPT ![c] = "ask"] /\ UNCHANGED <<req, lines, queue>>
          /\ \A d \in Commands \ {c} : cands'[d] = cands[d]
      BY <1>0, <2>1 DEF StartCommand
    <3>2. \A d \in Commands : at'[d] = "start" => at[d] = "start"
      BY <1>0, <3>1
    <3> QED
      BY <1>1, <3>1, <3>2
  <2>2. ASSUME NEW s \in Servers, Connect(c, s) PROVE LinesInv'
    <3>1. CASE /\ Listening(c, s) /\ at' = [at EXCEPT ![c] = "accept"]
               /\ cands' = [cands EXCEPT ![c][s] = 0] /\ req' = [req EXCEPT ![c][s].at = "sent"]
      <4>0. /\ cands[c][s] # 0 /\ at[c] = "ask" /\ UNCHANGED <<queue, lines>>
            /\ Told(req[c][s], lines[c][s]) /\ req[c][s].at = "none"
        BY <2>2 DEF Connect, LinesInv, AllTold, AllFresh, Fresh
      <4>1. /\ \A d \in Commands, t \in Servers : d # c \/ t # s =>
                   req'[d][t] = req[d][t] /\ cands'[d][t] = cands[d][t]
            /\ req'[c][s].at = "sent" /\ req'[c][s].accepted = req[c][s].accepted /\ cands'[c][s] = 0
        BY <1>0, <3>1 DEF Requests
      <4>2. AllTold'
        BY <4>0, <4>1 DEF LinesInv, AllTold, Told
      <4>3. AllFresh'
        <5>1. \A d \in Commands : at'[d] = "start" => at[d] = "start" /\ d # c
          BY <1>0, <3>1
        <5> QED
          BY <4>0, <4>1, <5>1 DEF LinesInv, AllFresh, Fresh
      <4>4. AllQueues'
        <5>1. \A t \in Servers : \A i \in 1..Len(queue[t]) :
                queue[t][i] \in Commands /\ (queue[t][i] # c \/ t # s)
          BY <1>0, <4>0 DEF LinesInv, AllQueues, QueueSound
        <5> QED
          BY <4>0, <4>1, <5>1 DEF LinesInv, AllQueues, QueueSound
      <4> QED
        BY <4>2, <4>3, <4>4 DEF LinesInv
    <3>2. CASE at' = [at EXCEPT ![c] = "forget"] /\ UNCHANGED <<cands, req>>
      <4>1. \A d \in Commands : at'[d] = "start" => at[d] = "start"
        BY <1>0, <3>2
      <4> QED
        BY <1>1, <2>2, <3>2, <4>1 DEF Connect
    <3> QED
      BY <2>2, <3>1, <3>2 DEF Connect
  <2>3. CASE Forget(c)
    <3>1. PICK s \in Servers : s = asking[c]
      BY <2>3 DEF Forget, AsksServer
    <3>2. /\ at' = [at EXCEPT ![c] = "ask"] \/ at' = [at EXCEPT ![c] = "remove"]
          /\ cands' = cands \/ cands' = [cands EXCEPT ![c][s] = 0]
          /\ UNCHANGED <<req, lines, queue>>
      BY <2>3, <3>1 DEF Forget
    <3>3. \A d \in Commands, t \in Servers : cands'[d][t] # 0 => cands[d][t] # 0
      <4>1. CASE cands' = [cands EXCEPT ![c][s] = 0]
        BY <1>0, <4>1
      <4> QED
        BY <3>2, <4>1
    <3>4. \A d \in Commands : at'[d] = "start" => at[d] = "start"
      BY <1>0, <3>2
    <3> QED
      BY <1>1, <3>2, <3>3, <3>4
  <2>4. CASE ReadLine(c) \/ GiveUp(c) \/ CheckItself(c)
    <3>1. /\ UNCHANGED <<req, lines, queue, cands>>
          /\ at' = [at EXCEPT ![c] = "answer"] \/ at' = [at EXCEPT ![c] = "hot"]
             \/ at' = [at EXCEPT ![c] = "ask"] \/ at' = [at EXCEPT ![c] = "cold"]
      BY <2>4 DEF ReadLine, GiveUp, CheckItself
    <3>2. \A d \in Commands : at'[d] = "start" => at[d] = "start"
      BY <1>0, <3>1
    <3> QED
      BY <1>1, <3>1, <3>2
  <2> QED
    BY <1>8, <2>1, <2>2, <2>3, <2>4 DEF CommandStep
<1>9. ASSUME NEW f \in Files, NEW v \in OnDisk, Write(f, v) PROVE LinesInv'
  BY <1>2, <1>9 DEF Write
<1>10. ASSUME NEW s \in Servers, NEW f \in Files, EditorRead(s, f) PROVE LinesInv'
  BY <1>2, <1>10 DEF EditorRead
<1>11. ASSUME NEW s \in Servers, StartServer(s) \/ Publish(s) \/ ReceiveEdit(s) \/ ApplyEdit(s)
       PROVE  LinesInv'
  BY <1>2, <1>11 DEF StartServer, Publish, ReceiveEdit, ApplyEdit
<1>12. CASE UNCHANGED vars
  BY <1>2, <1>12 DEF vars
<1> QED
  BY <1>3, <1>4, <1>5, <1>6, <1>7, <1>8, <1>9, <1>10, <1>11, <1>12 DEF Next, MainStep

LEMMA LinesInit ==
    ASSUME Init
    PROVE  LinesInv
<1>1. \A c \in Commands, s \in Servers : req[c][s] = NoRequest /\ lines[c][s] = <<>> /\ queue[s] = <<>>
  BY DEF Init
<1>2. Spoken(<<>>) /\ Len(<<>>) = 0
  BY DEF Spoken
<1>3. AllTold /\ AllFresh
  BY <1>1, <1>2 DEF AllTold, Told, AllFresh, Fresh, NoRequest
<1>4. AllQueues
  <2>1. \A s \in Servers : queue[s] = <<>>
    BY DEF Init
  <2> QED
    BY <2>1 DEF AllQueues, QueueSound
<1> QED
  BY <1>3, <1>4 DEF LinesInv

\* However many passes a request takes, its connection carries one acceptance, before
\* anything else, and one answer.
THEOREM OneAcceptance == Spec => []AcceptedOnce
<1>1. LinesInv => AcceptedOnce
  BY DEF LinesInv, AllTold, Told, Spoken, AcceptedOnce
<1> QED
  BY <1>1, LinesInit, LinesStep, TypeCorrect, PTL DEF Spec

-----------------------------------------------------------------------------
(* What an answer says of a file has been on disk while the command ran.   *)

Runs(c) == at[c] \notin {"start", "hot", "cold"}

\* A request that may read the session after the rescan.
Reading(r) == r.at = "check" \/ (r.at = "run" /\ r.rescanned)

DeadIsEmpty ==
    \A s \in Servers : pc[s] = "dead" =>
        /\ \A f \in Files : buffer[s][f] = None /\ text[s][f] = None
        /\ \A c \in Commands : req[c][s].at \in {"none", "end"}

\* A closed file's text is what is on disk, unless it has been written since it was looked at.
TextsCurrent ==
    \A s \in Servers, f \in Files : ~Open(s, f) /\ f \notin stale[s] => text[s][f] \in {None, disk[f]}

DiskSince == \A c \in Commands, f \in Files : Runs(c) => disk[f] \in since[c][f]

\* The rescan has left no closed text, and no absence, from before the command.
SessionSince ==
    \A c \in Commands, s \in Servers, f \in Files : Runs(c) /\ Reading(req[c][s]) =>
        /\ ~Open(s, f) => text[s][f] \in {None} \cup since[c][f]
        /\ f \notin index[s] => Absent \in since[c][f]

\* The gate has left no open text that is not the file's.
CheckSince ==
    \A c \in Commands, s \in Servers, f \in Files :
        /\ req[c][s].at # "check" => req[c][s].seen[f] = None
        /\ Runs(c) /\ req[c][s].at = "check" =>
               /\ req[c][s].seen[f] \in {None} \cup since[c][f]
               /\ Open(s, f) => buffer[s][f] \in since[c][f]

SaysSince(c, l) ==
    \A i \in DOMAIN l : l[i].type = "check" => \A f \in Files : l[i].seen[f] \in since[c][f]

LinesSince == \A c \in Commands, s \in Servers : Runs(c) => SaysSince(c, lines[c][s])

ColdInv ==
    DeadIsEmpty /\ TextsCurrent /\ DiskSince /\ SessionSince /\ CheckSince /\ LinesSince /\ HotIsCold

\* A step of one request, after which it reads nothing, and of its connection.
LEMMA RequestRests ==
    ASSUME TypeOK, ColdInv, NEW c \in Commands, NEW s \in Servers,
           UNCHANGED <<disk, since, printed, sessionVars>>,
           \A d \in Commands : (Runs(d)' => Runs(d)) /\ (at'[d] = "hot" => at[d] = "hot"),
           \A t \in Servers : pc'[t] = "dead" => pc[t] = "dead",
           \A d \in Commands, t \in Servers : d # c \/ t # s =>
               req'[d][t] = req[d][t] /\ lines'[d][t] = lines[d][t],
           pc[s] # "dead", ~Reading(req'[c][s]), \A f \in Files : req'[c][s].seen[f] = None,
           Runs(c) => SaysSince(c, lines'[c][s])
    PROVE  ColdInv'
<1> USE DEF sessionVars
<1>1. DeadIsEmpty'
  BY DEF ColdInv, DeadIsEmpty
<1>2. TextsCurrent'
  BY DEF ColdInv, TextsCurrent, Open
<1>3. DiskSince'
  BY DEF ColdInv, DiskSince
<1>4. SessionSince'
  BY DEF ColdInv, SessionSince, Open
<1>5. CheckSince'
  BY DEF ColdInv, CheckSince, Open, Reading
<1>6. LinesSince'
  BY DEF ColdInv, LinesSince, SaysSince
<1>7. HotIsCold'
  BY DEF ColdInv, HotIsCold
<1> QED
  BY <1>1, <1>2, <1>3, <1>4, <1>5, <1>6, <1>7 DEF ColdInv

\* A step of a server or a command that leaves requests and connections alone.
LEMMA RequestsRest ==
    ASSUME TypeOK, ColdInv, UNCHANGED <<disk, since, printed, sessionVars, req, lines>>,
           \A d \in Commands : (Runs(d)' => Runs(d)) /\ (at'[d] = "hot" => at[d] = "hot"),
           \A t \in Servers : pc'[t] = "dead" => pc[t] = "dead"
    PROVE  ColdInv'
<1> USE DEF sessionVars
<1>1. DeadIsEmpty' /\ TextsCurrent'
  BY DEF ColdInv, DeadIsEmpty, TextsCurrent, Open
<1>2. DiskSince' /\ SessionSince'
  BY DEF ColdInv, DiskSince, SessionSince, Open
<1>3. CheckSince'
  BY DEF ColdInv, CheckSince, Open
<1>4. LinesSince' /\ HotIsCold'
  BY DEF ColdInv, LinesSince, SaysSince, HotIsCold
<1> QED
  BY <1>1, <1>2, <1>3, <1>4 DEF ColdInv

LEMMA ColdWrite ==
    ASSUME TypeOK, ColdInv, NEW g \in Files, NEW v \in OnDisk, Write(g, v)
    PROVE  ColdInv'
<1> USE DEF lifeVars, commandVars
<1>0. /\ disk \in [Files -> OnDisk] /\ since \in [Commands -> [Files -> SUBSET OnDisk]]
      /\ stale \in [Servers -> SUBSET Files]
  BY DEF TypeOK
<1>1. UNCHANGED <<pc, buffer, text, index, req, lines, at, printed>>
  BY DEF Write
<1>2. /\ \A f \in Files : disk'[f] = IF f = g THEN v ELSE disk[f]
      /\ \A s \in Servers : pc[s] # "dead" => stale'[s] = stale[s] \cup {g}
  BY <1>0 DEF Write
<1>3. \A c \in Commands : /\ ~Runs(c) => since'[c] = since[c]
                          /\ Runs(c) => since'[c][g] = since[c][g] \cup {v} /\ \A f \in Files \ {g} : since'[c][f] = since[c][f]
  BY <1>0 DEF Write, Runs
<1>4. \A c \in Commands, f \in Files : since[c][f] \subseteq since'[c][f]
  BY <1>3
<1>5. DeadIsEmpty'
  BY <1>1 DEF ColdInv, DeadIsEmpty
<1>6. TextsCurrent'
  <2>1. \A s \in Servers, f \in Files : pc[s] = "dead" => text[s][f] = None
    BY DEF ColdInv, DeadIsEmpty
  <2> QED
    BY <1>1, <1>2, <2>1 DEF ColdInv, TextsCurrent, Open
<1>7. DiskSince'
  BY <1>1, <1>2, <1>3 DEF ColdInv, DiskSince, Runs
<1>8. SessionSince'
  BY <1>1, <1>4 DEF ColdInv, SessionSince, Runs, Reading, Open
<1>9. CheckSince'
  BY <1>1, <1>4 DEF ColdInv, CheckSince, Runs, Open
<1>10. LinesSince'
  BY <1>1, <1>4 DEF ColdInv, LinesSince, SaysSince, Runs
<1>11. HotIsCold'
  BY <1>1, <1>4 DEF ColdInv, HotIsCold
<1> QED
  BY <1>5, <1>6, <1>7, <1>8, <1>9, <1>10, <1>11 DEF ColdInv

\* A step that writes the session of s, while no request reads it.
LEMMA ColdSession ==
    ASSUME TypeOK, ColdInv, NEW s \in Servers,
           UNCHANGED <<disk, since, printed, req, lines, at>>,
           \A c \in Commands : ~Reading(req[c][s]),
           \A t \in Servers : pc'[t] = "dead" => pc[t] = "dead" /\ t # s,
           \A t \in Servers \ {s} : /\ buffer'[t] = buffer[t] /\ text'[t] = text[t]
                                    /\ stale'[t] = stale[t] /\ index'[t] = index[t],
           \A f \in Files : ~Open(s, f)' /\ f \notin stale'[s] => text'[s][f] \in {None, disk[f]}
    PROVE  ColdInv'
<1>1. DeadIsEmpty'
  BY DEF ColdInv, DeadIsEmpty
<1>2. TextsCurrent'
  BY DEF ColdInv, TextsCurrent, Open
<1>3. DiskSince' /\ LinesSince' /\ HotIsCold'
  BY DEF ColdInv, DiskSince, LinesSince, SaysSince, HotIsCold, Runs
<1>4. SessionSince'
  BY DEF ColdInv, SessionSince, Runs, Open
<1>5. CheckSince'
  BY DEF ColdInv, CheckSince, Runs, Reading, Open
<1> QED
  BY <1>1, <1>2, <1>3, <1>4, <1>5 DEF ColdInv

LEMMA ColdEdit ==
    ASSUME TypeOK, ColdInv, NEW s \in Servers, ApplyEdit(s)
    PROVE  ColdInv'
<1> USE DEF diskVars, lifeVars, commandVars
<1>0. /\ buffer \in [Servers -> [Files -> Contents \cup {None}]] /\ text \in [Servers -> [Files -> Texts]]
      /\ stale \in [Servers -> SUBSET Files] /\ index \in [Servers -> SUBSET Files]
      /\ pc \in [Servers -> {"dead", "starting", "idle", "edit", "rescan"}]
  BY DEF TypeOK
<1>1. /\ UNCHANGED <<disk, since, printed, req, lines, at>>
      /\ \A c \in Commands : ~Reading(req[c][s])
      /\ \A t \in Servers : pc'[t] = "dead" => pc[t] = "dead" /\ t # s
  BY <1>0 DEF ApplyEdit, Alone, Reading
<1>2. \A f \in Files : ~Open(s, f) /\ f \notin stale[s] => text[s][f] \in {None, disk[f]}
  BY DEF ColdInv, TextsCurrent
<1>3. ASSUME NEW g \in Files, NEW v \in Contents, buffer' = [buffer EXCEPT ![s][g] = v],
             index' = [index EXCEPT ![s] = @ \cup {g}], UNCHANGED <<text, stale>>
      PROVE  ColdInv'
  <2>1. \A t \in Servers \ {s} : buffer'[t] = buffer[t] /\ index'[t] = index[t]
    BY <1>0, <1>3
  <2>2. \A f \in Files : buffer'[s][f] = None => buffer[s][f] = None
    BY <1>0, <1>3, ProjectServerAssumption
  <2>3. \A f \in Files : ~Open(s, f)' /\ f \notin stale'[s] => text'[s][f] \in {None, disk[f]}
    BY <1>2, <1>3, <2>2 DEF Open
  <2> QED
    BY <1>1, <1>3, <2>1, <2>3, ColdSession
<1>4. ASSUME NEW g \in Files, SyncFile(s, g),
             (Open(s, g) /\ buffer' = [buffer EXCEPT ![s][g] = None]) \/ UNCHANGED buffer
      PROVE  ColdInv'
  <2>1. \A t \in Servers \ {s} : /\ buffer'[t] = buffer[t] /\ text'[t] = text[t]
                                 /\ stale'[t] = stale[t] /\ index'[t] = index[t]
    BY <1>0, <1>4 DEF SyncFile
  <2>2. /\ \A f \in Files \ {g} : buffer'[s][f] = buffer[s][f] /\ text'[s][f] = text[s][f]
        /\ text'[s][g] = (IF g \in stale[s] \/ Open(s, g) THEN None ELSE text[s][g])
        /\ stale'[s] = stale[s] \ {g}
    BY <1>0, <1>4 DEF SyncFile
  <2>3. \A f \in Files : ~Open(s, f)' /\ f \notin stale'[s] => text'[s][f] \in {None, disk[f]}
    BY <1>2, <2>2 DEF Open
  <2> QED
    BY <1>1, <2>1, <2>3, ColdSession
<1>5. CASE UNCHANGED sessionVars
  BY <1>1, <1>2, <1>5, ColdSession DEF Open, sessionVars
<1> QED
  BY <1>3, <1>4, <1>5 DEF ApplyEdit

LEMMA ColdRescan ==
    ASSUME TypeOK, ColdInv, NEW s \in Servers, RescanSession(s)
    PROVE  ColdInv'
<1> USE DEF diskVars, lifeVars, commandVars
<1>0. /\ text \in [Servers -> [Files -> Texts]] /\ disk \in [Files -> OnDisk]
      /\ stale \in [Servers -> SUBSET Files] /\ index \in [Servers -> SUBSET Files]
      /\ pc \in [Servers -> {"dead", "starting", "idle", "edit", "rescan"}]
      /\ req \in [Commands -> [Servers -> Requests]]
  BY DEF TypeOK
<1>1. /\ UNCHANGED <<disk, since, printed, lines, at, buffer>> /\ pc[s] = "rescan"
      /\ \A t \in Servers : pc'[t] = "dead" => pc[t] = "dead" /\ t # s
      /\ \A c \in Commands : req[c][s].at \notin {"run", "check"}
  BY <1>0 DEF RescanSession, Alone
<1>2. /\ \A t \in Servers \ {s} : text'[t] = text[t] /\ stale'[t] = stale[t] /\ index'[t] = index[t]
      /\ \A f \in Files : text'[s][f] = IF f \in Looked(s) THEN None ELSE text[s][f]
      /\ stale'[s] = stale[s] \ Looked(s)
      /\ \A f \in Files : f \notin index'[s] => disk[f] = Absent
  BY <1>0 DEF RescanSession, Existing
<1>3. \A c \in Commands, t \in Servers :
        \/ req'[c][t] = req[c][t]
        \/ t = s /\ req[c][t].at = "taken" /\ req'[c][t].at = "run" /\ req'[c][t].seen = req[c][t].seen
  BY <1>0 DEF RescanSession, Requests
<1>4. DeadIsEmpty'
  BY <1>1, <1>2, <1>3 DEF ColdInv, DeadIsEmpty
<1>5. TextsCurrent'
  BY <1>1, <1>2 DEF ColdInv, TextsCurrent, Open, Looked
<1>6. DiskSince' /\ LinesSince' /\ HotIsCold'
  BY <1>1 DEF ColdInv, DiskSince, LinesSince, SaysSince, HotIsCold, Runs
<1>7. SessionSince'
  <2> SUFFICES ASSUME NEW c \in Commands, NEW t \in Servers, NEW f \in Files, Runs(c)', Reading(req[c][t])'
               PROVE  /\ ~Open(t, f)' => text'[t][f] \in {None} \cup since'[c][f]
                      /\ f \notin index'[t] => Absent \in since'[c][f]
    BY DEF SessionSince
  <2>1. Runs(c) /\ disk[f] \in since[c][f]
    BY <1>1 DEF Runs, ColdInv, DiskSince
  <2>2. CASE t = s
    <3>1. ~Open(s, f)' => f \notin stale'[s]
      BY <1>1, <1>2 DEF Open, Looked
    <3>2. ~Open(s, f)' => text'[s][f] \in {None, disk[f]}
      BY <1>1, <1>5, <3>1 DEF TextsCurrent
    <3> QED
      BY <1>1, <1>2, <2>1, <2>2, <3>2
  <2>3. CASE t # s
    BY <1>1, <1>2, <1>3, <2>1, <2>3 DEF ColdInv, SessionSince, Open
  <2> QED
    BY <2>2, <2>3
<1>8. CheckSince'
  BY <1>1, <1>3 DEF ColdInv, CheckSince, Runs, Open
<1> QED
  BY <1>4, <1>5, <1>6, <1>7, <1>8 DEF ColdInv

LEMMA ColdServer ==
    ASSUME TypeOK, ColdInv, NEW s \in Servers, StartServer(s) \/ StopServer(s)
    PROVE  ColdInv'
<1> USE DEF diskVars, lifeVars, sessionVars, commandVars
<1>0. /\ buffer \in [Servers -> [Files -> Contents \cup {None}]] /\ text \in [Servers -> [Files -> Texts]]
      /\ stale \in [Servers -> SUBSET Files] /\ index \in [Servers -> SUBSET Files]
      /\ pc \in [Servers -> {"dead", "starting", "idle", "edit", "rescan"}]
      /\ req \in [Commands -> [Servers -> Requests]]
  BY DEF TypeOK
<1>1. CASE StartServer(s)
  <2>1. /\ UNCHANGED <<disk, since, printed, req, lines, at, buffer, text, stale>>
        /\ pc[s] = "dead" /\ \A t \in Servers : pc'[t] = "dead" => pc[t] = "dead" /\ t # s
        /\ \A t \in Servers \ {s} : index'[t] = index[t]
    BY <1>0, <1>1 DEF StartServer
  <2>2. \A c \in Commands : ~Reading(req[c][s])
    BY <2>1 DEF ColdInv, DeadIsEmpty, Reading
  <2>3. \A f \in Files : ~Open(s, f)' /\ f \notin stale'[s] => text'[s][f] \in {None, disk[f]}
    BY <2>1 DEF ColdInv, TextsCurrent, Open
  <2>4. \A t \in Servers \ {s} : /\ buffer'[t] = buffer[t] /\ text'[t] = text[t]
                                 /\ stale'[t] = stale[t] /\ index'[t] = index[t]
    BY <2>1
  <2> QED
    BY <2>1, <2>2, <2>3, <2>4, ColdSession
<1>2. CASE StopServer(s)
  <2>1. /\ UNCHANGED <<disk, since, printed, lines, at>>
        /\ \A t \in Servers : t # s => /\ pc'[t] = pc[t] /\ buffer'[t] = buffer[t] /\ text'[t] = text[t]
                                       /\ stale'[t] = stale[t] /\ index'[t] = index[t]
        /\ \A f \in Files : buffer'[s][f] = None /\ text'[s][f] = None
    BY <1>0, <1>2 DEF StopServer
  <2>2. /\ \A c \in Commands, t \in Servers : t # s => req'[c][t] = req[c][t]
        /\ \A c \in Commands : \/ req'[c][s] = req[c][s] /\ req[c][s].at = "none"
                               \/ req'[c][s].at = "end" /\ req'[c][s].seen = NoSeen
    <3>1. req' = [c \in Commands |-> IF req[c][s].at = "none" THEN req[c]
                                     ELSE [req[c] EXCEPT ![s] = [NoRequest EXCEPT !.at = "end"]]]
      BY <1>2 DEF StopServer
    <3>2. [NoRequest EXCEPT !.at = "end"].at = "end" /\ [NoRequest EXCEPT !.at = "end"].seen = NoSeen
      BY DEF NoRequest
    <3> DEFINE ended == [NoRequest EXCEPT !.at = "end"]
    <3> HIDE DEF ended
    <3>3. \A c \in Commands, t \in Servers :
            req'[c][t] = IF t = s /\ req[c][s].at # "none" THEN ended ELSE req[c][t]
      BY <1>0, <3>1 DEF ended
    <3>4. ended.at = "end" /\ ended.seen = NoSeen
      BY <3>2 DEF ended
    <3>5. \A c \in Commands, t \in Servers : t # s => req'[c][t] = req[c][t]
      BY <3>3
    <3>6. ASSUME NEW c \in Commands
          PROVE  \/ req'[c][s] = req[c][s] /\ req[c][s].at = "none"
                 \/ req'[c][s].at = "end" /\ req'[c][s].seen = NoSeen
      <4>1. CASE req[c][s].at = "none"
        <5>1. req'[c] = req[c]
          BY <3>1, <4>1
        <5> QED
          BY <4>1, <5>1
      <4>2. CASE req[c][s].at # "none"
        BY <3>3, <3>4, <4>2
      <4> QED
        BY <4>1, <4>2
    <3> QED
      BY <3>5, <3>6
  <2>3. DeadIsEmpty'
    BY <2>1, <2>2 DEF ColdInv, DeadIsEmpty
  <2>4. TextsCurrent'
    BY <2>1 DEF ColdInv, TextsCurrent, Open
  <2>5. DiskSince' /\ LinesSince' /\ HotIsCold'
    BY <2>1 DEF ColdInv, DiskSince, LinesSince, SaysSince, HotIsCold, Runs
  <2>6. SessionSince'
    BY <2>1, <2>2 DEF ColdInv, SessionSince, Runs, Reading, Open
  <2>7. CheckSince'
    BY <2>1, <2>2 DEF ColdInv, CheckSince, Runs, Open, NoSeen
  <2> QED
    BY <2>3, <2>4, <2>5, <2>6, <2>7 DEF ColdInv
<1> QED
  BY <1>1, <1>2

\* A file is read: by a request of the editor, or by a check.
LEMMA ColdRead ==
    ASSUME TypeOK, ColdInv, NEW s \in Servers, NEW g \in Files,
           UNCHANGED <<disk, since, printed, lines, at, pc, buffer, stale, index>>, pc[s] # "dead",
           text' = text \/ (~Open(s, g) /\ text[s][g] = None /\ text' = [text EXCEPT ![s][g] = disk[g]])
    PROVE  /\ TextsCurrent' /\ DiskSince' /\ LinesSince' /\ HotIsCold'
           /\ \A c \in Commands, t \in Servers, f \in Files : Runs(c) /\ Reading(req[c][t]) =>
                /\ ~Open(t, f)' => text'[t][f] \in {None} \cup since'[c][f]
                /\ f \notin index'[t] => Absent \in since'[c][f]
           /\ \A t \in Servers : pc'[t] = "dead" => \A f \in Files : buffer'[t][f] = None /\ text'[t][f] = None
<1>0. text \in [Servers -> [Files -> Texts]]
  BY DEF TypeOK
<1>1. \A t \in Servers, f \in Files :
        text'[t][f] = text[t][f] \/ (t = s /\ f = g /\ ~Open(s, g) /\ text'[t][f] = disk[f])
  BY <1>0
<1>2. TextsCurrent' /\ DiskSince' /\ LinesSince' /\ HotIsCold'
  BY <1>1 DEF ColdInv, TextsCurrent, Open, DiskSince, LinesSince, SaysSince, HotIsCold, Runs
<1>3. \A c \in Commands, t \in Servers, f \in Files : Runs(c) /\ Reading(req[c][t]) =>
         /\ ~Open(t, f)' => text'[t][f] \in {None} \cup since'[c][f]
         /\ f \notin index'[t] => Absent \in since'[c][f]
  BY <1>1 DEF ColdInv, SessionSince, DiskSince, Open
<1>4. \A t \in Servers : pc'[t] = "dead" => \A f \in Files : buffer'[t][f] = None /\ text'[t][f] = None
  BY <1>1 DEF ColdInv, DeadIsEmpty
<1> QED
  BY <1>2, <1>3, <1>4

LEMMA ColdTask ==
    ASSUME TypeOK, ColdInv, NEW c \in Commands, NEW s \in Servers, TaskStep(c, s)
    PROVE  ColdInv'
<1> USE DEF diskVars, lifeVars, sessionVars, commandVars
<1>0. /\ req \in [Commands -> [Servers -> Requests]] /\ lines \in [Commands -> [Servers -> Seq(Answers)]]
      /\ req[c][s] \in Requests /\ lines[c][s] \in Seq(Answers)
  BY DEF TypeOK
<1>1. pc[s] # "dead" /\ UNCHANGED <<disk, since, printed, at, pc>>
  BY DEF TaskStep, Gate, CheckRead, AnswerCheck, CancelCheck, ColdInv, DeadIsEmpty
\* Responding, and queueing again, end the reading.
<1>2. ASSUME NEW a \in Answers, Respond(c, s, a), UNCHANGED sessionVars,
             Runs(c) /\ a.type = "check" => \A f \in Files : a.seen[f] \in since[c][f]
      PROVE  ColdInv'
  <2>1. /\ req'[c][s].at = "end" /\ req'[c][s].seen = NoSeen /\ lines'[c][s] = Append(lines[c][s], a)
        /\ \A d \in Commands, t \in Servers : d # c \/ t # s =>
               req'[d][t] = req[d][t] /\ lines'[d][t] = lines[d][t]
    BY <1>0, <1>2 DEF Respond, NoRequest
  <2>2. Runs(c) => SaysSince(c, lines'[c][s])
    <3>1. /\ DOMAIN Append(lines[c][s], a) = 1..(Len(lines[c][s]) + 1) /\ DOMAIN lines[c][s] = 1..Len(lines[c][s])
          /\ \A i \in 1..Len(lines[c][s]) : Append(lines[c][s], a)[i] = lines[c][s][i]
          /\ Append(lines[c][s], a)[Len(lines[c][s]) + 1] = a
          /\ \A i \in 1..(Len(lines[c][s]) + 1) : i \in 1..Len(lines[c][s]) \/ i = Len(lines[c][s]) + 1
      BY <1>0
    <3>2. Runs(c) => SaysSince(c, lines[c][s])
      BY DEF ColdInv, LinesSince
    <3> QED
      BY <1>2, <2>1, <3>1, <3>2 DEF SaysSince
  <2>3. ~Reading(req'[c][s]) /\ \A f \in Files : req'[c][s].seen[f] = None
    BY <2>1 DEF Reading, NoSeen
  <2>4. \A d \in Commands : (Runs(d)' => Runs(d)) /\ (at'[d] = "hot" => at[d] = "hot")
    BY <1>1 DEF Runs
  <2> QED
    BY <1>1, <1>2, <2>1, <2>2, <2>3, <2>4, RequestRests
<1>3. ASSUME NEW r \in Requests, Requeue(c, s, r), UNCHANGED sessionVars PROVE ColdInv'
  <2>1. /\ req'[c][s].at = "queued" /\ req'[c][s].seen = NoSeen /\ lines' = lines
        /\ \A d \in Commands, t \in Servers : d # c \/ t # s => req'[d][t] = req[d][t]
    BY <1>0, <1>3 DEF Requeue, Requests
  <2>2. Runs(c) => SaysSince(c, lines'[c][s])
    BY <2>1 DEF ColdInv, LinesSince
  <2>3. ~Reading(req'[c][s]) /\ \A f \in Files : req'[c][s].seen[f] = None
    BY <2>1 DEF Reading, NoSeen
  <2>4. \A d \in Commands : (Runs(d)' => Runs(d)) /\ (at'[d] = "hot" => at[d] = "hot")
    BY <1>1 DEF Runs
  <2>5. \A d \in Commands, t \in Servers : d # c \/ t # s =>
               req'[d][t] = req[d][t] /\ lines'[d][t] = lines[d][t]
    BY <2>1
  <2> QED
    BY <1>1, <1>3, <2>2, <2>3, <2>4, <2>5, RequestRests
<1>4. Refused \in Answers /\ Refused.type # "check"
  BY MessageTypes DEF Refused, Answer
<1>5. CASE Gate(c, s)
  <2>1. CASE Respond(c, s, Refused)
    BY <1>2, <1>4, <1>5, <2>1 DEF Gate
  <2>2. CASE Requeue(c, s, [req[c][s] EXCEPT !.rescanned = TRUE])
    <3>1. [req[c][s] EXCEPT !.rescanned = TRUE] \in Requests
      BY <1>0 DEF Requests
    <3> QED
      BY <1>3, <1>5, <2>2, <3>1 DEF Gate
  <2>3. CASE ~Unsaved(s) /\ req[c][s].rescanned /\ req' = [req EXCEPT ![c][s].at = "check"] /\ UNCHANGED lines
    <3>1. /\ req'[c][s].at = "check" /\ req'[c][s].seen = req[c][s].seen /\ Reading(req[c][s])
          /\ req[c][s].at = "run"
          /\ \A d \in Commands, t \in Servers : d # c \/ t # s => req'[d][t] = req[d][t]
      BY <1>0, <1>5, <2>3 DEF Gate, Requests, Reading
    <3>2. UNCHANGED sessionVars
      BY <1>5 DEF Gate
    <3>3. \A f \in Files : Runs(c) /\ Open(s, f) => buffer[s][f] \in since[c][f]
      BY <2>3 DEF Unsaved, ColdInv, DiskSince
    <3>4. DeadIsEmpty' /\ TextsCurrent'
      BY <1>1, <3>1, <3>2 DEF ColdInv, DeadIsEmpty, TextsCurrent, Open
    <3>5. DiskSince' /\ LinesSince' /\ HotIsCold'
      BY <1>1, <2>3 DEF ColdInv, DiskSince, LinesSince, SaysSince, HotIsCold, Runs
    <3>6. SessionSince'
      <4>1. \A d \in Commands, t \in Servers : Reading(req'[d][t]) => Reading(req[d][t])
        BY <3>1
      <4> QED
        BY <1>1, <3>2, <4>1 DEF ColdInv, SessionSince, Runs, Open
    <3>7. CheckSince'
      BY <1>1, <3>1, <3>2, <3>3 DEF ColdInv, CheckSince, Runs, Open
    <3> QED
      BY <3>4, <3>5, <3>6, <3>7 DEF ColdInv
  <2> QED
    BY <1>5, <2>1, <2>2, <2>3 DEF Gate
<1>6. ASSUME NEW g \in Files, CheckRead(c, s, g) PROVE ColdInv'
  <2> DEFINE v == IF Open(s, g) THEN buffer[s][g] ELSE IF text[s][g] # None THEN text[s][g] ELSE disk[g]
  <2>1. /\ req' = [req EXCEPT ![c][s].seen[g] = v] /\ req[c][s].at = "check" /\ UNCHANGED lines
        /\ text' = [text EXCEPT ![s][g] = IF Open(s, g) THEN @ ELSE v]
        /\ UNCHANGED <<buffer, stale, index>>
    BY <1>6 DEF CheckRead
  <2>2. text' = text \/ (~Open(s, g) /\ text[s][g] = None /\ text' = [text EXCEPT ![s][g] = disk[g]])
    <3>1. text \in [Servers -> [Files -> Texts]]
      BY DEF TypeOK
    <3> QED
      BY <2>1, <3>1
  <2>3. Runs(c) => v \in since[c][g]
    <3>1. Reading(req[c][s])
      BY <2>1 DEF Reading
    <3> QED
      BY <2>1, <3>1 DEF ColdInv, CheckSince, SessionSince, DiskSince
  <2> HIDE DEF v
  <2>4. /\ req'[c][s].at = "check" /\ req'[c][s].seen[g] = v
        /\ \A f \in Files \ {g} : req'[c][s].seen[f] = req[c][s].seen[f]
        /\ \A d \in Commands, t \in Servers : d # c \/ t # s => req'[d][t] = req[d][t]
    BY <1>0, <2>1 DEF Requests
  <2>5. \A d \in Commands, t \in Servers : Reading(req'[d][t]) => Reading(req[d][t])
    BY <2>1, <2>4 DEF Reading
  <2>6. /\ TextsCurrent' /\ DiskSince' /\ LinesSince' /\ HotIsCold'
        /\ \A d \in Commands, t \in Servers, f \in Files : Runs(d) /\ Reading(req[d][t]) =>
                /\ ~Open(t, f)' => text'[t][f] \in {None} \cup since'[d][f]
                /\ f \notin index'[t] => Absent \in since'[d][f]
        /\ \A t \in Servers : pc'[t] = "dead" => \A f \in Files : buffer'[t][f] = None /\ text'[t][f] = None
    BY <1>1, <2>1, <2>2, ColdRead
  <2>7. DeadIsEmpty'
    BY <1>1, <2>4, <2>6 DEF ColdInv, DeadIsEmpty
  <2>8. SessionSince'
    BY <1>1, <2>5, <2>6 DEF SessionSince, Runs
  <2>9. CheckSince'
    <3>1. CheckSince
      BY DEF ColdInv
    <3> QED
      <4> SUFFICES ASSUME NEW d \in Commands, NEW t \in Servers, NEW f \in Files
                   PROVE  /\ req'[d][t].at # "check" => req'[d][t].seen[f] = None
                          /\ Runs(d) /\ req'[d][t].at = "check" =>
                                 /\ req'[d][t].seen[f] \in {None} \cup since[d][f]
                                 /\ Open(t, f) => buffer[t][f] \in since[d][f]
        BY <1>1, <2>1 DEF CheckSince, Runs, Open
      <4>1. CASE d = c /\ t = s
        BY <2>1, <2>3, <2>4, <3>1, <4>1 DEF CheckSince
      <4>2. CASE d # c \/ t # s
        BY <2>4, <3>1, <4>2 DEF CheckSince
      <4> QED
        BY <4>1, <4>2
  <2> QED
    BY <2>6, <2>7, <2>8, <2>9 DEF ColdInv
<1>7. CASE AnswerCheck(c, s)
  <2> DEFINE seen == [f \in Files |-> IF f \in index[s] THEN req[c][s].seen[f] ELSE Absent]
             a == Answer("check", seen)
  <2>1. a \in Answers /\ a.seen = seen
    <3>1. seen \in [Files -> Texts]
      BY <1>0 DEF Requests, Texts, OnDisk
    <3> QED
      BY <3>1 DEF Answer, Answers
  <2>2. Runs(c) => \A f \in Files : seen[f] \in since[c][f]
    <3>1. Reading(req[c][s]) /\ req[c][s].at = "check" /\ \A f \in index[s] : req[c][s].seen[f] # None
      BY <1>7 DEF AnswerCheck, Reading
    <3> QED
      BY <3>1 DEF ColdInv, SessionSince, CheckSince
  <2>3. Respond(c, s, a) /\ UNCHANGED sessionVars
    BY <1>7 DEF AnswerCheck
  <2> HIDE DEF a, seen
  <2> QED
    BY <1>2, <2>1, <2>2, <2>3
<1>8. CASE CancelCheck(c, s)
  <2>1. CASE Respond(c, s, Refused)
    BY <1>2, <1>4, <1>8, <2>1 DEF CancelCheck
  <2>2. CASE Requeue(c, s, Retried(req[c][s]))
    <3>1. Retried(req[c][s]) \in Requests
      <4>1. req[c][s] \in Requests
        BY <1>0
      <4> QED
        BY <4>1 DEF Retried, Requests
    <3>2. UNCHANGED sessionVars
      BY <1>8 DEF CancelCheck
    <3> QED
      BY <1>3, <2>2, <3>1, <3>2
  <2> QED
    BY <1>8, <2>1, <2>2 DEF CancelCheck
<1> QED
  BY <1>5, <1>6, <1>7, <1>8 DEF TaskStep

LEMMA ColdCommand ==
    ASSUME TypeOK, AsksServer, LinesInv, ColdInv, NEW c \in Commands, CommandStep(c)
    PROVE  ColdInv'
<1> USE DEF diskVars, lifeVars, sessionVars, commandVars
<1>0. /\ req \in [Commands -> [Servers -> Requests]]
      /\ at \in [Commands -> {"start", "ask", "accept", "answer", "forget", "remove", "hot", "cold"}]
      /\ since \in [Commands -> [Files -> SUBSET OnDisk]] /\ printed \in [Commands -> Answers]
  BY DEF TypeOK
<1>1. CASE StartCommand(c)
  <2>1. /\ UNCHANGED <<disk, pc, sessionVars, req, lines, printed>>
        /\ at[c] = "start" /\ at' = [at EXCEPT ![c] = "ask"]
        /\ since' = [since EXCEPT ![c] = [f \in Files |-> {disk[f]}]]
    BY <1>1 DEF StartCommand
  <2>2. /\ \A d \in Commands \ {c} : at'[d] = at[d] /\ since'[d] = since[d]
        /\ at'[c] = "ask" /\ \A f \in Files : disk[f] \in since'[c][f]
    BY <1>0, <2>1
  <2>3. \A s \in Servers : req[c][s].at = "none" /\ Len(lines[c][s]) = 0
    BY <2>1 DEF LinesInv, AllFresh, Fresh, AllTold, Told
  <2>4. DeadIsEmpty' /\ TextsCurrent'
    BY <2>1 DEF ColdInv, DeadIsEmpty, TextsCurrent, Open
  <2>5. DiskSince'
    BY <2>1, <2>2 DEF ColdInv, DiskSince, Runs
  <2>6. SessionSince'
    BY <2>1, <2>2, <2>3 DEF ColdInv, SessionSince, Runs, Reading, Open
  <2>7. CheckSince'
    BY <2>1, <2>2, <2>3 DEF ColdInv, CheckSince, Runs, Open
  <2>8. LinesSince'
    <3>1. \A s \in Servers : DOMAIN lines[c][s] = {}
      <4>1. \A s \in Servers : lines[c][s] \in Seq(Answers)
        BY DEF TypeOK
      <4> QED
        BY <2>3, <4>1
    <3> QED
      BY <2>1, <2>2, <3>1 DEF ColdInv, LinesSince, SaysSince, Runs
  <2>9. HotIsCold'
    BY <2>1, <2>2 DEF ColdInv, HotIsCold
  <2> QED
    BY <2>4, <2>5, <2>6, <2>7, <2>8, <2>9 DEF ColdInv
<1>2. ASSUME NEW s \in Servers, Connect(c, s) PROVE ColdInv'
  <2>1. /\ UNCHANGED <<disk, since, printed, sessionVars, pc, lines>> /\ at[c] = "ask"
        /\ at' = [at EXCEPT ![c] = "accept"] \/ at' = [at EXCEPT ![c] = "forget"]
    BY <1>2 DEF Connect
  <2>2. \A d \in Commands : (Runs(d)' => Runs(d)) /\ (at'[d] = "hot" => at[d] = "hot")
    BY <1>0, <2>1 DEF Runs
  <2>3. \A t \in Servers : pc'[t] = "dead" => pc[t] = "dead"
    BY <2>1
  <2>4. CASE Listening(c, s) /\ req' = [req EXCEPT ![c][s].at = "sent"]
    <3>1. /\ req'[c][s].at = "sent" /\ req'[c][s].seen = req[c][s].seen
          /\ \A d \in Commands, t \in Servers : d # c \/ t # s =>
                 req'[d][t] = req[d][t] /\ lines'[d][t] = lines[d][t]
      BY <1>0, <2>1, <2>4 DEF Requests
    <3>2. req[c][s].at = "none"
      BY <1>2 DEF Connect, LinesInv, AllFresh, Fresh
    <3>3. ~Reading(req'[c][s]) /\ \A f \in Files : req'[c][s].seen[f] = None
      BY <3>1, <3>2 DEF Reading, ColdInv, CheckSince
    <3>4. pc[s] # "dead" /\ (Runs(c) => SaysSince(c, lines'[c][s]))
      BY <2>1, <2>4 DEF Listening, ColdInv, LinesSince
    <3> QED
      BY <2>1, <2>2, <2>3, <3>1, <3>3, <3>4, RequestRests
  <2>5. CASE UNCHANGED req
    BY <2>1, <2>2, <2>3, <2>5, RequestsRest
  <2> QED
    BY <1>2, <2>4, <2>5 DEF Connect
<1>3. CASE Forget(c) \/ GiveUp(c) \/ CheckItself(c)
  <2>1. /\ UNCHANGED <<disk, since, printed, sessionVars, pc, req, lines>>
        /\ Runs(c)
        /\ at' = [at EXCEPT ![c] = "ask"] \/ at' = [at EXCEPT ![c] = "remove"] \/ at' = [at EXCEPT ![c] = "cold"]
    BY <1>3 DEF Forget, GiveUp, Patient, CheckItself, Runs
  <2>2. \A d \in Commands : (Runs(d)' => Runs(d)) /\ (at'[d] = "hot" => at[d] = "hot")
    BY <1>0, <2>1 DEF Runs
  <2>3. \A t \in Servers : pc'[t] = "dead" => pc[t] = "dead"
    BY <2>1
  <2> QED
    BY <2>1, <2>2, <2>3, RequestsRest
<1>4. CASE ReadLine(c)
  <2>1. PICK s \in Servers : s = asking[c]
    BY <1>4 DEF ReadLine, AsksServer
  <2>2. UNCHANGED <<disk, since, sessionVars, pc, req, lines>> /\ Runs(c)
    BY <1>4 DEF ReadLine, Runs
  <2>3. CASE printed' = printed /\ (at' = [at EXCEPT ![c] = "answer"] \/ at' = [at EXCEPT ![c] = "ask"])
    <3>1. \A d \in Commands : (Runs(d)' => Runs(d)) /\ (at'[d] = "hot" => at[d] = "hot")
      BY <1>0, <2>2, <2>3 DEF Runs
    <3>2. \A t \in Servers : pc'[t] = "dead" => pc[t] = "dead"
      BY <2>2
    <3> QED
      BY <2>2, <2>3, <3>1, <3>2, RequestsRest
  <2>4. ASSUME NEW i \in DOMAIN lines[c][s], lines[c][s][i].type = "check",
               at' = [at EXCEPT ![c] = "hot"], printed' = [printed EXCEPT ![c] = lines[c][s][i]]
        PROVE  ColdInv'
    <3>1. \A f \in Files : lines[c][s][i].seen[f] \in since[c][f]
      BY <2>2, <2>4 DEF ColdInv, LinesSince, SaysSince
    <3>2. /\ \A d \in Commands \ {c} : at'[d] = at[d] /\ printed'[d] = printed[d]
          /\ at'[c] = "hot" /\ printed'[c] = lines[c][s][i]
      BY <1>0, <2>4
    <3>3. \A d \in Commands : Runs(d)' => Runs(d)
      BY <2>2, <3>2 DEF Runs
    <3>4. DeadIsEmpty' /\ TextsCurrent' /\ DiskSince'
      BY <2>2, <3>3 DEF ColdInv, DeadIsEmpty, TextsCurrent, DiskSince, Open
    <3>5. SessionSince'
      BY <2>2, <3>3 DEF ColdInv, SessionSince, Open
    <3>6. CheckSince'
      BY <2>2, <3>3 DEF ColdInv, CheckSince, Open
    <3>7. LinesSince'
      BY <2>2, <3>3 DEF ColdInv, LinesSince, SaysSince
    <3>8. HotIsCold'
      BY <2>2, <3>1, <3>2 DEF ColdInv, HotIsCold
    <3> QED
      BY <3>4, <3>5, <3>6, <3>7, <3>8 DEF ColdInv
  <2> DEFINE n == IF at[c] = "accept" THEN 1 ELSE 2
  <2>5. n \in DOMAIN lines[c][s]
    <3>1. lines[c][s] \in Seq(Answers) /\ Len(lines[c][s]) >= n
      BY <1>4, <2>1 DEF ReadLine, TypeOK
    <3> QED
      BY <3>1
  <2> QED
    BY <1>4, <2>1, <2>3, <2>4, <2>5 DEF ReadLine
<1> QED
  BY <1>1, <1>2, <1>3, <1>4 DEF CommandStep

LEMMA ColdStep ==
    ASSUME TypeOK, AsksServer, LinesInv, ColdInv, [Next]_vars
    PROVE  ColdInv'
<1> USE DEF diskVars, lifeVars, sessionVars, commandVars
<1>0. /\ req \in [Commands -> [Servers -> Requests]] /\ queue \in [Servers -> Seq(Commands)]
      /\ pc \in [Servers -> {"dead", "starting", "idle", "edit", "rescan"}]
      /\ lines \in [Commands -> [Servers -> Seq(Answers)]]
  BY DEF TypeOK
<1>1. ASSUME NEW s \in Servers, Publish(s) \/ ReceiveEdit(s) PROVE ColdInv'
  <2>1. UNCHANGED <<disk, since, printed, sessionVars, req, lines, at>>
    BY <1>1 DEF Publish, ReceiveEdit
  <2>2. \A t \in Servers : pc'[t] = "dead" => pc[t] = "dead"
    BY <1>0, <1>1 DEF Publish, ReceiveEdit
  <2>3. \A d \in Commands : (Runs(d)' => Runs(d)) /\ (at'[d] = "hot" => at[d] = "hot")
    BY <2>1 DEF Runs
  <2> QED
    BY <2>1, <2>2, <2>3, RequestsRest
<1>2. ASSUME NEW s \in Servers, NEW g \in Files, EditorRead(s, g) PROVE ColdInv'
  <2>1. /\ UNCHANGED <<disk, since, printed, lines, at, pc, buffer, stale, index, req>> /\ pc[s] # "dead"
        /\ ~Open(s, g) /\ text[s][g] = None /\ text' = [text EXCEPT ![s][g] = disk[g]]
    BY <1>2 DEF EditorRead
  <2>2. /\ TextsCurrent' /\ DiskSince' /\ LinesSince' /\ HotIsCold'
        /\ \A d \in Commands, t \in Servers, f \in Files : Runs(d) /\ Reading(req[d][t]) =>
                /\ ~Open(t, f)' => text'[t][f] \in {None} \cup since'[d][f]
                /\ f \notin index'[t] => Absent \in since'[d][f]
        /\ \A t \in Servers : pc'[t] = "dead" => \A f \in Files : buffer'[t][f] = None /\ text'[t][f] = None
    BY <2>1, ColdRead
  <2>3. DeadIsEmpty' /\ SessionSince'
    BY <2>1, <2>2 DEF ColdInv, DeadIsEmpty, SessionSince, Runs
  <2>4. CheckSince'
    BY <2>1 DEF ColdInv, CheckSince, Runs, Open
  <2> QED
    BY <2>2, <2>3, <2>4 DEF ColdInv
<1>3. ASSUME NEW c \in Commands, NEW s \in Servers, AcceptRequest(c, s) PROVE ColdInv'
  <2>1. /\ UNCHANGED <<disk, since, printed, sessionVars, lines, at, pc>> /\ req[c][s].at = "sent"
        /\ req' = [req EXCEPT ![c][s].at = "queued"] \/ req' = [req EXCEPT ![c][s].at = "end"]
    BY <1>3 DEF AcceptRequest
  <2>2. /\ req'[c][s].at \in {"queued", "end"} /\ req'[c][s].seen = req[c][s].seen
        /\ \A d \in Commands, t \in Servers : d # c \/ t # s =>
               req'[d][t] = req[d][t] /\ lines'[d][t] = lines[d][t]
    <3>1. CASE req' = [req EXCEPT ![c][s].at = "queued"]
      BY <1>0, <2>1, <3>1 DEF Requests
    <3>2. CASE req' = [req EXCEPT ![c][s].at = "end"]
      BY <1>0, <2>1, <3>2 DEF Requests
    <3> QED
      BY <2>1, <3>1, <3>2
  <2>3. ~Reading(req'[c][s]) /\ \A f \in Files : req'[c][s].seen[f] = None
    BY <2>1, <2>2 DEF Reading, ColdInv, CheckSince
  <2>4. pc[s] # "dead" /\ (Runs(c) => SaysSince(c, lines'[c][s]))
    BY <2>1 DEF ColdInv, DeadIsEmpty, LinesSince
  <2>5. \A d \in Commands : (Runs(d)' => Runs(d)) /\ (at'[d] = "hot" => at[d] = "hot")
    BY <2>1 DEF Runs
  <2>6. \A t \in Servers : pc'[t] = "dead" => pc[t] = "dead"
    BY <2>1
  <2> QED
    BY <2>1, <2>2, <2>3, <2>4, <2>5, <2>6, RequestRests
<1>4. ASSUME NEW s \in Servers, TakeRequest(s) PROVE ColdInv'
  <2>0. Head(queue[s]) \in Commands /\ Head(queue[s]) = queue[s][1] /\ 1 \in 1..Len(queue[s])
    BY <1>0, <1>4 DEF TakeRequest
  <2>1. PICK c \in Commands : c = Head(queue[s])
    BY <2>0
  <2>2. req[c][s].at = "queued" /\ req[c][s] \in Requests /\ lines[c][s] \in Seq(Answers)
    BY <1>0, <2>0, <2>1 DEF LinesInv, AllQueues, QueueSound
  <2>3. /\ UNCHANGED <<disk, since, printed, sessionVars, at>> /\ pc[s] = "idle"
        /\ req' = [req EXCEPT ![c][s] = Taken(req[c][s])] \/ req' = [req EXCEPT ![c][s].at = "end"]
        /\ lines' = lines \/ lines' = [lines EXCEPT ![c][s] = Append(lines[c][s], Accepted)]
        /\ pc' = pc \/ pc' = [pc EXCEPT ![s] = "rescan"]
    BY <1>4, <2>1 DEF TakeRequest
  <2>4. ~Reading(req'[c][s]) /\ req'[c][s].seen = req[c][s].seen
    <3>1. ~Reading(Taken(req[c][s])) /\ Taken(req[c][s]).seen = req[c][s].seen
      <4>1. CASE req[c][s].rescanned
        BY <2>2, <4>1 DEF Taken, Requests, Reading
      <4>2. CASE ~req[c][s].rescanned
        BY <2>2, <4>2 DEF Taken, Requests, Reading
      <4> QED
        BY <4>1, <4>2
    <3>2. CASE req' = [req EXCEPT ![c][s] = Taken(req[c][s])]
      <4>1. req'[c][s] = Taken(req[c][s])
        BY <1>0, <3>2
      <4> QED
        BY <3>1, <4>1
    <3>3. CASE req' = [req EXCEPT ![c][s].at = "end"]
      BY <1>0, <2>2, <3>3 DEF Requests, Reading
    <3> QED
      BY <2>3, <3>2, <3>3
  <2>5. \A f \in Files : req'[c][s].seen[f] = None
    BY <2>2, <2>4 DEF ColdInv, CheckSince
  <2>6. \A d \in Commands, t \in Servers : d # c \/ t # s =>
               req'[d][t] = req[d][t] /\ lines'[d][t] = lines[d][t]
    BY <1>0, <2>3
  <2>7. Runs(c) => SaysSince(c, lines'[c][s])
    <3>1. Runs(c) => SaysSince(c, lines[c][s])
      BY DEF ColdInv, LinesSince
    <3>2. CASE lines' = [lines EXCEPT ![c][s] = Append(lines[c][s], Accepted)]
      <4>1. /\ DOMAIN Append(lines[c][s], Accepted) = 1..(Len(lines[c][s]) + 1)
            /\ DOMAIN lines[c][s] = 1..Len(lines[c][s])
            /\ \A i \in 1..Len(lines[c][s]) : Append(lines[c][s], Accepted)[i] = lines[c][s][i]
            /\ Append(lines[c][s], Accepted)[Len(lines[c][s]) + 1] = Accepted
            /\ \A i \in 1..(Len(lines[c][s]) + 1) : i \in 1..Len(lines[c][s]) \/ i = Len(lines[c][s]) + 1
        BY <2>2, MessageTypes
      <4>2. lines'[c][s] = Append(lines[c][s], Accepted) /\ Accepted.type # "check"
        BY <1>0, <3>2 DEF Accepted, Answer
      <4> QED
        BY <3>1, <4>1, <4>2 DEF SaysSince
    <3> QED
      BY <2>3, <3>1, <3>2
  <2>8. \A d \in Commands : (Runs(d)' => Runs(d)) /\ (at'[d] = "hot" => at[d] = "hot")
    BY <2>3 DEF Runs
  <2>9. pc[s] # "dead" /\ \A t \in Servers : pc'[t] = "dead" => pc[t] = "dead"
    BY <1>0, <2>3
  <2> QED
    BY <2>3, <2>4, <2>5, <2>6, <2>7, <2>8, <2>9, RequestRests
<1>5. CASE UNCHANGED vars
  <2>1. UNCHANGED <<disk, since, printed, sessionVars, req, lines, at, pc>>
    BY <1>5 DEF vars
  <2>2. \A d \in Commands : (Runs(d)' => Runs(d)) /\ (at'[d] = "hot" => at[d] = "hot")
    BY <2>1 DEF Runs
  <2>3. \A t \in Servers : pc'[t] = "dead" => pc[t] = "dead"
    BY <2>1
  <2> QED
    BY <2>1, <2>2, <2>3, RequestsRest
<1> QED
  BY <1>1, <1>2, <1>3, <1>4, <1>5, ColdWrite, ColdServer, ColdEdit, ColdRescan, ColdTask, ColdCommand
     DEF Next, MainStep

\* The hot answer is a cold answer: what it says of each file has been on disk while the
\* command ran, whatever was typed, written, retried, killed and started meanwhile.
THEOREM HotAnswersCold == Spec => []HotIsCold
<1>1. Init => ColdInv
  <2> SUFFICES ASSUME Init PROVE ColdInv
    OBVIOUS
  <2>1. DeadIsEmpty /\ TextsCurrent /\ DiskSince
    BY DEF Init, DeadIsEmpty, TextsCurrent, DiskSince, Runs, NoRequest
  <2>2. SessionSince /\ CheckSince
    BY DEF Init, SessionSince, CheckSince, Runs, NoRequest, NoSeen
  <2>3. LinesSince /\ HotIsCold
    BY DEF Init, LinesSince, Runs, HotIsCold
  <2> QED
    BY <2>1, <2>2, <2>3 DEF ColdInv
<1>2. ColdInv => HotIsCold
  BY DEF ColdInv
<1>3. Spec => []LinesInv
  BY LinesInit, LinesStep, TypeCorrect, PTL DEF Spec
<1> QED
  BY <1>1, <1>2, <1>3, ColdStep, TypeCorrect, PTL DEF Spec
=============================================================================
