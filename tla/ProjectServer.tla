--------------------------- MODULE ProjectServer ---------------------------
(***************************************************************************)
(* Answering `by check` out of a running language server                   *)
(* (crates/ty_server/src/project_server, crates/ty/src/by_project_server). *)
(*                                                                         *)
(* A server publishes a record of itself.  A command reads the records,    *)
(* asks one server after the other, and checks the project itself if none  *)
(* answers.  A server looks at a request twice: once to decide whether it  *)
(* may answer at all, and again after it has looked at every file anew; a  *)
(* check an edit has cancelled is run again, a few times.  Meanwhile files *)
(* are written, the editor types, and servers are killed and started.      *)
(***************************************************************************)
EXTENDS Naturals, Sequences

CONSTANTS
    Commands,
    Servers,        \* process ids, which are the names of the records
    Files,          \* the python files that may be in the project
    Contents,
    Absent,         \* the content of a file that is not there
    None,
    RetryLimit,     \* RETRY_LIMIT, 3 in the code
    MaxLives        \* bound: servers that are given the same process id

ASSUME ProjectServerAssumption ==
    /\ Absent \notin Contents /\ None \notin Contents \cup Servers /\ None # Absent
    /\ RetryLimit \in Nat /\ MaxLives \in Nat

VARIABLES
    disk,       \* disk[f]: its content
    \* the servers
    life,       \* life[s]: how many there have been; names its port and its token
    pc,         \* "dead", "starting", "idle", or handling an "edit" or a "rescan"
    record,     \* record[s]: the file of its record, and the life in it
    queue,      \* queue[s]: the requests sent to the main loop
    \* their sessions
    buffer,     \* buffer[s][f]: what the editor holds of an open file, or None
    text,       \* text[s][f]: what was read of it, or None
    stale,      \* stale[s]: the files written since the database has looked at them
    index,      \* index[s]: the files of the project
    \* the requests
    req,        \* req[c][s]: see Requests
    lines,      \* lines[c][s]: what the server has written to the connection
    \* the commands
    at,         \* at[c]: "start", "ask", "accept", "answer", "forget", "remove", "hot" or "cold"
    cands,      \* cands[c][s]: the life in the record it read and has yet to try, or 0
    asking,     \* asking[c]: the server it talks to, or None
    printed,    \* printed[c]: the answer it printed
    since       \* since[c][f]: what f has contained while the command ran

diskVars == <<disk, since>>
lifeVars == <<life, record>>
sessionVars == <<buffer, text, stale, index>>
commandVars == <<at, cands, asking, printed>>
vars == <<diskVars, lifeVars, pc, queue, sessionVars, req, lines, commandVars>>

OnDisk == Contents \cup {Absent}
Texts == OnDisk \cup {None}

\* A record that is being written cannot be read.
Records == [file : {"none", "torn", "written"}, life : Nat]
NoRecord == [file |-> "none", life |-> 0]
Torn == [file |-> "torn", life |-> 0]

NoSeen == [f \in Files |-> None]
Answer(type, seen) == [type |-> type, seen |-> seen]
Accepted == Answer("accepted", NoSeen)
Refused == Answer("refused", NoSeen)
NoAnswer == Answer("none", NoSeen)
Answers == [type : {"accepted", "refused", "check", "none"}, seen : [Files -> Texts]]

\* A request is in the connection, in the main loop's queue, in the main loop's hands, on a
\* worker with a snapshot of the session, checking there, or dropped with its connection.
Requests == [at : {"none", "sent", "queued", "taken", "run", "check", "end"},
             rescanned : BOOLEAN, attempts : Nat, accepted : BOOLEAN, seen : [Files -> Texts]]
NoRequest == [at |-> "none", rescanned |-> FALSE, attempts |-> 0, accepted |-> FALSE, seen |-> NoSeen]

TypeOK ==
    /\ disk \in [Files -> OnDisk]
    /\ life \in [Servers -> Nat]
    /\ pc \in [Servers -> {"dead", "starting", "idle", "edit", "rescan"}]
    /\ record \in [Servers -> Records]
    /\ queue \in [Servers -> Seq(Commands)]
    /\ buffer \in [Servers -> [Files -> Contents \cup {None}]]
    /\ text \in [Servers -> [Files -> Texts]]
    /\ stale \in [Servers -> SUBSET Files]
    /\ index \in [Servers -> SUBSET Files]
    /\ req \in [Commands -> [Servers -> Requests]]
    /\ lines \in [Commands -> [Servers -> Seq(Answers)]]
    /\ at \in [Commands -> {"start", "ask", "accept", "answer", "forget", "remove", "hot", "cold"}]
    /\ cands \in [Commands -> [Servers -> Nat]]
    /\ asking \in [Commands -> Servers \cup {None}]
    /\ printed \in [Commands -> Answers]
    /\ since \in [Commands -> [Files -> SUBSET OnDisk]]

Init ==
    /\ disk \in [Files -> OnDisk]
    /\ life = [s \in Servers |-> 0]
    /\ pc = [s \in Servers |-> "dead"]
    /\ record = [s \in Servers |-> NoRecord]
    /\ queue = [s \in Servers |-> <<>>]
    /\ buffer = [s \in Servers |-> [f \in Files |-> None]]
    /\ text = [s \in Servers |-> [f \in Files |-> None]]
    /\ stale = [s \in Servers |-> {}]
    /\ index = [s \in Servers |-> {}]
    /\ req = [c \in Commands |-> [s \in Servers |-> NoRequest]]
    /\ lines = [c \in Commands |-> [s \in Servers |-> <<>>]]
    /\ at = [c \in Commands |-> "start"]
    /\ cands = [c \in Commands |-> [s \in Servers |-> 0]]
    /\ asking = [c \in Commands |-> None]
    /\ printed = [c \in Commands |-> NoAnswer]
    /\ since = [c \in Commands |-> [f \in Files |-> {}]]

-----------------------------------------------------------------------------
(* The file system, and the life of a server.                              *)

Existing == {f \in Files : disk[f] # Absent}

Write(f, v) ==
    /\ disk[f] # v
    /\ disk' = [disk EXCEPT ![f] = v]
    /\ stale' = [s \in Servers |-> IF pc[s] = "dead" THEN {} ELSE stale[s] \cup {f}]
    /\ since' = [c \in Commands |-> IF at[c] \in {"start", "hot", "cold"} THEN since[c]
                                    ELSE [since[c] EXCEPT ![f] = @ \cup {v}]]
    /\ UNCHANGED <<lifeVars, pc, queue, buffer, text, index, req, lines, commandVars>>

\* The listener is bound before the record is created, and that before it is written.
StartServer(s) ==
    /\ pc[s] = "dead"
    /\ life[s] < MaxLives
    /\ life' = [life EXCEPT ![s] = @ + 1]
    /\ pc' = [pc EXCEPT ![s] = "starting"]
    /\ record' = [record EXCEPT ![s] = Torn]
    /\ index' = [index EXCEPT ![s] = Existing]
    /\ UNCHANGED <<diskVars, queue, buffer, text, stale, req, lines, commandVars>>

Publish(s) ==
    /\ pc[s] = "starting"
    /\ record' = [record EXCEPT ![s] = IF @.file = "none" THEN @   \* removed by a command
                                       ELSE [file |-> "written", life |-> life[s]]]
    /\ pc' = [pc EXCEPT ![s] = "idle"]
    /\ UNCHANGED <<diskVars, life, queue, sessionVars, req, lines, commandVars>>

\* A server that exits removes its record, one that is killed does not.
StopServer(s) ==
    /\ pc[s] \notin {"dead", "starting"}
    /\ pc' = [pc EXCEPT ![s] = "dead"]
    /\ \/ record' = [record EXCEPT ![s] = NoRecord]
       \/ UNCHANGED record
    /\ queue' = [queue EXCEPT ![s] = <<>>]
    /\ buffer' = [buffer EXCEPT ![s] = [f \in Files |-> None]]
    /\ text' = [text EXCEPT ![s] = [f \in Files |-> None]]
    /\ stale' = [stale EXCEPT ![s] = {}]
    /\ index' = [index EXCEPT ![s] = {}]
    /\ req' = [c \in Commands |-> IF req[c][s].at = "none" THEN req[c]
                                  ELSE [req[c] EXCEPT ![s] = [NoRequest EXCEPT !.at = "end"]]]
    /\ UNCHANGED <<diskVars, life, lines, commandVars>>

-----------------------------------------------------------------------------
(* The session.  What writes it waits until no worker has a snapshot.      *)

Alone(s) == \A c \in Commands : req[c][s].at \notin {"run", "check"}

Open(s, f) == buffer[s][f] # None

\* (Mutant of Looked: only the files the watcher has reported are looked at.)
LookedNone(s) == {}

\* The files of which a rescan finds that they have been written.
Looked(s) == {f \in stale[s] : ~Open(s, f)}

\* A message of the editor, of the watcher or from uv that writes the session.
ReceiveEdit(s) ==
    /\ pc[s] = "idle"
    /\ pc' = [pc EXCEPT ![s] = "edit"]
    /\ UNCHANGED <<diskVars, lifeVars, queue, sessionVars, req, lines, commandVars>>

\* The file is looked at, and is one of the project's while it is there.
SyncFile(s, f) ==
    /\ text' = [text EXCEPT ![s][f] = IF f \in stale[s] \/ Open(s, f) THEN None ELSE @]
    /\ stale' = [stale EXCEPT ![s] = @ \ {f}]
    /\ index' = [index EXCEPT ![s] = IF disk[f] = Absent THEN @ \ {f} ELSE @ \cup {f}]

ApplyEdit(s) ==
    /\ pc[s] = "edit"
    /\ Alone(s)
    /\ pc' = [pc EXCEPT ![s] = "idle"]
    /\ \/ \E f \in Files, v \in Contents :        \* didOpen and didChange
             /\ buffer' = [buffer EXCEPT ![s][f] = v]
             /\ index' = [index EXCEPT ![s] = @ \cup {f}]
             /\ UNCHANGED <<text, stale>>
       \/ \E f \in Files :                        \* didClose
             /\ Open(s, f)
             /\ buffer' = [buffer EXCEPT ![s][f] = None]
             /\ SyncFile(s, f)
       \/ \E f \in Files :                        \* the watcher
             /\ ~Open(s, f)
             /\ SyncFile(s, f)
             /\ UNCHANGED buffer
       \/ UNCHANGED sessionVars                   \* one that leaves the files alone
    /\ UNCHANGED <<diskVars, lifeVars, queue, req, lines, commandVars>>

\* A request of the editor reads a file, on a snapshot of its own.
EditorRead(s, f) ==
    /\ pc[s] \in {"idle", "edit", "rescan"}
    /\ ~Open(s, f) /\ text[s][f] = None
    /\ text' = [text EXCEPT ![s][f] = disk[f]]
    /\ UNCHANGED <<diskVars, lifeVars, pc, queue, buffer, stale, index, req, lines, commandVars>>

-----------------------------------------------------------------------------
(* A request in the server.                                                *)

Waits(c, s) == at[c] \in {"accept", "answer"} /\ asking[c] = s

Respond(c, s, answer) ==
    /\ lines' = [lines EXCEPT ![c][s] = Append(@, answer)]
    /\ req' = [req EXCEPT ![c][s] = [NoRequest EXCEPT !.at = "end"]]

\* The listener hands the request to the main loop, unless it cannot read it.
AcceptRequest(c, s) ==
    /\ req[c][s].at = "sent"
    /\ \/ /\ req' = [req EXCEPT ![c][s].at = "queued"]
          /\ queue' = [queue EXCEPT ![s] = Append(@, c)]
       \/ /\ req' = [req EXCEPT ![c][s].at = "end"]
          /\ UNCHANGED queue
    /\ UNCHANGED <<diskVars, lifeVars, pc, sessionVars, lines, commandVars>>

\* (Mutant of Taken: the request forgets that it has been accepted.)
TakenAgain(r) == [r EXCEPT !.at = IF r.rescanned THEN "taken" ELSE "run"]

Taken(r) == [r EXCEPT !.accepted = TRUE, !.at = IF r.rescanned THEN "taken" ELSE "run"]

\* answer_project_server_request, up to the rescan.  A caller that is gone may be noticed
\* when it is told that the request is accepted.
TakeRequest(s) ==
    /\ pc[s] = "idle"
    /\ queue[s] # <<>>
    /\ queue' = [queue EXCEPT ![s] = Tail(@)]
    /\ LET c == Head(queue[s])
           r == req[c][s]
       IN \/ /\ req' = [req EXCEPT ![c][s] = Taken(r)]
             /\ lines' = IF r.accepted THEN lines ELSE [lines EXCEPT ![c][s] = Append(@, Accepted)]
             /\ pc' = IF r.rescanned THEN [pc EXCEPT ![s] = "rescan"] ELSE pc
          \/ /\ ~r.accepted /\ ~Waits(c, s)
             /\ req' = [req EXCEPT ![c][s].at = "end"]
             /\ UNCHANGED <<lines, pc>>
    /\ UNCHANGED <<diskVars, lifeVars, sessionVars, commandVars>>

\* Every file that is known is looked at and the project's are walked anew; then the
\* worker is given its snapshot.
RescanSession(s) ==
    /\ pc[s] = "rescan"
    /\ Alone(s)
    /\ text' = [text EXCEPT ![s] = [f \in Files |-> IF f \in Looked(s) THEN None ELSE @[f]]]
    /\ stale' = [stale EXCEPT ![s] = @ \ Looked(s)]
    /\ index' = [index EXCEPT ![s] = Existing]
    /\ req' = [c \in Commands |-> IF req[c][s].at = "taken" THEN [req[c] EXCEPT ![s].at = "run"] ELSE req[c]]
    /\ pc' = [pc EXCEPT ![s] = "idle"]
    /\ UNCHANGED <<diskVars, lifeVars, queue, buffer, lines, commandVars>>

Requeue(c, s, r) ==
    /\ req' = [req EXCEPT ![c][s] = [r EXCEPT !.at = "queued", !.seen = NoSeen]]
    /\ queue' = [queue EXCEPT ![s] = Append(@, c)]
    /\ UNCHANGED lines

Unsaved(s) == \E f \in Files : Open(s, f) /\ buffer[s][f] # disk[f]

\* The gate.  It also refuses for another project, configuration or environment, in the
\* mode that checks open files only, and when it panics.
Gate(c, s) ==
    /\ req[c][s].at = "run"
    /\ \/ Respond(c, s, Refused) /\ UNCHANGED queue
       \/ /\ ~Unsaved(s) /\ ~req[c][s].rescanned
          /\ Requeue(c, s, [req[c][s] EXCEPT !.rescanned = TRUE])
       \/ /\ ~Unsaved(s) /\ req[c][s].rescanned
          /\ req' = [req EXCEPT ![c][s].at = "check"]
          /\ UNCHANGED <<queue, lines>>
    /\ UNCHANGED <<diskVars, lifeVars, pc, sessionVars, commandVars>>

\* An open file is read out of its buffer; a text that is known is not read again.
CheckRead(c, s, f) ==
    /\ req[c][s].at = "check"
    /\ f \in index[s]
    /\ req[c][s].seen[f] = None
    /\ LET v == IF Open(s, f) THEN buffer[s][f] ELSE IF text[s][f] # None THEN text[s][f] ELSE disk[f]
       IN /\ req' = [req EXCEPT ![c][s].seen[f] = v]
          /\ text' = [text EXCEPT ![s][f] = IF Open(s, f) THEN @ ELSE v]
    /\ UNCHANGED <<diskVars, lifeVars, pc, queue, buffer, stale, index, lines, commandVars>>

AnswerCheck(c, s) ==
    /\ req[c][s].at = "check"
    /\ \A f \in index[s] : req[c][s].seen[f] # None
    /\ Respond(c, s, Answer("check", [f \in Files |-> IF f \in index[s] THEN req[c][s].seen[f] ELSE Absent]))
    /\ UNCHANGED <<diskVars, lifeVars, pc, queue, sessionVars, commandVars>>

\* (Mutant of Retried: the attempts are not counted.)
RetriedForever(r) == r

Retried(r) == [r EXCEPT !.attempts = @ + 1]

\* The main loop waits to write the session.  A check that is cancelled is run again, at
\* most RetryLimit times; unwound after the check, while it renders, it counts as a panic.
CancelCheck(c, s) ==
    /\ req[c][s].at = "check"
    /\ pc[s] \in {"edit", "rescan"}
    /\ \/ /\ req[c][s].attempts < RetryLimit
          /\ Requeue(c, s, Retried(req[c][s]))
       \/ Respond(c, s, Refused) /\ UNCHANGED queue
    /\ UNCHANGED <<diskVars, lifeVars, pc, sessionVars, commandVars>>

-----------------------------------------------------------------------------
(* A command.                                                              *)

Readable(s) == record[s].file = "written"

\* candidates
StartCommand(c) ==
    /\ at[c] = "start"
    /\ at' = [at EXCEPT ![c] = "ask"]
    /\ cands' = [cands EXCEPT ![c] = [s \in Servers |-> IF Readable(s) THEN record[s].life ELSE 0]]
    /\ since' = [since EXCEPT ![c] = [f \in Files |-> {disk[f]}]]
    /\ UNCHANGED <<disk, lifeVars, pc, queue, sessionVars, req, lines, asking, printed>>

\* (Mutant of Listening: a server is taken to be gone when it refuses, too.)
ListeningNone(c, s) == FALSE

Listening(c, s) == pc[s] # "dead" /\ life[s] = cands[c][s]

\* ask: "a listening server always accepts"
Connect(c, s) ==
    /\ at[c] = "ask"
    /\ cands[c][s] # 0
    /\ asking' = [asking EXCEPT ![c] = s]
    /\ \/ /\ Listening(c, s)
          /\ at' = [at EXCEPT ![c] = "accept"]
          /\ cands' = [cands EXCEPT ![c][s] = 0]
          /\ req' = [req EXCEPT ![c][s].at = "sent"]
       \/ /\ ~Listening(c, s)
          /\ at' = [at EXCEPT ![c] = "forget"]
          /\ UNCHANGED <<cands, req>>
    /\ UNCHANGED <<diskVars, lifeVars, pc, queue, sessionVars, lines, printed>>

\* Has another server published over the record?
Left(c, s) == Readable(s) /\ record[s].life # cands[c][s]

\* forget reads the record again, and removes it if it is the same one, or none.
Forget(c) ==
    LET s == asking[c]
        next == cands' = [cands EXCEPT ![c][s] = 0]
    IN /\ \/ /\ at[c] = "forget"
             /\ \/ Left(c, s) /\ at' = [at EXCEPT ![c] = "ask"] /\ next
                \/ ~Left(c, s) /\ at' = [at EXCEPT ![c] = "remove"] /\ UNCHANGED cands
             /\ UNCHANGED record
          \/ /\ at[c] = "remove"
             /\ record' = [record EXCEPT ![s] = NoRecord]
             /\ at' = [at EXCEPT ![c] = "ask"] /\ next
       /\ UNCHANGED <<diskVars, life, pc, queue, sessionVars, req, lines, asking, printed>>

\* round_trip.  A refusal, or being accepted twice, sends the command to the next server.
ReadLine(c) ==
    LET s == asking[c]
        n == IF at[c] = "accept" THEN 1 ELSE 2
        line == lines[c][s][n]
    IN /\ at[c] \in {"accept", "answer"}
       /\ Len(lines[c][s]) >= n
       /\ \/ /\ line.type = "accepted" /\ n = 1
             /\ at' = [at EXCEPT ![c] = "answer"]
             /\ UNCHANGED printed
          \/ /\ line.type = "check"
             /\ at' = [at EXCEPT ![c] = "hot"]
             /\ printed' = [printed EXCEPT ![c] = line]
          \/ /\ line.type # "check" /\ (line.type = "accepted" => n = 2)
             /\ at' = [at EXCEPT ![c] = "ask"]
             /\ UNCHANGED printed
       /\ UNCHANGED <<diskVars, lifeVars, pc, queue, sessionVars, req, lines, cands, asking>>

\* (Mutant of Patient: once its request is accepted a command waits for ever.)
PatientUntilAccepted(c) == at[c] = "accept"

Patient(c) == at[c] \in {"accept", "answer"}

\* ACCEPT_TIMEOUT, RESPONSE_TIMEOUT, or the connection is closed.
GiveUp(c) ==
    /\ Patient(c)
    /\ at' = [at EXCEPT ![c] = "ask"]
    /\ UNCHANGED <<diskVars, lifeVars, pc, queue, sessionVars, req, lines, cands, asking, printed>>

CheckItself(c) ==
    /\ at[c] = "ask"
    /\ \A s \in Servers : cands[c][s] = 0
    /\ at' = [at EXCEPT ![c] = "cold"]
    /\ UNCHANGED <<diskVars, lifeVars, pc, queue, sessionVars, req, lines, cands, asking, printed>>

-----------------------------------------------------------------------------
TaskStep(c, s) ==
    Gate(c, s) \/ (\E f \in Files : CheckRead(c, s, f)) \/ AnswerCheck(c, s) \/ CancelCheck(c, s)

MainStep(s) == Publish(s) \/ ApplyEdit(s) \/ TakeRequest(s) \/ RescanSession(s)

CommandStep(c) ==
    \/ StartCommand(c) \/ (\E s \in Servers : Connect(c, s)) \/ Forget(c)
    \/ ReadLine(c) \/ GiveUp(c) \/ CheckItself(c)

Next ==
    \/ \E f \in Files, v \in OnDisk : Write(f, v)
    \/ \E s \in Servers : StartServer(s) \/ StopServer(s) \/ ReceiveEdit(s) \/ MainStep(s)
    \/ \E s \in Servers, f \in Files : EditorRead(s, f)
    \/ \E c \in Commands, s \in Servers : AcceptRequest(c, s) \/ TaskStep(c, s)
    \/ \E c \in Commands : CommandStep(c)

Spec == Init /\ [][Next]_vars

\* The threads of a server and the commands run.  The main loop may be handed edits for
\* ever, but each time it is idle it looks at its queue first.  Servers need not start.
Fairness ==
    /\ \A s \in Servers : WF_vars(MainStep(s)) /\ SF_vars(TakeRequest(s))
    /\ \A c \in Commands, s \in Servers : WF_vars(AcceptRequest(c, s)) /\ WF_vars(TaskStep(c, s))
    /\ \A c \in Commands : WF_vars(CommandStep(c))
FairSpec == Spec /\ Fairness

-----------------------------------------------------------------------------
(* Properties.                                                             *)

\* "The hot answer has to be the cold answer": whatever was written, typed and retried,
\* each file of an answer is as it has been on disk while the command ran.
HotIsCold ==
    \A c \in Commands : at[c] = "hot" => \A f \in Files : printed[c].seen[f] \in since[c][f]

\* "Exactly one such message crosses, however many passes the request takes", and one
\* answer after it.
AcceptedOnce ==
    \A c \in Commands, s \in Servers : \A i \in DOMAIN lines[c][s] :
        /\ i <= 2
        /\ lines[c][s][i].type = "accepted" <=> i = 1

\* A server whose process id is new can be found for as long as it lives: the only record
\* a command removes is one of a server that is gone, unless the id has been given anew.
Discoverable ==
    \A s \in Servers : life[s] = 1 /\ pc[s] \in {"idle", "edit", "rescan"} => Readable(s)

\* "giving up after a few is what keeps a caller from waiting on a session that is being
\* typed into": a request leaves the server, though the edits never end.
RequestsEnd ==
    \A c \in Commands, s \in Servers : req[c][s].at = "queued" ~> req[c][s].at = "end"

\* "It is never the only way to get an answer": every command prints one, its own if the
\* servers die, refuse or are silent.
CommandsEnd == \A c \in Commands : <>(at[c] \in {"hot", "cold"})
=============================================================================
