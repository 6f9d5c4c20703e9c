------------------------ MODULE WorkspaceDiagnostics ------------------------
(***************************************************************************)
(* Workspace diagnostics: result ids, streaming and long polling           *)
(* (crates/ty_server/src/server/api/requests/workspace_diagnostic.rs).     *)
(*                                                                         *)
(* The client pulls the diagnostics of all files and says which result ids *)
(* it has.  The server checks the files in parallel, reports each as       *)
(* changed, unchanged or cleared, may send the changed ones ahead as       *)
(* partial results, and holds the request open when nothing differs.       *)
(* Which thread runs the request, and when, is ServerLoop's business; here *)
(* a run ends, or the edit that cancels it comes first.                    *)
(***************************************************************************)
EXTENDS Naturals

CONSTANTS
    Files,      \* the files of the workspace
    Ids,        \* the fingerprints a file's diagnostics may have
    NoId,       \* the file has no diagnostics
    MaxEdits    \* bound: changes to what a file is reported as

ASSUME ValuesAssumption ==
    /\ NoId \notin Ids
    /\ MaxEdits \in Nat

Results == [Files -> Ids \cup {NoId}]

VARIABLES
    actual,     \* the diagnostics of each file, by their fingerprint
    ready,      \* has every script its initial environment
    edits,
    shown,      \* what the client shows, and has the result id of
    request,    \* the workspace/diagnostic request: "none", "queued", "running", "suspended"
    asked,      \* its params: the result ids the client had when it sent it
    token,      \* does it have a partial result token
    rerun,      \* has it been run before and held open
    left,       \* the files the run has yet to check
    previous,   \* ResponseWriter.previous_result_ids: those not matched yet
    changed,    \* the full reports not sent yet
    unchanged   \* the unchanged reports

writer == <<left, previous, changed, unchanged>>
vars == <<actual, ready, edits, shown, request, asked, token, rerun, writer>>

TypeOK ==
    /\ actual \in Results
    /\ ready \in BOOLEAN
    /\ edits \in 0 .. MaxEdits
    /\ shown \in Results
    /\ request \in {"none", "queued", "running", "suspended"}
    /\ asked \in Results
    /\ token \in BOOLEAN
    /\ rerun \in BOOLEAN
    /\ left \subseteq Files
    /\ previous \subseteq Files
    /\ changed \subseteq Files
    /\ unchanged \subseteq Files

Init ==
    /\ actual \in Results
    /\ ready \in BOOLEAN
    /\ edits = 0
    /\ shown = [f \in Files |-> NoId]
    /\ request = "none"
    /\ asked = [f \in Files |-> NoId]
    /\ token = FALSE
    /\ rerun = FALSE
    /\ left = {} /\ previous = {} /\ changed = {} /\ unchanged = {}

-----------------------------------------------------------------------------
(* The client.                                                             *)

Pull ==
    /\ request = "none"
    /\ request' = "queued"
    /\ asked' = shown
    /\ token' \in BOOLEAN
    /\ rerun' = FALSE
    /\ UNCHANGED <<actual, ready, edits, shown, writer>>

\* The client cancels the request, wherever it is.
CancelRequest ==
    /\ request # "none"
    /\ request' = "none"
    /\ UNCHANGED <<actual, ready, edits, shown, asked, token, rerun, writer>>

\* A full report replaces what the client shows, an unchanged one does not.
Shown(full, cleared) ==
    [f \in Files |-> IF f \in cleared THEN NoId ELSE IF f \in full THEN actual[f] ELSE shown[f]]

-----------------------------------------------------------------------------
(* One run of the request.                                                 *)

\* check_workspace: nothing is checked, and nothing cleared, while a script's
\* initial environment is missing; the empty report is held open.
NotReady ==
    /\ request = "queued"
    /\ ~ready
    /\ request' = "suspended"
    /\ UNCHANGED <<actual, ready, edits, shown, asked, token, rerun, writer>>

StartCheck ==
    /\ request = "queued"
    /\ ready
    /\ request' = "running"
    /\ left' = Files
    /\ previous' = {f \in Files : asked[f] # NoId}
    /\ changed' = {} /\ unchanged' = {}
    /\ UNCHANGED <<actual, ready, edits, shown, asked, token, rerun>>

\* (Mutant of IsUnchanged: having a result id at all is enough.)
HasPrevious(f) == f \in previous
IsUnchanged(f) == f \in previous /\ asked[f] = actual[f]

\* write_diagnostics_for_file.  A file without diagnostics is not reported, so that
\* its previous id is left for the final report to clear.
WriteDiagnostics(f) ==
    \/ actual[f] = NoId /\ UNCHANGED <<previous, unchanged>>
    \/ /\ actual[f] # NoId
       /\ previous' = previous \ {f}
       /\ unchanged' = IF IsUnchanged(f) THEN unchanged \cup {f} ELSE unchanged

\* The full reports there are after it.
Written(f) == IF actual[f] = NoId \/ IsUnchanged(f) THEN changed ELSE changed \cup {f}

\* report_checked_file: write, then maybe_flush.  The flush is throttled by the clock, so
\* that the reports collected so far go ahead, as a partial result, after any file.
CheckFile(f) ==
    /\ request = "running"
    /\ f \in left
    /\ left' = left \ {f}
    /\ WriteDiagnostics(f)
    /\ \/ changed' = Written(f) /\ UNCHANGED shown
       \/ /\ token
          /\ Written(f) # {}
          /\ changed' = {}
          /\ shown' = Shown(Written(f), {})
    /\ UNCHANGED <<actual, ready, edits, request, asked, token, rerun>>

\* (Mutant of all_unchanged: the cleared files are not looked at.)
written_unchanged == changed = {}
all_unchanged == changed = {} /\ previous = {}

\* (Mutant of Cleared: a file whose diagnostics are gone is not mentioned.)
ClearedNone == {}

\* into_final_report: what is left of the previous ids is cleared.
Cleared == previous

\* into_final_report and handle_request: a report that says nothing is not sent, the request is held open.
Finish ==
    /\ request = "running"
    /\ left = {}
    /\ IF all_unchanged
         THEN request' = "suspended" /\ UNCHANGED shown
         ELSE request' = "none" /\ shown' = Shown(changed, Cleared)
    /\ left' = {} /\ previous' = {} /\ changed' = {} /\ unchanged' = {}
    /\ UNCHANGED <<actual, ready, edits, asked, token, rerun>>

-----------------------------------------------------------------------------
(* Changes to the session.                                                 *)

\* (Mutant of AfterChange: a change does not resume the request held open.)
Unresumed == IF request = "running" THEN "none" ELSE request

\* A change bumps the revision.  A run it cancels is answered with an error, a
\* request held open is run again with the params it was sent with.
AfterChange ==
    IF request = "running" THEN "none"
    ELSE IF request = "suspended" THEN "queued"
    ELSE request

Change ==
    /\ request' = AfterChange
    /\ rerun' = (rerun \/ request = "suspended")
    /\ UNCHANGED <<shown, asked, token, writer>>

Edit(f, id) ==
    /\ edits < MaxEdits
    /\ actual[f] # id
    /\ actual' = [actual EXCEPT ![f] = id]
    /\ edits' = edits + 1
    /\ Change
    /\ UNCHANGED ready

\* Opening a script that has no environment yet asks uv for one.
OpenScript ==
    /\ edits < MaxEdits
    /\ ready
    /\ ready' = FALSE
    /\ edits' = edits + 1
    /\ Change
    /\ UNCHANGED actual

EnvironmentReady ==
    /\ ~ready
    /\ ready' = TRUE
    /\ Change
    /\ UNCHANGED <<actual, edits>>

RunStep ==
    \/ NotReady
    \/ StartCheck
    \/ \E f \in Files : CheckFile(f)
    \/ Finish

Next ==
    \/ Pull
    \/ CancelRequest
    \/ RunStep
    \/ \E f \in Files, id \in Ids \cup {NoId} : Edit(f, id)
    \/ OpenScript
    \/ EnvironmentReady

Spec == Init /\ [][Next]_vars

\* The client keeps pulling, a run that is not cancelled ends, uv finishes.
Fairness == WF_vars(Pull) /\ WF_vars(RunStep) /\ WF_vars(EnvironmentReady)
FairSpec == Spec /\ Fairness

-----------------------------------------------------------------------------
(* Properties.                                                             *)

\* "We know that the diagnostics for a file are unchanged (the client still has the
\* most recent review) if the ids compare equal": so while the request is held open
\* the client shows what the workspace has.
SuspendedClientCurrent == request = "suspended" /\ ready => shown = actual

\* The params still say what the client shows, unless a run before this one sent some
\* of its reports ahead.
ParamsCurrent == token => ~rerun

\* A request without partial results is held open only while the client shows what the
\* workspace has, however often it is run; one with them, as long as it has run once.
HeldClientCurrent == request = "suspended" /\ ready /\ ParamsCurrent => shown = actual

Answers == request = "running" /\ left = {} /\ request' = "none" /\ shown' # shown

\* The report of such a run brings the client up to date with every file: the changed,
\* the unchanged and the ones that have no diagnostics any more, sent ahead or not.
AnswersAreComplete == [][ParamsCurrent /\ Answers => shown' = actual]_vars

\* Once the session stops changing, the client comes to show what it has, unless it
\* cancels its requests for ever or asks for partial results: a request held open is
\* always resumed.
EventuallyCurrent ==
    <>[][~CancelRequest]_vars /\ <>[]~token => <>[](shown = actual)

\* What these rest on.
Awaiting ==
    /\ request = "queued" /\ ParamsCurrent => asked = shown
    /\ request = "suspended" /\ ~token => asked = shown
    /\ request = "suspended" /\ ready /\ ParamsCurrent => shown = actual

\* A file the run has not checked is as it was asked; one it has checked is shown, about
\* to be reported, or about to be cleared.
Checking ==
    request = "running" /\ ParamsCurrent =>
        \A f \in Files :
            /\ ~token => shown[f] = asked[f]
            /\ f \in left => f \notin changed /\ shown[f] = asked[f]
                               /\ (f \in previous <=> asked[f] # NoId)
            /\ f \notin left => f \in changed \/ shown[f] = actual[f]
                                  \/ (f \in previous /\ actual[f] = NoId)
            /\ f \in previous => f \in left \/ actual[f] = NoId

DiagnosticsInv == Awaiting /\ Checking
=============================================================================
