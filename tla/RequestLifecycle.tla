-------------------------- MODULE RequestLifecycle --------------------------
(***************************************************************************)
(* What the server promises of every request, whatever thread, queue or    *)
(* list holds it meanwhile: the client sends it once, it is registered     *)
(* (`Incoming::register`) at once or after waiting for the workspaces to   *)
(* be initialized, and only a registered request is answered, once         *)
(* (`Incoming::complete`, crates/ty_server/src/session/request_queue.rs).  *)
(* ServerLoop implements this specification.                               *)
(***************************************************************************)
EXTENDS Naturals

CONSTANT Requests

VARIABLES
    sent,      \* the requests the client has sent
    waiting,   \* those that are not registered yet
    open,      \* those that are registered and not answered
    answers    \* answers[r]: how many responses were sent to r

lifecycle == <<sent, waiting, open, answers>>

Init ==
    /\ sent = {} /\ waiting = {} /\ open = {}
    /\ answers = [r \in Requests |-> 0]

\* The client sends r: the server defers or registers it.
Send(r) ==
    /\ r \notin sent
    /\ sent' = sent \cup {r}
    /\ \/ waiting' = waiting \cup {r} /\ UNCHANGED open
       \/ open' = open \cup {r} /\ UNCHANGED waiting
    /\ UNCHANGED answers

\* A deferred request is handled after all.
Register(r) ==
    /\ r \in waiting
    /\ waiting' = waiting \ {r}
    /\ open' = open \cup {r}
    /\ UNCHANGED <<sent, answers>>

Answer(r) ==
    /\ r \in open
    /\ open' = open \ {r}
    /\ answers' = [answers EXCEPT ![r] = @ + 1]
    /\ UNCHANGED <<sent, waiting>>

Next == \E r \in Requests : Send(r) \/ Register(r) \/ Answer(r)

Spec == Init /\ [][Next]_lifecycle
=============================================================================
