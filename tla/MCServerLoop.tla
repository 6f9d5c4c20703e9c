---------------------------- MODULE MCServerLoop ----------------------------
(* Small instances of ServerLoop.                                          *)
EXTENDS ServerLoop, TLC

CONSTANTS doc, chk, poll, syn, ses, shut, w1, w2

\* A document request, a by/checkWorkspace, a long poll and a sync request.
KindOf ==
    [r \in {doc, chk, poll, syn, ses, shut} |->
        CASE r = doc  -> "document"
          [] r = chk  -> "checkworkspace"
          [] r = poll -> "longpoll"
          [] r = syn  -> "sync"
          [] r = ses  -> "session"
          [] r = shut -> "shutdown"]

KindHere == [r \in Requests |-> KindOf[r]]

\* The document request asks about the text the client's first edit brings.
WantedFirst == [r \in Requests |-> IF r = doc THEN 1 ELSE 0]

\* The document request asks about the text after the second edit.
WantedSecond == [r \in Requests |-> IF r = doc THEN 2 ELSE 0]

WorkerSymmetry == Permutations(Workers)
=============================================================================
