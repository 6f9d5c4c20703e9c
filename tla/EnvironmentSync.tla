--------------------------- MODULE EnvironmentSync ---------------------------
(***************************************************************************)
(* What UvEnvironments promises to those who ask it for an environment     *)
(* (crates/ty_project/src/uv/environments.rs), without its queues,         *)
(* workers, follow-ups and wakeups.  uv touches the environment of a       *)
(* target only while the target is synchronizing; the end of a             *)
(* synchronization records the last request there was, and then uv has     *)
(* run for that request last; diagnostics are held back only for a target  *)
(* nobody had an environment for.  UvEnvironments implements this.         *)
(***************************************************************************)
CONSTANTS
    Targets,   \* the project and its scripts
    Keys,      \* what a request may ask for
    NoKey      \* nothing

VARIABLES
    known,         \* the targets that have an environment, be it a default one
    busy,          \* those that are synchronizing
    unavailable,   \* those whose diagnostics are held back meanwhile
    wanted,        \* wanted[t]: what the last request asked for
    made,          \* made[t]: the request uv last ran for
    recorded,      \* recorded[t]: what t is recorded to be synchronized with
    uv             \* is there a uv

environments == <<known, busy, unavailable, wanted, made, recorded, uv>>

Init ==
    /\ known \in SUBSET Targets
    /\ busy = {} /\ unavailable = {}
    /\ wanted = [t \in Targets |-> NoKey]
    /\ made = wanted /\ recorded = wanted
    /\ uv \in BOOLEAN

\* A query is answered with a default environment.
LookUp(t) ==
    /\ t \notin known
    /\ known' = known \cup {t}
    /\ UNCHANGED <<busy, unavailable, wanted, made, recorded, uv>>

\* A request starts a synchronization or redirects the one there is.
Request(t, k) ==
    /\ known' = known \cup {t}
    /\ busy' = busy \cup {t}
    /\ \/ UNCHANGED unavailable
       \/ t \notin known /\ unavailable' = unavailable \cup {t}
    /\ wanted' = [wanted EXCEPT ![t] = k]
    /\ UNCHANGED <<made, recorded, uv>>

\* uv runs, for this request or for one that has been replaced.
Run(t, k) ==
    /\ uv
    /\ t \in busy
    /\ made' = [made EXCEPT ![t] = k]
    /\ UNCHANGED <<known, busy, unavailable, wanted, recorded, uv>>

Finish(t) ==
    /\ t \in busy
    /\ uv => made[t] = wanted[t]
    /\ recorded' = [recorded EXCEPT ![t] = wanted[t]]
    /\ busy' = busy \ {t}
    /\ unavailable' = unavailable \ {t}
    /\ UNCHANGED <<known, wanted, made, uv>>

Next ==
    \E t \in Targets :
        \/ LookUp(t)
        \/ Finish(t)
        \/ \E k \in Keys : Request(t, k) \/ Run(t, k)

Spec == Init /\ [][Next]_environments
=============================================================================
