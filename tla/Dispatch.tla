------------------------------ MODULE Dispatch ------------------------------
(***************************************************************************)
(* What the fleet's queue promises to those who post tasks, without rows,  *)
(* claims, events and sweeps: a task is executed by one worker at a time,  *)
(* after the tasks it depends on, and only the worker that executes it can *)
(* complete it.  Two licences soften this, and only supervisors and        *)
(* operators give them: a task may be shared, so that a second worker may  *)
(* start it beside the first, and forced, so that it may start before its  *)
(* dependencies.                                                           *)
(***************************************************************************)
CONSTANTS Task, Worker, None, Deps, Cond

VARIABLES
    running, \* the task each worker executes
    done,    \* tasks that have been completed
    fit,     \* tasks that have been completed with the result Cond wants
    shared,  \* tasks that several workers may execute
    forced   \* tasks that may start before their dependencies

vars == <<running, done, fit, shared, forced>>

Init ==
    /\ running = [w \in Worker |-> None]
    /\ done = {}
    /\ fit = {}
    /\ shared = {}
    /\ forced = {}

Ready(t) ==
    \A d \in Deps[t] : d \in done /\ (<<d, t>> \in Cond => d \in fit)

Alone(t) == \A w \in Worker : running[w] # t

Start(w, t) ==
    /\ running[w] = None
    /\ Alone(t) \/ t \in shared
    /\ Ready(t) \/ t \in forced
    /\ running' = [running EXCEPT ![w] = t]
    /\ UNCHANGED <<done, fit, shared, forced>>

Finish(w) ==
    /\ running[w] # None
    /\ done' = done \cup {running[w]}
    /\ fit' \in {fit, fit \cup {running[w]}}
    /\ running' = [running EXCEPT ![w] = None]
    /\ UNCHANGED <<shared, forced>>

Abandon(w) ==
    /\ running[w] # None
    /\ running' = [running EXCEPT ![w] = None]
    /\ UNCHANGED <<done, fit, shared, forced>>

\* A licence is given, and never taken back; a forced task is shared as well.
License ==
    /\ forced \subseteq forced' /\ forced' \subseteq Task
    /\ shared \subseteq shared' /\ shared' \subseteq Task
    /\ forced' \ forced \subseteq shared'
    /\ UNCHANGED <<running, done, fit>>

Next ==
    \/ \E w \in Worker, t \in Task : Start(w, t)
    \/ \E w \in Worker : Finish(w) \/ Abandon(w)
    \/ License

Spec == Init /\ [][Next]_vars
=============================================================================
