------------------------------ MODULE MCShared ------------------------------
(***************************************************************************)
(* Four protocols between processes that share nothing but rows or a file: *)
(* the training lock, the experiments with their GPU row, the forwarding   *)
(* of tasks between fleets, and the changes of modules in fleet.toml; and  *)
(* the searches of the resolver.  No variable belongs to two of them, so   *)
(* it is enough to explore one at a time: each moves while the others are  *)
(* still at their beginning.                                               *)
(***************************************************************************)
EXTENDS MCFleetLock, Experiment, Federation, ResolverSearch

CONSTANTS accounts, customers, demo, f1, j1, d1, d2

VARIABLE part       \* the protocol that moves

allVars == <<vars, expVars, fedVars, modVars, searchVars, part>>

SharedInit ==
    /\ Init /\ ExpInit /\ FedInit /\ ModInit /\ SearchInit
    /\ part \in {"lock", "experiment", "federation", "modules", "resolver"}

\* Fleets, jobs and DAG threads are alike: f1 is the one that is asked first, j1
\* what it is asked for, and of two idle DAG threads it is d1 that reads.
FedNamed ==
    /\ (\A r \in Row : row[r] = "none") =>
        \A r \in Row : row'[r] # "none" => home'[r] = f1 /\ job'[r] = j1
    /\ promoting[d1] = NoRow => promoting'[d2] \in {promoting[d2], NoRow}

SharedNext ==
    /\ \/ part = "lock" /\ Next /\ UNCHANGED <<expVars, fedVars, modVars, searchVars>>
       \/ part = "experiment" /\ ExpNext /\ UNCHANGED <<vars, fedVars, modVars, searchVars>>
       \/ /\ part = "federation" /\ FedNext /\ FedNamed
          /\ UNCHANGED <<vars, expVars, modVars, searchVars>>
       \/ part = "modules" /\ ModNext /\ UNCHANGED <<vars, expVars, fedVars, searchVars>>
       \/ part = "resolver" /\ SearchNext /\ UNCHANGED <<vars, expVars, fedVars, modVars>>
    /\ UNCHANGED part

\* The clients of the module system are alike, too.
SharedSymmetry == Permutations(Dashboard)

SharedSpec == SharedInit /\ [][SharedNext]_allVars

\* Two manifests of fleet/modules, and one that somebody has added: it requires
\* one of them under a profile, conflicts with the other, and has no line yet.
Requires3 == (accounts :> {}) @@ (customers :> {accounts}) @@ (demo :> {})
AlsoRequires3 == (accounts :> {}) @@ (customers :> {}) @@ (demo :> {customers})
Conflicts3 == (accounts :> {}) @@ (customers :> {}) @@ (demo :> {accounts})
FirstFile3 == [on |-> {}, listed |-> {accounts, customers}]
=============================================================================
