---------------------------- MODULE MCLifecycle ----------------------------
(***************************************************************************)
(* Instances of Lifecycle for TLC.                                         *)
(***************************************************************************)
EXTENDS Lifecycle

CONSTANTS s1, s2, w1, w2

Sups1 == {s1}
Sups2 == {s1, s2}
Roles == {w1, w2}
CoreRoles == {w1}

\* Bounds.  s1 names the supervisor that first leaves its pid check.  What two
\* supervisors do after they have raced past the pid file is explored as far as
\* the state in which both lead.
Bounds ==
    /\ sup[s1] \in {"unborn", "boot"} =>
            \A s \in Sup : sup[s] \in {"unborn", "boot"}
    /\ Boss \in raced => \E s \in Sup : \A x \in Sup \ {s} : ~Leads(x)
=============================================================================
