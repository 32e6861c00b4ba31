------------------------------- MODULE Modules -------------------------------
(***************************************************************************)
(* The module system of BigEd: launcher tabs that are switched on and off  *)
(* in fleet.toml.  A request previews a change (fleet/dep_resolver.py      *)
(* finds what else must go on or off), applies it later, or rolls back to  *)
(* a snapshot (fleet/modules_blueprint.py, fleet/module_snapshotter.py);   *)
(* the hub switches one tab (BigEd/launcher/modules/hub.py).               *)
(*                                                                         *)
(* All of them read fleet.toml, open it for writing, which empties it, and *)
(* write what they read with some lines changed.  No lock orders them.     *)
(***************************************************************************)
EXTENDS Naturals, Sequences

CONSTANTS
    Module,         \* modules with a manifest in fleet/modules
    Requires,       \* manifest: what a module requires
    Conflicts,      \* manifest: what it declares a conflict with
    AlsoRequires,   \* what it requires besides when the profile is active
    FirstFile,      \* the tabs of fleet.toml at the beginning
    Dashboard,      \* threads of the dashboard that serve requests
    Hub,            \* launchers with a hub
    Keep,           \* snapshot_retention
    MaxRequests,    \* bound: requests there are
    ModEnv          \* the optional events of an instance

Files == {f \in [on : SUBSET Module, listed : SUBSET Module] : f.on \subseteq f.listed}

ASSUME ModAssumption ==
    /\ Requires \in [Module -> SUBSET Module]
    /\ Conflicts \in [Module -> SUBSET Module]
    /\ AlsoRequires \in [Module -> SUBSET Module]
    /\ FirstFile \in Files
    /\ Keep \in Nat \ {0}
    /\ MaxRequests \in Nat
    /\ ModEnv \subseteq {"die", "dbfail"}

Client == Dashboard \cup Hub

VARIABLES
    file,       \* fleet.toml: tabs that are true, tabs that have a line
    cached,     \* the tabs that load_config has read last
    snaps,      \* rows of module_snapshots, oldest first
    step,       \* where each request is
    change,     \* the change set it carries
    text,       \* what it has read of fleet.toml
    asked,      \* requests so far
    fresh       \* history: which of its decisions nobody has written over

modVars == <<file, cached, snaps, step, change, text, asked, fresh>>

Steps == {"idle", "previewed", "validated", "snapped", "pruned", "read", "writing"}
Kinds == {"none", "enable", "install", "disable", "rollback", "switch"}

Nothing == [on |-> {}, listed |-> {}]
NoChange == [kind |-> "none", up |-> {}, down |-> {}, profile |-> FALSE, goal |-> {}]
Changes == [kind : Kinds, up : SUBSET Module, down : SUBSET Module,
            profile : BOOLEAN, goal : SUBSET Module]

ModInit ==
    /\ file = FirstFile
    /\ cached = FirstFile.on
    /\ snaps = <<>>
    /\ step = [c \in Client |-> "idle"]
    /\ change = [c \in Client |-> NoChange]
    /\ text = [c \in Client |-> Nothing]
    /\ asked = 0
    /\ fresh = [c \in Client |-> {}]

-----------------------------------------------------------------------------
\* What the recursion of dep_resolver visits: the least set with t that is
\* closed under next.
ClosedUnder(S, next) == \A m \in S : next[m] \subseteq S

Reach(t, next) ==
    {m \in DOMAIN next : \A S \in SUBSET DOMAIN next :
        t \in S /\ ClosedUnder(S, next) => m \in S}

\* _merge_profile_deps.
Needs(m, p) == Requires[m] \cup (IF p THEN AlsoRequires[m] ELSE {})

\* _resolve_enable, given what is on: it goes on to requirements that are off.
Visited(t, on, p) == Reach(t, [m \in Module |-> Needs(m, p) \ on])

\* Mutant: a requirement is switched on, and its own requirements are not.
NeededDirect(t, on, p) == ({t} \cup Needs(t, p)) \ on

Needed(t, on, p) == Visited(t, on, p) \ on

\* _resolve_disable: it goes on to those that require it and are on.
Dependents(t, on) ==
    Reach(t, [m \in Module |-> {d \in on : m \in Requires[d]}]) \cap on

\* Either declares the conflict.
Clash(m, n) == n \in Conflicts[m] \/ m \in Conflicts[n]

\* The conflicts that resolve reports for t and that name t itself.
Refused(t, on, p) ==
    \E v \in Visited(t, on, p), e \in on : Clash(v, e) /\ t \in {v, e}

\* resolve; uninstall is disable under another name.
Proposal(kind, t, on, p) ==
    [kind |-> kind,
     up |-> IF kind = "disable" THEN {} ELSE Needed(t, on, p),
     down |-> IF kind = "disable" THEN Dependents(t, on) ELSE {},
     profile |-> p /\ kind = "enable",
     goal |-> {}]

-----------------------------------------------------------------------------
\* load_config gives what it has cached, or reads the file again.
LoadConfig(on) == on \in {cached, file.on} /\ cached' = on

StepTo(c, s) == step' = [step EXCEPT ![c] = s]

\* A new request.
Ask(c) ==
    /\ step[c] = "idle"
    /\ asked < MaxRequests
    /\ asked' = asked + 1

EndRequest(c) ==
    /\ StepTo(c, "idle")
    /\ change' = [change EXCEPT ![c] = NoChange]
    /\ text' = [text EXCEPT ![c] = Nothing]

\* preview-change: the change set goes to the client, who comes back with it.
Preview(c) ==
    /\ Ask(c)
    /\ \E t \in Module, p \in BOOLEAN, kind \in {"enable", "install", "disable"},
          on \in SUBSET Module :
        /\ LoadConfig(on)
        /\ change' = [change EXCEPT ![c] = Proposal(kind, t, on, p)]
        /\ fresh' = [fresh EXCEPT ![c] = IF on = file.on THEN {"seen"} ELSE {}]
    /\ StepTo(c, "previewed")
    /\ UNCHANGED <<file, snaps, text>>

\* apply-change tests again the conflicts of what it enables, not of what it
\* installs, and never the requirements.
Valid(c, on) ==
    change[c].kind = "enable" =>
        \A t \in change[c].up : ~Refused(t, on, change[c].profile)

Validate(c) ==
    /\ step[c] = "previewed"
    /\ \E on \in SUBSET Module :
        /\ LoadConfig(on)
        /\ IF Valid(c, on)
           THEN /\ StepTo(c, "validated")
                /\ fresh' = [fresh EXCEPT ![c] =
                                IF on = file.on THEN @ \cup {"checked"} ELSE @]
                /\ UNCHANGED <<change, text>>
           ELSE /\ EndRequest(c)
                /\ fresh' = [fresh EXCEPT ![c] = {}]
    /\ UNCHANGED <<file, snaps, asked>>

\* Mutant: a rollback switches off all that is on and on all of the snapshot.
RestoreSwitchesAll(c) ==
    /\ Ask(c)
    /\ \E i \in DOMAIN snaps :
        change' = [change EXCEPT ![c] =
            [kind |-> "rollback", up |-> snaps[i], down |-> file.on,
             profile |-> FALSE, goal |-> snaps[i]]]
    /\ fresh' = [fresh EXCEPT ![c] = {"seen"}]
    /\ StepTo(c, "validated")
    /\ UNCHANGED <<file, cached, snaps, text>>

\* Mutant: a rollback is compared with the cached configuration.
RestoreFromCache(c) ==
    /\ Ask(c)
    /\ \E i \in DOMAIN snaps :
        change' = [change EXCEPT ![c] =
            [kind |-> "rollback", up |-> snaps[i] \ cached,
             down |-> cached \ snaps[i], profile |-> FALSE, goal |-> snaps[i]]]
    /\ fresh' = [fresh EXCEPT ![c] = {"seen"}]
    /\ StepTo(c, "validated")
    /\ UNCHANGED <<file, cached, snaps, text>>

\* rollback apply: restore_snapshot compares with the file, never the cache.
Restore(c) ==
    /\ Ask(c)
    /\ \E i \in DOMAIN snaps :
        change' = [change EXCEPT ![c] =
            [kind |-> "rollback", up |-> snaps[i] \ file.on,
             down |-> file.on \ snaps[i], profile |-> FALSE, goal |-> snaps[i]]]
    /\ fresh' = [fresh EXCEPT ![c] = {"seen"}]
    /\ StepTo(c, "validated")
    /\ UNCHANGED <<file, cached, snaps, text>>

\* take_snapshot inserts what the file says now ...
TakeSnapshot(c) ==
    /\ step[c] = "validated"
    /\ snaps' = Append(snaps, file.on)
    /\ StepTo(c, "snapped")
    /\ UNCHANGED <<file, cached, change, text, fresh, asked>>

Latest(s) == IF Len(s) > Keep THEN SubSeq(s, Len(s) - Keep + 1, Len(s)) ELSE s

\* ... and then deletes the oldest rows beyond the limit, whoever has inserted
\* them; a failure of that is logged, and the request goes on.
Prune(c) ==
    /\ step[c] = "snapped"
    /\ \/ snaps' = Latest(snaps)
       \/ "dbfail" \in ModEnv /\ snaps' = snaps
    /\ StepTo(c, "pruned")
    /\ UNCHANGED <<file, cached, change, text, fresh, asked>>

\* _apply_tab_changes reads the file.
ReadTabs(c) ==
    /\ step[c] = "pruned"
    /\ text' = [text EXCEPT ![c] = file]
    /\ StepTo(c, "read")
    /\ UNCHANGED <<file, cached, snaps, change, fresh, asked>>

\* The hub reads the file to switch one tab; it adds a line that is missing.
\* Behind the dashboard's endpoint it is made with load_config.
Switch(c) ==
    /\ Ask(c)
    /\ \E t \in Module : \E up \in SUBSET {t} :
        /\ change' = [change EXCEPT ![c] =
                        [kind |-> "switch", up |-> up, down |-> {t} \ up,
                         profile |-> FALSE, goal |-> {}]]
        /\ text' = [text EXCEPT ![c] =
                        [on |-> file.on, listed |-> file.listed \cup {t}]]
    /\ fresh' = [fresh EXCEPT ![c] = {}]
    /\ StepTo(c, "read")
    /\ cached' \in {cached, file.on}
    /\ UNCHANGED <<file, snaps>>

\* A write makes the decisions of the other requests old.
Overwrite(c) == [d \in Client |-> IF d = c THEN fresh[d] ELSE {}]

\* open(..., "w") empties the file.
Truncate(c) ==
    /\ step[c] = "read"
    /\ file' = Nothing
    /\ fresh' = Overwrite(c)
    /\ StepTo(c, "writing")
    /\ UNCHANGED <<cached, snaps, change, text, asked>>

\* "x = false" becomes "x = true" and the other way round: only where there is
\* such a line.
Written(c) ==
    [on |-> (text[c].on \cup (change[c].up \cap text[c].listed)) \ change[c].down,
     listed |-> text[c].listed]

\* The write, and load_config for the registry, which the dashboard rebuilds.
Fill(c) ==
    /\ step[c] = "writing"
    /\ file' = Written(c)
    /\ cached' \in IF change[c].kind = "switch" THEN {cached}
                                              ELSE {cached, Written(c).on}
    /\ fresh' = [Overwrite(c) EXCEPT ![c] = {}]
    /\ EndRequest(c)
    /\ UNCHANGED <<snaps, asked>>

\* The client does not come back with its preview.
Forget(c) ==
    /\ step[c] = "previewed"
    /\ fresh' = [fresh EXCEPT ![c] = {}]
    /\ EndRequest(c)
    /\ UNCHANGED <<file, cached, snaps, asked>>

\* An error, or the end of the process, before the file is written again.
GiveUp(c) ==
    /\ "die" \in ModEnv
    /\ step[c] \in {"validated", "snapped", "pruned", "read", "writing"}
    /\ fresh' = [fresh EXCEPT ![c] = {}]
    /\ EndRequest(c)
    /\ UNCHANGED <<file, cached, snaps, asked>>

ModNext ==
    \/ \E c \in Dashboard :
        \/ Preview(c) \/ Forget(c) \/ Validate(c) \/ Restore(c)
        \/ TakeSnapshot(c) \/ Prune(c) \/ ReadTabs(c)
    \/ \E c \in Hub : Switch(c)
    \/ \E c \in Client : Truncate(c) \/ Fill(c) \/ GiveUp(c)

ModSpec == ModInit /\ [][ModNext]_modVars

-----------------------------------------------------------------------------
\* Types, and: a tab that is on has a line, a change turns nothing both ways.
ModTypeOK ==
    /\ file \in Files
    /\ cached \subseteq Module
    /\ snaps \in Seq(SUBSET Module)
    /\ step \in [Client -> Steps]
    /\ change \in [Client -> Changes]
    /\ text \in [Client -> Files]
    /\ asked \in 0..MaxRequests
    /\ fresh \in [Client -> SUBSET {"seen", "checked"}]
    /\ \A c \in Client : change[c].up \cap change[c].down = {}

\* A change of c is written.
Writes(c) == step[c] = "writing" /\ step'[c] = "idle" /\ file' # file

\* Everything that is on has what its manifest requires.
Complete(on) == ClosedUnder(on, Requires)

\* A change, decided on a configuration that nobody has written over since,
\* leaves everything that is on with what it requires, if all it turns on has a
\* line in fleet.toml; and if the conflicts were tested on that configuration
\* too, nothing goes on that conflicts with what was on.
ChangeSound ==
    [][\A c \in Client : Writes(c) =>
        /\ change[c].kind \in {"enable", "install", "disable"}
             /\ "seen" \in fresh[c]
             /\ change[c].up \subseteq text[c].listed
             /\ Complete(text[c].on)
           => Complete(file'.on)
        /\ change[c].kind = "enable" /\ "checked" \in fresh[c]
           => \A m \in file'.on \ text[c].on, n \in text[c].on : ~Clash(m, n)]_modVars

\* A rollback that no other request writes into brings back what the snapshot
\* says, except for modules without a line, whatever else has happened since the
\* snapshot was taken.
RollbackRestores ==
    [][\A c \in Client :
        Writes(c) /\ change[c].kind = "rollback" /\ "seen" \in fresh[c]
            => file'.on = change[c].goal \cap file'.listed]_modVars
=============================================================================
