------------------------------ MODULE Lifecycle ------------------------------
(***************************************************************************)
(* The processes of a fleet: supervisors (fleet/supervisor.py, booted by   *)
(* fleet/boot_sequence.py) and the workers each of them has started        *)
(* (fleet/process_manager.py), scaled (fleet/scheduler.py), watched        *)
(* (fleet/health_monitor.py) and kept single by pid files                  *)
(* (fleet/pid_manager.py); with the operator's commands                    *)
(* (fleet/process_control.py, fleet/dashboard.py).                         *)
(*                                                                         *)
(* A supervisor is named by its pid.  It has at most one live process per  *)
(* role, so a worker process is named by its parent and its role.  The     *)
(* supervisor's ticks run one after another in one thread, each is one     *)
(* step; a signal handler may run between two of them, or inside one       *)
(* (CutStart).  Ages and cool-downs are choices: whatever may have become  *)
(* old enough may be found so.                                             *)
(*                                                                         *)
(* The system does not give a pid away twice, so the pid of a process that *)
(* has ended is as good as none in a pid file; and the tables of a         *)
(* supervisor that has ended are forgotten.                                *)
(***************************************************************************)
EXTENDS Naturals, FiniteSets

CONSTANTS
    Sup,        \* pids of supervisor processes
    Role,       \* worker roles
    Core,       \* scheduler.CORE_AGENTS
    Switchable, \* roles the operator disables and enables
    None,       \* no live pid in a pid file
    MaxWorkers, \* fleet.toml max_workers
    Env         \* the optional events of this instance, named below

Events == {"kill", "signal", "flag", "restart", "sweep", "memory", "crash"}

ASSUME LifecycleAssumption ==
    /\ None \notin Sup
    /\ IsFiniteSet(Role)
    /\ Core \subseteq Role
    /\ Switchable \subseteq Role
    /\ MaxWorkers \in Nat
    /\ Cardinality(Core) <= MaxWorkers
    /\ Env \subseteq Events

VARIABLES
    sup,        \* where each supervisor process is
    supFile,    \* pids/supervisor.pid
    known,      \* the disabled agents each supervisor read when it booted
    proc,       \* proc[s][w]: the worker process s has started for w
    handle,     \* worker_procs: no key, None, or a Popen object
    due,        \* _worker_next_start: roles scheduled for a respawn
    pidFile,    \* pids/worker_<role>.pid: the parent of the process in it
    disabled,   \* fleet.toml disabled_agents
    flag,       \* .restart_requested exists
    lost,       \* history: supervisors that ended without their shutdown, or
                \* were signalled between a Popen and its record
    raced,      \* history: roles whose pid file two processes took at once
    revived,    \* history: roles running because check_alive respawned them
    overlapped  \* history: started by the scaler while due for a respawn

tables == <<known, handle, due, revived, overlapped>>
files == <<supFile, pidFile>>
operator == <<disabled, flag>>
marks == <<lost, raced>>
vars == <<sup, supFile, known, proc, handle, due, pidFile, disabled, flag,
          lost, raced, revived, overlapped>>

SupPlaces == {"unborn", "boot", "passed", "booting", "up", "stopping",
              "restarting", "gone"}
ProcPlaces == {"none", "starting", "passed", "serving"}
Handles == {"absent", "none", "proc"}

\* The name under which the supervisor itself is raced.
Boss == "supervisor"

-----------------------------------------------------------------------------
SupAlive(s) == sup[s] \notin {"unborn", "gone"}

\* Past its pid check: it boots, runs or stops a fleet.
Leads(s) == sup[s] \in {"booting", "up", "stopping", "restarting"}

Alive(s, w) == proc[s][w] # "none"

LiveRoles(s) == {w \in Role : Alive(s, w)}

\* get_running_workers: handles whose poll() is None.
Running(s) == {w \in Role : handle[s][w] = "proc" /\ Alive(s, w)}

\* Handles whose process has ended and that check_alive has not seen yet.
Dead(s) == {w \in Role : handle[s][w] = "proc" /\ ~Alive(s, w)}

\* f with the value x for the roles in S, at supervisor s.
Put(f, s, S, x) ==
    [f EXCEPT ![s] = [w \in Role |-> IF w \in S THEN x ELSE f[s][w]]]

\* Mutant: a dead process in the file still counts.
UnfiledNever(s, S) == pidFile

\* The role files once the processes of s for the roles in S have ended.
Unfiled(s, S) ==
    [w \in Role |-> IF w \in S /\ pidFile[w] = s THEN None ELSE pidFile[w]]

\* The processes of s for the roles in S end.
EndWorkers(s, S) ==
    /\ proc' = Put(proc, s, S, "none")
    /\ pidFile' = Unfiled(s, S)

\* Empty tables for the supervisors in S, which have ended or start over.
Forget(S) ==
    /\ known' = [x \in Sup |-> IF x \in S THEN {} ELSE known[x]]
    /\ handle' = [x \in Sup |-> IF x \in S THEN [w \in Role |-> "absent"]
                                           ELSE handle[x]]
    /\ due' = [x \in Sup |-> IF x \in S THEN {} ELSE due[x]]
    /\ revived' = [x \in Sup |-> IF x \in S THEN {} ELSE revived[x]]
    /\ overlapped' = [x \in Sup |-> IF x \in S THEN {} ELSE overlapped[x]]

-----------------------------------------------------------------------------
Init ==
    /\ sup = [s \in Sup |-> "unborn"]
    /\ supFile = None
    /\ known = [s \in Sup |-> {}]
    /\ proc = [s \in Sup |-> [w \in Role |-> "none"]]
    /\ handle = [s \in Sup |-> [w \in Role |-> "absent"]]
    /\ due = [s \in Sup |-> {}]
    /\ pidFile = [w \in Role |-> None]
    /\ disabled = {}
    /\ flag = FALSE
    /\ lost = {}
    /\ raced = {}
    /\ revived = [s \in Sup |-> {}]
    /\ overlapped = [s \in Sup |-> {}]

-----------------------------------------------------------------------------
\* Booting a supervisor.

\* /api/fleet/start, or a shell: supervisor.py is started.
Launch(s) ==
    /\ sup[s] = "unborn"
    /\ sup' = [sup EXCEPT ![s] = "boot"]
    /\ UNCHANGED <<proc, tables, files, operator, marks>>

\* Mutant: the process in the file is taken to be stale.
CheckPidTrusting(s) ==
    /\ sup[s] = "boot"
    /\ sup' = [sup EXCEPT ![s] = "passed"]
    /\ UNCHANGED <<proc, tables, files, operator, marks>>

\* acquire_pid("supervisor") up to the write: a live process in the file, be it
\* this one, means that boot returns None and the process ends.
CheckPid(s) ==
    /\ sup[s] = "boot"
    /\ IF supFile # None
       THEN /\ sup' = [sup EXCEPT ![s] = "gone"]
            /\ supFile' = IF supFile = s THEN None ELSE supFile
            /\ raced' = raced
       ELSE /\ sup' = [sup EXCEPT ![s] = "passed"]
            /\ supFile' = supFile
            /\ raced' = IF \E x \in Sup \ {s} : sup[x] = "passed"
                        THEN raced \cup {Boss} ELSE raced
    /\ UNCHANGED <<proc, tables, pidFile, operator, lost>>

\* The write; the configuration is read after it, once and for all.
WritePid(s) ==
    /\ sup[s] = "passed"
    /\ sup' = [sup EXCEPT ![s] = "booting"]
    /\ supFile' = s
    /\ known' = [known EXCEPT ![s] = disabled]
    /\ UNCHANGED <<proc, handle, due, revived, overlapped, pidFile, operator,
                   marks>>

\* start_worker for one more of the core roles; no signal handler yet.
BootWorker(s, w) ==
    /\ sup[s] = "booting"
    /\ w \in Core \ known[s]
    /\ handle[s][w] = "absent"
    /\ proc' = Put(proc, s, {w}, "starting")
    /\ handle' = Put(handle, s, {w}, "proc")
    /\ UNCHANGED <<sup, known, due, revived, overlapped, files, operator,
                   marks>>

BootDone(s) ==
    /\ sup[s] = "booting"
    /\ \A w \in Core \ known[s] : handle[s][w] # "absent"
    /\ sup' = [sup EXCEPT ![s] = "up"]
    /\ UNCHANGED <<proc, tables, files, operator, marks>>

-----------------------------------------------------------------------------
\* The ticks of a supervisor that is up.

\* What becomes of the handles when dead ones are reaped and roles started.
Reaped(s, started) ==
    [w \in Role |->
        CASE w \in Dead(s) \cap known[s] -> "absent"
          [] w \in Dead(s) \ known[s]    -> "none"
          [] w \in started               -> "proc"
          [] OTHER                       -> handle[s][w]]

\* Mutant: a dead handle becomes None and the role is not scheduled.
RescheduledNot(s, started) == due[s] \ (known[s] \cup started)

\* Mutant: a role that is started stays in the schedule.
RescheduledStill(s, started) == (due[s] \cup Dead(s)) \ known[s]

\* The respawn schedule after the reaping and the starts.
Rescheduled(s, started) == (due[s] \cup Dead(s)) \ (known[s] \cup started)

\* check_alive: dead handles become None and due (a disabled role loses its
\* key); due roles whose 15 s are over (E) and that have no process are started.
\* A due role that has a process meanwhile stays due.
CheckAlive(s, E) ==
    LET started == {w \in E \ known[s] : handle[s][w] # "proc"}
    IN  /\ sup[s] = "up"
        /\ E \subseteq due[s] \ Dead(s)
        /\ started # {} \/ Dead(s) # {}
        /\ proc' = Put(proc, s, started, "starting")
        /\ handle' = [handle EXCEPT ![s] = Reaped(s, started)]
        /\ due' = [due EXCEPT ![s] = Rescheduled(s, started)]
        /\ revived' = [revived EXCEPT ![s] = (@ \ Dead(s)) \cup started]
        /\ overlapped' = [overlapped EXCEPT ![s] = @ \ (Dead(s) \cup started)]
        /\ UNCHANGED <<sup, known, files, operator, marks>>

\* Mutant: one more is started when the cap is reached.
WithinCapPlusOne(s, U) ==
    Cardinality(Running(s)) + Cardinality(U) <= MaxWorkers + 1

\* Running workers and those to be started stay within max_workers.
WithinCap(s, U) == Cardinality(Running(s)) + Cardinality(U) <= MaxWorkers

\* _check_scaling: U is started for a deep queue, within the cap as far as
\* running workers show; D, idle for 300 s by the time of their last heartbeat
\* as BUSY, is stopped.  stop_worker leaves the respawn schedule alone.
CheckScaling(s, U, D) ==
    /\ sup[s] = "up"
    /\ U \subseteq Role \ (Core \cup known[s] \cup Running(s))
    /\ D \subseteq Running(s) \ Core
    /\ U # {} => WithinCap(s, U)
    /\ U # {} \/ D # {}
    /\ proc' = Put(Put(proc, s, U, "starting"), s, D, "none")
    /\ pidFile' = Unfiled(s, D)
    /\ handle' = Put(Put(handle, s, U, "proc"), s, D, "absent")
    /\ revived' = [revived EXCEPT ![s] = @ \ (U \cup D)]
    /\ overlapped' = [overlapped EXCEPT ![s] = @ \cup (U \cap due[s])]
    /\ UNCHANGED <<sup, known, due, supFile, operator, marks>>

\* _run_memory_watchdog on a worker that is too big: "restarting" ends it and
\* sets its handle to None, without a place in the respawn schedule.
MemoryWatchdog(s, w) ==
    /\ "memory" \in Env
    /\ sup[s] = "up"
    /\ w \in Running(s)
    /\ EndWorkers(s, {w})
    /\ handle' = Put(handle, s, {w}, "none")
    /\ revived' = [revived EXCEPT ![s] = @ \ {w}]
    /\ UNCHANGED <<sup, known, due, overlapped, supFile, operator, marks>>

\* run_health_sweep finds the agent "supervisor", whose heartbeat nobody renews,
\* stuck after 300 s: recover_agent sends SIGTERM to the pid of its row.  The
\* sweep's other kills are Crash.
SweepSupervisor(s) ==
    /\ "sweep" \in Env
    /\ sup[s] = "up"
    /\ sup' = [sup EXCEPT ![s] = "stopping"]
    /\ UNCHANGED <<proc, tables, files, operator, marks>>

\* The main loop sees .restart_requested.
SeeFlag(s) ==
    /\ sup[s] = "up"
    /\ flag
    /\ flag' = FALSE
    /\ sup' = [sup EXCEPT ![s] = "restarting"]
    /\ UNCHANGED <<proc, tables, files, disabled, marks>>

-----------------------------------------------------------------------------
\* Ends of a supervisor.

\* The supervisors in S end without a shutdown.
EndAbruptly(S) ==
    /\ supFile' = IF supFile \in S THEN None ELSE supFile
    /\ lost' = lost \cup S
    /\ Forget(S)

\* SIGTERM arrives at the supervisors in S: the handler is there from "up" on,
\* before that the process just ends.
Unhandled(S) == {x \in S : sup[x] \in {"boot", "passed", "booting"}}
Handled(S) == {x \in S : sup[x] \in {"up", "stopping", "restarting"}}
Terminated(S) ==
    [x \in Sup |-> CASE x \in Unhandled(S) -> "gone"
                     [] x \in Handled(S)   -> "stopping"
                     [] OTHER              -> sup[x]]

Signal(s) ==
    /\ "signal" \in Env
    /\ SupAlive(s)
    /\ sup' = Terminated({s})
    /\ EndAbruptly(Unhandled({s}))
    /\ UNCHANGED <<proc, pidFile, operator, raced>>

\* The signal arrives when check_alive or the scaler has a new process and has
\* not stored its handle.
CutStart(s, w) ==
    /\ "signal" \in Env
    /\ sup[s] = "up"
    /\ w \notin known[s] \cup Running(s) \cup Dead(s)
    /\ \/ /\ w \in due[s]
          /\ revived' = [revived EXCEPT ![s] = @ \cup {w}]
       \/ /\ w \notin Core
          /\ WithinCap(s, {w})
          /\ revived' = [revived EXCEPT ![s] = @ \ {w}]
    /\ proc' = Put(proc, s, {w}, "starting")
    /\ sup' = [sup EXCEPT ![s] = "stopping"]
    /\ lost' = lost \cup {s}
    /\ UNCHANGED <<known, handle, due, overlapped, files, operator, raced>>

\* shutdown_all ends one more of the workers it knows.
StopWorker(s, w) ==
    /\ sup[s] \in {"stopping", "restarting"}
    /\ w \in Running(s)
    /\ EndWorkers(s, {w})
    /\ UNCHANGED <<sup, tables, supFile, operator, marks>>

\* Mutant: the supervisor does not wait for its workers.
EndShutdownEarly(s) ==
    /\ sup[s] \in {"stopping", "restarting"}
    /\ sup' = [sup EXCEPT ![s] = "gone"]
    /\ supFile' = IF supFile = s THEN None ELSE supFile
    /\ Forget({s})
    /\ UNCHANGED <<proc, pidFile, operator, marks>>

\* All are stopped.  sys.exit ends the process; execv starts it over with the
\* same pid, which the pid file still holds, and with empty tables.
EndShutdown(s) ==
    /\ sup[s] \in {"stopping", "restarting"}
    /\ Running(s) = {}
    /\ IF sup[s] = "restarting"
       THEN /\ sup' = [sup EXCEPT ![s] = "boot"]
            /\ supFile' = supFile
       ELSE /\ sup' = [sup EXCEPT ![s] = "gone"]
            /\ supFile' = IF supFile = s THEN None ELSE supFile
    /\ Forget({s})
    /\ UNCHANGED <<proc, pidFile, operator, marks>>

\* SIGKILL, a crash, or the machine's memory killer.
Kill(s) ==
    /\ "kill" \in Env
    /\ SupAlive(s)
    /\ sup' = [sup EXCEPT ![s] = "gone"]
    /\ EndAbruptly({s})
    /\ UNCHANGED <<proc, pidFile, operator, raced>>

-----------------------------------------------------------------------------
\* Worker processes.

\* Mutant: the process in the role's file is taken to be stale.
WorkerCheckPidTrusting(s, w) ==
    /\ proc[s][w] = "starting"
    /\ proc' = Put(proc, s, {w}, "passed")
    /\ UNCHANGED <<sup, tables, files, operator, marks>>

\* acquire_worker_pid up to the write: a live process in the file ends this one.
WorkerCheckPid(s, w) ==
    /\ proc[s][w] = "starting"
    /\ IF pidFile[w] # None
       THEN /\ proc' = Put(proc, s, {w}, "none")
            /\ raced' = raced
       ELSE /\ proc' = Put(proc, s, {w}, "passed")
            /\ raced' = IF \E x \in Sup \ {s} : proc[x][w] = "passed"
                        THEN raced \cup {w} ELSE raced
    /\ UNCHANGED <<sup, tables, files, operator, lost>>

\* The write; a role that is disabled by now then exits, and its exit removes
\* the file again.
WorkerWritePid(s, w) ==
    /\ proc[s][w] = "passed"
    /\ proc' = Put(proc, s, {w}, IF w \in disabled THEN "none" ELSE "serving")
    /\ pidFile' = [pidFile EXCEPT ![w] = IF w \in disabled THEN None ELSE s]
    /\ UNCHANGED <<sup, tables, supFile, operator, marks>>

\* A worker process ends: it crashes, or recover_agent or the operator's restart
\* of one agent kills the pid in its row.
Crash(s, w) ==
    /\ "crash" \in Env
    /\ Alive(s, w)
    /\ EndWorkers(s, {w})
    /\ UNCHANGED <<sup, tables, supFile, operator, marks>>

-----------------------------------------------------------------------------
\* The operator.

\* /api/fleet/services/cosmo_bot/restart writes the flag file.
RequestRestart ==
    /\ "flag" \in Env
    /\ ~flag
    /\ \E s \in Sup : SupAlive(s)
    /\ flag' = TRUE
    /\ UNCHANGED <<sup, proc, tables, files, disabled, marks>>

\* /api/fleet/restart: SIGTERM to every fleet process (a worker ends after its
\* task, which may be a Crash later), and a new supervisor a second later.
FleetRestart(n) ==
    /\ "restart" \in Env
    /\ sup[n] = "unborn"
    /\ sup' = [Terminated(Sup) EXCEPT ![n] = "boot"]
    /\ EndAbruptly(Unhandled(Sup))
    /\ UNCHANGED <<proc, pidFile, operator, raced>>

\* The enable and disable endpoints rewrite fleet.toml.
SwitchAgent(w) ==
    /\ w \in Switchable
    /\ disabled' = IF w \in disabled THEN disabled \ {w} ELSE disabled \cup {w}
    /\ UNCHANGED <<sup, proc, tables, files, flag, marks>>

-----------------------------------------------------------------------------
BootStep(s) ==
    \/ CheckPid(s) \/ WritePid(s) \/ BootDone(s)
    \/ \E w \in Role : BootWorker(s, w)

Tick(s) ==
    \/ \E E \in SUBSET Role : CheckAlive(s, E)
    \/ \E U, D \in SUBSET Role : CheckScaling(s, U, D)
    \/ \E w \in Role : MemoryWatchdog(s, w)
    \/ SweepSupervisor(s)
    \/ SeeFlag(s)

EndStep(s) ==
    \/ Signal(s) \/ Kill(s) \/ EndShutdown(s)
    \/ \E w \in Role : CutStart(s, w) \/ StopWorker(s, w)

WorkerStep(s, w) == WorkerCheckPid(s, w) \/ WorkerWritePid(s, w) \/ Crash(s, w)

OperatorStep ==
    \/ \E s \in Sup : Launch(s) \/ FleetRestart(s)
    \/ RequestRestart
    \/ \E w \in Role : SwitchAgent(w)

Next ==
    \/ \E s \in Sup : BootStep(s) \/ Tick(s) \/ EndStep(s)
    \/ \E s \in Sup, w \in Role : WorkerStep(s, w)
    \/ OperatorStep

Spec == Init /\ [][Next]_vars

\* check_alive sees w dead, or finds its cool-down over.
Attend(s, w) ==
    /\ sup[s] = "up"
    /\ w \in Dead(s) \cup due[s]
    /\ \E E \in SUBSET due[s] : w \in Dead(s) \cup E /\ CheckAlive(s, E)

\* Fairness.  The main loop of a supervisor that is up calls check_alive every
\* 5 s, and cool-downs end.
LoopFairness == \A s \in Sup, w \in Role : WF_vars(Attend(s, w))

\* A process that boots goes on, the main loop looks for the flag, a shutdown
\* ends (its waits have timeouts) and workers take their first steps.  Nobody
\* owes the fleet a scale-up, a crash, a kill, a signal or a command.
Fairness ==
    /\ LoopFairness
    /\ \A s \in Sup :
        /\ WF_vars(BootStep(s))
        /\ WF_vars(SeeFlag(s))
        /\ WF_vars(EndShutdown(s) \/ \E w \in Role : StopWorker(s, w))
        /\ \A w \in Role : WF_vars(WorkerCheckPid(s, w) \/ WorkerWritePid(s, w))

LoopSpec == Spec /\ LoopFairness
FairSpec == Spec /\ Fairness

-----------------------------------------------------------------------------
\* Properties.

\* Every variable keeps its type, and a pid file holds the pid of a process that
\* lives: a supervisor, and a worker that serves the role.
ProcessTypes ==
    /\ sup \in [Sup -> SupPlaces]
    /\ proc \in [Sup -> [Role -> ProcPlaces]]
    /\ supFile # None => supFile \in Sup /\ SupAlive(supFile)
    /\ pidFile \in [Role -> Sup \cup {None}]
    /\ \A w \in Role : pidFile[w] # None => proc[pidFile[w]][w] = "serving"

TableTypes ==
    /\ known \in [Sup -> SUBSET Role]
    /\ handle \in [Sup -> [Role -> Handles]]
    /\ due \in [Sup -> SUBSET Role]
    /\ revived \in [Sup -> SUBSET Role]
    /\ overlapped \in [Sup -> SUBSET Role]

MarkTypes ==
    /\ disabled \subseteq Role
    /\ flag \in BOOLEAN
    /\ lost \subseteq Sup
    /\ raced \subseteq Role \cup {Boss}

LifecycleTypeOK == ProcessTypes /\ TableTypes /\ MarkTypes

\* Two supervisors lead a fleet at the same time only when both were between
\* the check and the write of the pid file at once.  Crashes that leave the file
\* behind, a shutdown that takes its time, execv, restarts by the operator and
\* launches beside a running supervisor never lead to it.
OneSupervisor ==
    \A s, x \in Sup : Leads(s) /\ Leads(x) /\ s # x => Boss \in raced

\* Two processes serve one role (they would claim under one name) only when both
\* were between the check and the write of the role's pid file at once, however
\* many supervisors and orphans there are.
OneServerPerRole ==
    \A w \in Role, s, x \in Sup :
        proc[s][w] = "serving" /\ proc[x][w] = "serving" /\ s # x
            => w \in raced

\* A supervisor that has gone through its shutdown leaves no worker behind,
\* unless the signal came between a Popen and the record of its handle: nothing
\* else makes the manager lose track of a live process.
NoOrphans ==
    \A s \in Sup : sup[s] = "gone" /\ s \notin lost => LiveRoles(s) = {}

\* The number of a supervisor's workers exceeds the cap only by workers that
\* check_alive brought back: the scaler fills up the places of those that are in
\* their cool-down, and these come back all the same.
PoolCap ==
    \A s \in Sup : SupAlive(s) =>
        Cardinality(LiveRoles(s) \ revived[s]) <= MaxWorkers

\* A role that is out of the manager's table, as scale-down leaves it, is
\* scheduled for a respawn only when the scaler had started it during an earlier
\* cool-down, whose schedule outlived the process it was for.
StoppedStaysStopped ==
    \A s \in Sup : \A w \in due[s] :
        handle[s][w] = "absent" => w \in overlapped[s]

\* A role whose process has died, however it died, is given a process again as
\* long as its supervisor is up and did not know it as disabled.  (What the
\* memory watchdog ends is not among them: it drops the handle.)
RoleComesBack ==
    \A s \in Sup, w \in Role :
        sup[s] = "up" /\ w \in (Dead(s) \cup due[s]) \ known[s]
            ~> sup[s] # "up" \/ Alive(s, w)

\* supervisor.py's log line on the flag, "restarting supervisor": a supervisor
\* that stops in order to restart is up again some day.
RestartComesBack ==
    \A s \in Sup : sup[s] = "restarting" ~> sup[s] = "up"
=============================================================================
