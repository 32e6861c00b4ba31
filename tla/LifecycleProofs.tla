-------------------------- MODULE LifecycleProofs --------------------------
(***************************************************************************)
(* Safety of the fleet's processes, for every number of supervisors and    *)
(* roles, every set of core roles and every set of events Env.  One        *)
(* inductive invariant, whose parts are named below; one lemma per action, *)
(* with one step per part.                                                 *)
(***************************************************************************)
EXTENDS Lifecycle, TLAPS, FiniteSetTheorems

USE LifecycleAssumption DEF SupPlaces, ProcPlaces, Handles

\* The tables of a supervisor: empty before it boots and after its end, filled
\* with core roles alone while it boots; and unless it is lost they know every
\* process it has.
Tracking ==
    \A s \in Sup :
        /\ s \in lost => sup[s] \in {"stopping", "gone"}
        /\ sup[s] \in {"unborn", "boot", "passed", "gone"} =>
              due[s] = {} /\ \A w \in Role : handle[s][w] = "absent"
        /\ sup[s] = "booting" =>
              /\ due[s] = {}
              /\ \A w \in Role : handle[s][w] # "absent" => w \in Core
        /\ s \notin lost =>
              \A w \in Role : Alive(s, w) => handle[s][w] = "proc"

\* As long as nobody raced, the supervisor's file names the one that leads, and
\* one that is about to write it is alone and finds it empty.
BossFile ==
    Boss \notin raced =>
        \A s \in Sup :
            /\ Leads(s) => supFile = s
            /\ sup[s] = "passed" =>
                  supFile = None /\ \A x \in Sup \ {s} : sup[x] # "passed"

\* The same of each role's file.
RoleFile ==
    \A w \in Role : w \notin raced =>
        \A s \in Sup :
            /\ proc[s][w] = "serving" => pidFile[w] = s
            /\ proc[s][w] = "passed" =>
                  pidFile[w] = None /\ \A x \in Sup \ {s} : proc[x][w] # "passed"

\* A role that is due without having been reaped was started while it was due.
DueReaped ==
    \A s \in Sup : \A w \in due[s] : handle[s][w] # "none" => w \in overlapped[s]

Inv ==
    /\ LifecycleTypeOK
    /\ Tracking
    /\ BossFile
    /\ RoleFile
    /\ DueReaped
    /\ PoolCap

\* What PoolCap counts: the workers of s that check_alive did not bring back.
Counted(s) == LiveRoles(s) \ revived[s]

\* The cap survives a step that only takes from what is counted, or leaves it
\* within a set of roles that is small enough.
LEMMA CapKept ==
    ASSUME PoolCap,
           \A x \in Sup : SupAlive(x)' =>
               \/ SupAlive(x) /\ Counted(x)' \subseteq Counted(x)
               \/ \E S \in SUBSET Role :
                      Counted(x)' \subseteq S /\ Cardinality(S) <= MaxWorkers
    PROVE  PoolCap'
<1> SUFFICES ASSUME NEW x \in Sup, SupAlive(x)'
             PROVE  Cardinality(Counted(x)') <= MaxWorkers
  BY DEF PoolCap, Counted
<1>1. PICK S \in SUBSET Role :
          Counted(x)' \subseteq S /\ Cardinality(S) <= MaxWorkers
  <2>1. Counted(x) \in SUBSET Role
    BY DEF Counted, LiveRoles
  <2>2. CASE SupAlive(x) /\ Counted(x)' \subseteq Counted(x)
    BY <2>1, <2>2 DEF PoolCap, Counted
  <2> QED BY <2>2
<1>2. IsFiniteSet(S)
  BY FS_Subset
<1>3. IsFiniteSet(Counted(x)') /\ Cardinality(Counted(x)') <= Cardinality(S)
  BY <1>1, <1>2, FS_Subset
<1>4. Cardinality(S) \in Nat /\ Cardinality(Counted(x)') \in Nat
  BY <1>2, <1>3, FS_CardinalityType
<1> QED BY <1>1, <1>3, <1>4

\* A supervisor without workers is within the cap.
LEMMA NoneCounted ==
    ASSUME NEW x \in Sup, LiveRoles(x)' = {}
    PROVE  \E S \in SUBSET Role :
               Counted(x)' \subseteq S /\ Cardinality(S) <= MaxWorkers
<1>1. Cardinality({}) = 0
  BY FS_EmptySet
<1> QED BY <1>1 DEF Counted

\* Running workers and those the scaler starts are within the cap together.
LEMMA StartedWithinCap ==
    ASSUME NEW s \in Sup, NEW U \in SUBSET Role, WithinCap(s, U)
    PROVE  Cardinality(Running(s) \cup U) <= MaxWorkers
<1>1. Running(s) \subseteq Role
  BY DEF Running
<1>2. IsFiniteSet(Running(s)) /\ IsFiniteSet(U)
  BY <1>1, FS_Subset
<1>3. /\ IsFiniteSet(Running(s) \cup U) /\ IsFiniteSet(Running(s) \cap U)
      /\ Cardinality(Running(s) \cup U) =
            Cardinality(Running(s)) + Cardinality(U)
               - Cardinality(Running(s) \cap U)
  BY <1>2, FS_Union, FS_Intersection
<1>4. /\ Cardinality(Running(s)) \in Nat
      /\ Cardinality(U) \in Nat
      /\ Cardinality(Running(s) \cap U) \in Nat
      /\ Cardinality(Running(s) \cup U) \in Nat
  BY <1>2, <1>3, FS_CardinalityType
<1> QED BY <1>3, <1>4 DEF WithinCap

\* A launch starts with empty tables.
LEMMA LaunchStep ==
    ASSUME Inv, NEW s \in Sup, Launch(s)
    PROVE  Inv'
<1> USE DEF Inv, LifecycleTypeOK
<1>1. ProcessTypes'
  BY DEF Launch, tables, files, operator, marks, ProcessTypes, SupAlive
<1>2. TableTypes'
  BY DEF Launch, tables, files, operator, marks, TableTypes
<1>3. MarkTypes'
  BY DEF Launch, tables, files, operator, marks, MarkTypes
<1>4. Tracking'
  BY DEF Launch, tables, files, operator, marks, Tracking, Alive
<1>5. BossFile'
  BY DEF Launch, tables, files, operator, marks, BossFile, ProcessTypes,
         MarkTypes, Leads, SupAlive
<1>6. RoleFile'
  BY DEF Launch, tables, files, operator, marks, RoleFile, ProcessTypes,
         MarkTypes, SupAlive
<1>7. DueReaped'
  BY DEF Launch, tables, files, operator, marks, DueReaped, ProcessTypes,
         TableTypes, SupAlive
<1>8. PoolCap'
  <2>1. \A x \in Sup : LiveRoles(x)' = LiveRoles(x)
    BY DEF Launch, LiveRoles, Alive
  <2>2. LiveRoles(s) = {}
    BY DEF Launch, Tracking, LiveRoles, Alive
  <2>3. \A x \in Sup \ {s} : SupAlive(x)' => SupAlive(x)
    BY DEF Launch, ProcessTypes, SupAlive
  <2>4. revived' = revived
    BY DEF Launch, tables
  <2> QED BY <2>1, <2>2, <2>3, <2>4, CapKept, NoneCounted DEF Counted
<1> QED BY <1>1, <1>2, <1>3, <1>4, <1>5, <1>6, <1>7, <1>8

\* A second process in the check marks a race; a live pid ends the process.
LEMMA CheckPidStep ==
    ASSUME Inv, NEW s \in Sup, CheckPid(s)
    PROVE  Inv'
<1> USE DEF Inv, LifecycleTypeOK
<1>1. ProcessTypes'
  BY DEF CheckPid, tables, files, operator, marks, ProcessTypes, SupAlive
<1>2. TableTypes'
  BY DEF CheckPid, tables, files, operator, marks, TableTypes
<1>3. MarkTypes'
  BY DEF CheckPid, tables, files, operator, marks, MarkTypes
<1>4. Tracking'
  BY DEF CheckPid, tables, files, operator, marks, ProcessTypes, TableTypes,
         MarkTypes, Tracking, SupAlive, Alive
<1>5. BossFile'
  BY DEF CheckPid, tables, files, operator, marks, BossFile, ProcessTypes,
         MarkTypes, Leads, SupAlive
<1>6. RoleFile'
  BY DEF CheckPid, tables, files, operator, marks, RoleFile, ProcessTypes,
         MarkTypes, SupAlive
<1>7. DueReaped'
  BY DEF CheckPid, tables, files, operator, marks, DueReaped, ProcessTypes,
         TableTypes, SupAlive
<1>8. PoolCap'
  BY DEF CheckPid, tables, files, operator, marks, PoolCap, ProcessTypes,
         TableTypes, LiveRoles, SupAlive, Alive
<1> QED BY <1>1, <1>2, <1>3, <1>4, <1>5, <1>6, <1>7, <1>8

\* Without a race nobody leads when the file is written.
LEMMA WritePidStep ==
    ASSUME Inv, NEW s \in Sup, WritePid(s)
    PROVE  Inv'
<1> USE DEF Inv, LifecycleTypeOK
<1>1. ProcessTypes'
  BY DEF WritePid, operator, marks, ProcessTypes, SupAlive
<1>2. TableTypes'
  BY DEF WritePid, TableTypes, MarkTypes
<1>3. MarkTypes'
  BY DEF WritePid, operator, marks, MarkTypes
<1>4. Tracking'
  BY DEF WritePid, operator, marks, Tracking, Alive
<1>5. BossFile'
  BY DEF WritePid, operator, marks, BossFile, ProcessTypes, MarkTypes, Leads,
         SupAlive
<1>6. RoleFile'
  BY DEF WritePid, operator, marks, RoleFile, ProcessTypes, MarkTypes, SupAlive
<1>7. DueReaped'
  BY DEF WritePid, operator, marks, DueReaped, ProcessTypes, TableTypes,
         SupAlive
<1>8. PoolCap'
  BY DEF WritePid, operator, marks, PoolCap, ProcessTypes, TableTypes,
         LiveRoles, SupAlive, Alive
<1> QED BY <1>1, <1>2, <1>3, <1>4, <1>5, <1>6, <1>7, <1>8

\* Booting starts core workers alone, which are within the cap.
LEMMA BootWorkerStep ==
    ASSUME Inv, NEW s \in Sup, NEW w \in Role, BootWorker(s, w)
    PROVE  Inv'
<1> USE DEF Inv, LifecycleTypeOK
<1>1. ProcessTypes'
  <2>1. handle[s][w] # "proc" /\ s \notin lost /\ proc[s][w] = "none"
    BY DEF BootWorker, ProcessTypes, Tracking, Alive
  <2>2. \A v \in Role : pidFile[v] # None => proc'[pidFile[v]][v] = "serving"
    BY <2>1 DEF BootWorker, Put, ProcessTypes
  <2>3. proc' \in [Sup -> [Role -> ProcPlaces]]
    BY DEF BootWorker, Put, ProcessTypes
  <2> QED BY <2>2, <2>3 DEF BootWorker, ProcessTypes, files, SupAlive
<1>2. TableTypes'
  BY DEF BootWorker, files, operator, marks, Put, TableTypes
<1>3. MarkTypes'
  BY DEF BootWorker, files, operator, marks, Put, MarkTypes
<1>4. Tracking'
  <2>1. s \notin lost
    BY DEF BootWorker, Tracking
  <2>2. \A x \in Sup, v \in Role :
           /\ proc'[x][v] = IF x = s /\ v = w THEN "starting" ELSE proc[x][v]
           /\ handle'[x][v] = IF x = s /\ v = w THEN "proc" ELSE handle[x][v]
    BY DEF BootWorker, Put, ProcessTypes, TableTypes
  <2>3. sup' = sup /\ lost' = lost /\ due' = due /\ sup[s] = "booting" /\ w \in Core
    BY DEF BootWorker, marks
  <2> QED BY <2>1, <2>2, <2>3 DEF Tracking, Alive
<1>5. BossFile'
  BY DEF BootWorker, files, operator, marks, Put, BossFile, ProcessTypes,
         MarkTypes, Leads, SupAlive
<1>6. RoleFile'
  BY DEF BootWorker, files, operator, marks, Put, RoleFile, ProcessTypes,
         MarkTypes, SupAlive
<1>7. DueReaped'
  BY DEF BootWorker, files, operator, marks, Put, DueReaped, ProcessTypes,
         TableTypes, SupAlive
<1>8. PoolCap'
  <2>1. \A x \in Sup \ {s} : Counted(x)' = Counted(x)
    BY DEF BootWorker, Put, ProcessTypes, Counted, LiveRoles, Alive
  <2>2. Counted(s)' \subseteq Core
    BY DEF BootWorker, Put, ProcessTypes, Tracking, Counted, LiveRoles, Alive
  <2>3. \A x \in Sup : SupAlive(x)' => SupAlive(x)
    BY DEF BootWorker, SupAlive
  <2> QED BY <2>1, <2>2, <2>3, CapKept
<1> QED BY <1>1, <1>2, <1>3, <1>4, <1>5, <1>6, <1>7, <1>8

\* The end of the boot changes no table.
LEMMA BootDoneStep ==
    ASSUME Inv, NEW s \in Sup, BootDone(s)
    PROVE  Inv'
<1> USE DEF Inv, LifecycleTypeOK
<1>1. ProcessTypes'
  BY DEF BootDone, tables, files, operator, marks, ProcessTypes, SupAlive
<1>2. TableTypes'
  BY DEF BootDone, tables, files, operator, marks, TableTypes
<1>3. MarkTypes'
  BY DEF BootDone, tables, files, operator, marks, MarkTypes
<1>4. Tracking'
  BY DEF BootDone, tables, files, operator, marks, Tracking, Alive
<1>5. BossFile'
  BY DEF BootDone, tables, files, operator, marks, BossFile, ProcessTypes,
         MarkTypes, Leads, SupAlive
<1>6. RoleFile'
  BY DEF BootDone, tables, files, operator, marks, RoleFile, ProcessTypes,
         MarkTypes, SupAlive
<1>7. DueReaped'
  BY DEF BootDone, tables, files, operator, marks, DueReaped, ProcessTypes,
         TableTypes, SupAlive
<1>8. PoolCap'
  BY DEF BootDone, tables, files, operator, marks, PoolCap, ProcessTypes,
         TableTypes, LiveRoles, SupAlive, Alive
<1> QED BY <1>1, <1>2, <1>3, <1>4, <1>5, <1>6, <1>7, <1>8

\* A respawn starts what has no process, and takes it out of the schedule.
LEMMA CheckAliveStep ==
    ASSUME Inv, NEW s \in Sup, NEW E \in SUBSET Role, CheckAlive(s, E)
    PROVE  Inv'
<1> USE DEF Inv, LifecycleTypeOK
<1>1. ProcessTypes'
  <2>1. PICK S \in SUBSET Role : /\ S = {w \in E \ known[s] : handle[s][w] # "proc"}
                                 /\ proc' = Put(proc, s, S, "starting")
    BY DEF CheckAlive
  <2>2. \A w \in S : proc[s][w] = "none"
    BY <2>1 DEF CheckAlive, ProcessTypes, Tracking, Alive
  <2>3. \A v \in Role : pidFile[v] # None => proc'[pidFile[v]][v] = "serving"
    BY <2>1, <2>2 DEF Put, ProcessTypes
  <2>4. proc' \in [Sup -> [Role -> ProcPlaces]]
    BY <2>1 DEF Put, ProcessTypes
  <2> QED BY <2>3, <2>4 DEF CheckAlive, ProcessTypes, files, SupAlive
<1>2. TableTypes'
  BY DEF CheckAlive, files, operator, marks, Put, Reaped, Rescheduled, Dead,
         TableTypes, Alive
<1>3. MarkTypes'
  BY DEF CheckAlive, files, operator, marks, Put, Reaped, Rescheduled, Dead,
         MarkTypes, Alive
<1>4. Tracking'
  <2>1. PICK S \in SUBSET Role : /\ S = {w \in E \ known[s] : handle[s][w] # "proc"}
                                 /\ proc' = Put(proc, s, S, "starting")
                                 /\ handle' = [handle EXCEPT ![s] = Reaped(s, S)]
    BY DEF CheckAlive
  <2>2. \A x \in Sup, v \in Role :
           proc'[x][v] = IF x = s /\ v \in S THEN "starting" ELSE proc[x][v]
    BY <2>1 DEF Put, ProcessTypes
  <2>3. S \cap Dead(s) = {}
    BY <2>1 DEF Dead
  <2>4. \A v \in S : handle'[s][v] = "proc"
    BY <2>1, <2>3 DEF Reaped, TableTypes
  <2>5. \A v \in Role : v \notin Dead(s) \cup S => handle'[s][v] = handle[s][v]
    BY <2>1 DEF Reaped, TableTypes
  <2>6. \A x \in Sup : x # s => handle'[x] = handle[x] /\ due'[x] = due[x]
    BY <2>1 DEF CheckAlive, TableTypes
  <2>7. \A v \in Role : Alive(s, v)' /\ s \notin lost => handle'[s][v] = "proc"
    BY <2>2, <2>4, <2>5 DEF Alive, Dead, Tracking
  <2>8. sup[s] = "up" /\ sup' = sup /\ lost' = lost
    BY DEF CheckAlive, marks
  <2> QED BY <2>2, <2>6, <2>7, <2>8 DEF Tracking, Alive
<1>5. BossFile'
  BY DEF CheckAlive, files, operator, marks, Put, Reaped, Rescheduled, Dead,
         BossFile, ProcessTypes, MarkTypes, Leads, SupAlive, Alive
<1>6. RoleFile'
  BY DEF CheckAlive, files, operator, marks, Put, Reaped, Rescheduled, Dead,
         RoleFile, ProcessTypes, MarkTypes, SupAlive, Alive
<1>7. DueReaped'
  BY DEF CheckAlive, files, operator, marks, Put, Reaped, Rescheduled, Dead,
         DueReaped, ProcessTypes, TableTypes, SupAlive, Alive
<1>8. PoolCap'
  <2>1. PICK S \in SUBSET Role : /\ proc' = Put(proc, s, S, "starting")
                                 /\ revived' = [revived EXCEPT ![s] = (@ \ Dead(s)) \cup S]
    BY DEF CheckAlive
  <2>2. \A x \in Sup : Counted(x)' \subseteq Counted(x)
    BY <2>1 DEF Put, ProcessTypes, TableTypes, Counted, LiveRoles, Alive, Dead
  <2>3. \A x \in Sup : SupAlive(x)' => SupAlive(x)
    BY DEF CheckAlive, SupAlive
  <2> QED BY <2>2, <2>3, CapKept
<1> QED BY <1>1, <1>2, <1>3, <1>4, <1>5, <1>6, <1>7, <1>8

\* Scaling starts what has no process, within the cap, and stops what it knows.
LEMMA CheckScalingStep ==
    ASSUME Inv, NEW s \in Sup, NEW U \in SUBSET Role, NEW D \in SUBSET Role, CheckScaling(s, U, D)
    PROVE  Inv'
<1> USE DEF Inv, LifecycleTypeOK
<1>1. ProcessTypes'
  <2>1. \A v \in U : proc[s][v] = "none"
    BY DEF CheckScaling, Running, ProcessTypes, Tracking, Alive
  <2>2. \A x \in Sup, v \in Role :
           proc'[x][v] = IF x = s /\ v \in D THEN "none"
                         ELSE IF x = s /\ v \in U THEN "starting" ELSE proc[x][v]
    BY DEF CheckScaling, Put, ProcessTypes
  <2>3. pidFile' \in [Role -> Sup \cup {None}] /\
        \A v \in Role : pidFile'[v] # None => proc'[pidFile'[v]][v] = "serving"
    BY <2>1, <2>2 DEF CheckScaling, Unfiled, ProcessTypes
  <2>4. proc' \in [Sup -> [Role -> ProcPlaces]]
    BY DEF CheckScaling, Put, ProcessTypes
  <2> QED BY <2>3, <2>4 DEF CheckScaling, ProcessTypes, SupAlive
<1>2. TableTypes'
  BY DEF CheckScaling, operator, marks, Put, Unfiled, Running, TableTypes,
         Alive
<1>3. MarkTypes'
  BY DEF CheckScaling, operator, marks, Put, Unfiled, Running, MarkTypes, Alive
<1>4. Tracking'
  <2>1. \A x \in Sup, v \in Role :
           /\ proc'[x][v] = IF x = s /\ v \in D THEN "none"
                         ELSE IF x = s /\ v \in U THEN "starting" ELSE proc[x][v]
           /\ handle'[x][v] = IF x = s /\ v \in D THEN "absent"
                         ELSE IF x = s /\ v \in U THEN "proc" ELSE handle[x][v]
    BY DEF CheckScaling, Put, ProcessTypes, TableTypes
  <2> QED BY <2>1 DEF CheckScaling, marks, Tracking, Alive
<1>5. BossFile'
  BY DEF CheckScaling, operator, marks, Put, Unfiled, Running, BossFile,
         ProcessTypes, MarkTypes, Leads, SupAlive, Alive
<1>6. RoleFile'
  BY DEF CheckScaling, operator, marks, Put, Unfiled, Running, RoleFile,
         ProcessTypes, MarkTypes, SupAlive, Alive
<1>7. DueReaped'
  BY DEF CheckScaling, operator, marks, Put, Unfiled, Running, DueReaped,
         ProcessTypes, TableTypes, SupAlive, Alive
<1>8. PoolCap'
  <2>1. \A x \in Sup \ {s} : Counted(x)' = Counted(x)
    BY DEF CheckScaling, Put, ProcessTypes, TableTypes, Counted, LiveRoles,
           Alive
  <2>2. \A x \in Sup : SupAlive(x)' => SupAlive(x)
    BY DEF CheckScaling, SupAlive
  <2>3. CASE U = {}
    <3>1. Counted(s)' \subseteq Counted(s)
      BY <2>3 DEF CheckScaling, Put, ProcessTypes, TableTypes, Counted, LiveRoles, Alive
    <3>2. SupAlive(s)
      BY DEF CheckScaling, SupAlive
    <3> QED BY <2>1, <2>2, <3>1, <3>2, CapKept
  <2>4. CASE U # {}
    <3>1. Counted(s)' \subseteq Running(s) \cup U
      BY DEF CheckScaling, Put, ProcessTypes, Tracking, Counted, LiveRoles,
             Alive, Running
    <3>2. Running(s) \in SUBSET Role
      BY DEF Running
    <3>3. Cardinality(Running(s) \cup U) <= MaxWorkers
      BY <2>4, <3>2, StartedWithinCap DEF CheckScaling
    <3> QED BY <2>1, <2>2, <3>1, <3>2, <3>3, CapKept
  <2> QED BY <2>3, <2>4
<1> QED BY <1>1, <1>2, <1>3, <1>4, <1>5, <1>6, <1>7, <1>8

\* The watchdog ends a process it knows and drops the handle.
LEMMA MemoryWatchdogStep ==
    ASSUME Inv, NEW s \in Sup, NEW w \in Role, MemoryWatchdog(s, w)
    PROVE  Inv'
<1> USE DEF Inv, LifecycleTypeOK
<1>1. ProcessTypes'
  BY DEF MemoryWatchdog, operator, marks, EndWorkers, Put, Unfiled, Running,
         ProcessTypes, SupAlive, Alive
<1>2. TableTypes'
  BY DEF MemoryWatchdog, operator, marks, EndWorkers, Put, Unfiled, Running,
         TableTypes, Alive
<1>3. MarkTypes'
  BY DEF MemoryWatchdog, operator, marks, EndWorkers, Put, Unfiled, Running,
         MarkTypes, Alive
<1>4. Tracking'
  <2>1. \A x \in Sup, v \in Role :
           /\ proc'[x][v] = IF x = s /\ v = w THEN "none" ELSE proc[x][v]
           /\ handle'[x][v] = IF x = s /\ v = w THEN "none" ELSE handle[x][v]
    BY DEF MemoryWatchdog, EndWorkers, Put, ProcessTypes, TableTypes
  <2>2. sup' = sup /\ lost' = lost /\ due' = due /\ sup[s] = "up"
    BY DEF MemoryWatchdog, marks
  <2> QED BY <2>1, <2>2 DEF Tracking, Alive
<1>5. BossFile'
  BY DEF MemoryWatchdog, operator, marks, EndWorkers, Put, Unfiled, Running,
         BossFile, ProcessTypes, MarkTypes, Leads, SupAlive, Alive
<1>6. RoleFile'
  BY DEF MemoryWatchdog, operator, marks, EndWorkers, Put, Unfiled, Running,
         RoleFile, ProcessTypes, MarkTypes, SupAlive, Alive
<1>7. DueReaped'
  BY DEF MemoryWatchdog, operator, marks, EndWorkers, Put, Unfiled, Running,
         DueReaped, ProcessTypes, TableTypes, SupAlive, Alive
<1>8. PoolCap'
  <2>1. \A x \in Sup : Counted(x)' \subseteq Counted(x)
    BY DEF MemoryWatchdog, EndWorkers, Put, ProcessTypes, TableTypes, Counted,
           LiveRoles, Alive
  <2>2. \A x \in Sup : SupAlive(x)' => SupAlive(x)
    BY DEF MemoryWatchdog, SupAlive
  <2> QED BY <2>1, <2>2, CapKept
<1> QED BY <1>1, <1>2, <1>3, <1>4, <1>5, <1>6, <1>7, <1>8

\* The sweep's SIGTERM starts a shutdown.
LEMMA SweepSupervisorStep ==
    ASSUME Inv, NEW s \in Sup, SweepSupervisor(s)
    PROVE  Inv'
<1> USE DEF Inv, LifecycleTypeOK
<1>1. ProcessTypes'
  BY DEF SweepSupervisor, tables, files, operator, marks, ProcessTypes,
         SupAlive
<1>2. TableTypes'
  BY DEF SweepSupervisor, tables, files, operator, marks, TableTypes
<1>3. MarkTypes'
  BY DEF SweepSupervisor, tables, files, operator, marks, MarkTypes
<1>4. Tracking'
  BY DEF SweepSupervisor, tables, files, operator, marks, Tracking, Alive
<1>5. BossFile'
  BY DEF SweepSupervisor, tables, files, operator, marks, BossFile,
         ProcessTypes, MarkTypes, Leads, SupAlive
<1>6. RoleFile'
  BY DEF SweepSupervisor, tables, files, operator, marks, RoleFile,
         ProcessTypes, MarkTypes, SupAlive
<1>7. DueReaped'
  BY DEF SweepSupervisor, tables, files, operator, marks, DueReaped,
         ProcessTypes, TableTypes, SupAlive
<1>8. PoolCap'
  BY DEF SweepSupervisor, tables, files, operator, marks, PoolCap,
         ProcessTypes, TableTypes, LiveRoles, SupAlive, Alive
<1> QED BY <1>1, <1>2, <1>3, <1>4, <1>5, <1>6, <1>7, <1>8

\* The flag starts a shutdown.
LEMMA SeeFlagStep ==
    ASSUME Inv, NEW s \in Sup, SeeFlag(s)
    PROVE  Inv'
<1> USE DEF Inv, LifecycleTypeOK
<1>1. ProcessTypes'
  BY DEF SeeFlag, tables, files, operator, marks, ProcessTypes, SupAlive
<1>2. TableTypes'
  BY DEF SeeFlag, tables, files, operator, marks, TableTypes
<1>3. MarkTypes'
  BY DEF SeeFlag, tables, files, operator, marks, MarkTypes
<1>4. Tracking'
  BY DEF SeeFlag, tables, files, operator, marks, Tracking, Alive
<1>5. BossFile'
  BY DEF SeeFlag, tables, files, operator, marks, BossFile, ProcessTypes,
         MarkTypes, Leads, SupAlive
<1>6. RoleFile'
  BY DEF SeeFlag, tables, files, operator, marks, RoleFile, ProcessTypes,
         MarkTypes, SupAlive
<1>7. DueReaped'
  BY DEF SeeFlag, tables, files, operator, marks, DueReaped, ProcessTypes,
         TableTypes, SupAlive
<1>8. PoolCap'
  BY DEF SeeFlag, tables, files, operator, marks, PoolCap, ProcessTypes,
         TableTypes, LiveRoles, SupAlive, Alive
<1> QED BY <1>1, <1>2, <1>3, <1>4, <1>5, <1>6, <1>7, <1>8

\* A signal starts a shutdown or ends a process that has no handler.
LEMMA SignalStep ==
    ASSUME Inv, NEW s \in Sup, Signal(s)
    PROVE  Inv'
<1> USE DEF Inv, LifecycleTypeOK
<1>1. ProcessTypes'
  BY DEF Signal, operator, marks, EndAbruptly, Forget, Terminated, Handled,
         Unhandled, ProcessTypes, SupAlive
<1>2. TableTypes'
  BY DEF Signal, operator, marks, EndAbruptly, Forget, Terminated, Handled,
         Unhandled, TableTypes, SupAlive
<1>3. MarkTypes'
  BY DEF Signal, operator, marks, EndAbruptly, Forget, Terminated, Handled,
         Unhandled, MarkTypes, SupAlive
<1>4. Tracking'
  BY DEF Signal, operator, marks, EndAbruptly, Forget, Terminated, Handled,
         Unhandled, Tracking, SupAlive, Alive
<1>5. BossFile'
  BY DEF Signal, operator, marks, EndAbruptly, Forget, Terminated, Handled,
         Unhandled, BossFile, ProcessTypes, MarkTypes, Leads, SupAlive
<1>6. RoleFile'
  BY DEF Signal, operator, marks, EndAbruptly, Forget, Terminated, Handled,
         Unhandled, RoleFile, ProcessTypes, MarkTypes, SupAlive
<1>7. DueReaped'
  BY DEF Signal, operator, marks, EndAbruptly, Forget, Terminated, Handled,
         Unhandled, DueReaped, ProcessTypes, TableTypes, SupAlive
<1>8. PoolCap'
  BY DEF Signal, operator, marks, EndAbruptly, Forget, Terminated, Handled,
         Unhandled, PoolCap, ProcessTypes, TableTypes, LiveRoles, SupAlive,
         Alive
<1> QED BY <1>1, <1>2, <1>3, <1>4, <1>5, <1>6, <1>7, <1>8

\* A start that is cut off leaves a process that no table knows.
LEMMA CutStartStep ==
    ASSUME Inv, NEW s \in Sup, NEW w \in Role, CutStart(s, w)
    PROVE  Inv'
<1> USE DEF Inv, LifecycleTypeOK
<1>1. ProcessTypes'
  <2>1. proc[s][w] = "none"
    BY DEF CutStart, Running, ProcessTypes, Tracking, Alive, Dead, TableTypes
  <2>2. \A v \in Role : pidFile[v] # None => proc'[pidFile[v]][v] = "serving"
    BY <2>1 DEF CutStart, Put, ProcessTypes
  <2>3. proc' \in [Sup -> [Role -> ProcPlaces]] /\ sup' \in [Sup -> SupPlaces]
    BY DEF CutStart, Put, ProcessTypes
  <2> QED BY <2>2, <2>3 DEF CutStart, ProcessTypes, files, SupAlive
<1>2. TableTypes'
  BY DEF CutStart, files, operator, marks, Put, Running, Dead, TableTypes,
         Alive
<1>3. MarkTypes'
  BY DEF CutStart, files, operator, marks, Put, Running, Dead, MarkTypes, Alive
<1>4. Tracking'
  <2>1. \A x \in Sup \ {s} : proc'[x] = proc[x] /\ sup'[x] = sup[x]
    BY DEF CutStart, Put, ProcessTypes
  <2>2. sup'[s] = "stopping" /\ s \in lost'
    BY DEF CutStart, ProcessTypes
  <2>3. lost' = lost \cup {s} /\ due' = due /\ handle' = handle
    BY DEF CutStart
  <2> QED BY <2>1, <2>2, <2>3 DEF Tracking, Alive
<1>5. BossFile'
  BY DEF CutStart, files, operator, marks, Put, Running, Dead, BossFile,
         ProcessTypes, MarkTypes, Leads, SupAlive, Alive
<1>6. RoleFile'
  BY DEF CutStart, files, operator, marks, Put, Running, Dead, RoleFile,
         ProcessTypes, MarkTypes, SupAlive, Alive
<1>7. DueReaped'
  BY DEF CutStart, files, operator, marks, Put, Running, Dead, DueReaped,
         ProcessTypes, TableTypes, SupAlive, Alive
<1>8. PoolCap'
  <2>1. \A x \in Sup \ {s} : Counted(x)' = Counted(x)
    BY DEF CutStart, Put, ProcessTypes, TableTypes, Counted, LiveRoles, Alive
  <2>2. \A x \in Sup : SupAlive(x)' => SupAlive(x)
    BY DEF CutStart, ProcessTypes, SupAlive
  <2>3. CASE revived' = [revived EXCEPT ![s] = @ \cup {w}]
    <3>1. Counted(s)' \subseteq Counted(s)
      BY <2>3 DEF CutStart, Put, ProcessTypes, TableTypes, Counted, LiveRoles, Alive
    <3> QED BY <2>1, <2>2, <3>1, CapKept DEF CutStart, SupAlive
  <2>4. CASE WithinCap(s, {w})
    <3>1. Counted(s)' \subseteq Running(s) \cup {w}
      BY DEF CutStart, Put, ProcessTypes, Tracking, Counted, LiveRoles, Alive,
             Running
    <3>2. Running(s) \in SUBSET Role
      BY DEF Running
    <3>3. Cardinality(Running(s) \cup {w}) <= MaxWorkers
      BY <2>4, <3>2, StartedWithinCap
    <3> QED BY <2>1, <2>2, <3>1, <3>2, <3>3, CapKept
  <2> QED BY <2>3, <2>4 DEF CutStart
<1> QED BY <1>1, <1>2, <1>3, <1>4, <1>5, <1>6, <1>7, <1>8

\* A shutdown ends processes only.
LEMMA StopWorkerStep ==
    ASSUME Inv, NEW s \in Sup, NEW w \in Role, StopWorker(s, w)
    PROVE  Inv'
<1> USE DEF Inv, LifecycleTypeOK
<1>1. ProcessTypes'
  BY DEF StopWorker, tables, files, operator, marks, EndWorkers, Put, Unfiled,
         Running, ProcessTypes, SupAlive, Alive
<1>2. TableTypes'
  BY DEF StopWorker, tables, files, operator, marks, EndWorkers, Put, Unfiled,
         Running, TableTypes, Alive
<1>3. MarkTypes'
  BY DEF StopWorker, tables, files, operator, marks, EndWorkers, Put, Unfiled,
         Running, MarkTypes, Alive
<1>4. Tracking'
  BY DEF StopWorker, tables, files, operator, marks, EndWorkers, Put, Unfiled,
         Running, Tracking, Alive
<1>5. BossFile'
  BY DEF StopWorker, tables, files, operator, marks, EndWorkers, Put, Unfiled,
         Running, BossFile, ProcessTypes, MarkTypes, Leads, SupAlive, Alive
<1>6. RoleFile'
  BY DEF StopWorker, tables, files, operator, marks, EndWorkers, Put, Unfiled,
         Running, RoleFile, ProcessTypes, MarkTypes, SupAlive, Alive
<1>7. DueReaped'
  BY DEF StopWorker, tables, files, operator, marks, EndWorkers, Put, Unfiled,
         Running, DueReaped, ProcessTypes, TableTypes, SupAlive, Alive
<1>8. PoolCap'
  <2>1. \A x \in Sup : LiveRoles(x)' \subseteq LiveRoles(x)
    BY DEF StopWorker, EndWorkers, Put, ProcessTypes, LiveRoles, Alive
  <2>2. \A x \in Sup : SupAlive(x)' => SupAlive(x)
    BY DEF StopWorker, ProcessTypes, SupAlive
  <2>3. revived' = revived
    BY DEF StopWorker, tables
  <2> QED BY <2>1, <2>2, <2>3, CapKept DEF Counted
<1> QED BY <1>1, <1>2, <1>3, <1>4, <1>5, <1>6, <1>7, <1>8

\* After its shutdown a supervisor that is not lost has no process.
LEMMA EndShutdownStep ==
    ASSUME Inv, NEW s \in Sup, EndShutdown(s)
    PROVE  Inv'
<1> USE DEF Inv, LifecycleTypeOK
<1>1. ProcessTypes'
  BY DEF EndShutdown, operator, marks, Forget, Running, ProcessTypes, SupAlive,
         Alive
<1>2. TableTypes'
  BY DEF EndShutdown, operator, marks, Forget, Running, TableTypes, Alive
<1>3. MarkTypes'
  BY DEF EndShutdown, operator, marks, Forget, Running, MarkTypes, Alive
<1>4. Tracking'
  BY DEF EndShutdown, tables, files, operator, marks, Forget, Running,
         ProcessTypes, TableTypes, MarkTypes, Tracking, SupAlive, Alive
<1>5. BossFile'
  BY DEF EndShutdown, operator, marks, Forget, Running, BossFile, ProcessTypes,
         MarkTypes, Leads, SupAlive, Alive
<1>6. RoleFile'
  BY DEF EndShutdown, operator, marks, Forget, Running, RoleFile, ProcessTypes,
         MarkTypes, SupAlive, Alive
<1>7. DueReaped'
  BY DEF EndShutdown, operator, marks, Forget, Running, DueReaped,
         ProcessTypes, TableTypes, SupAlive, Alive
<1>8. PoolCap'
  <2>1. \A x \in Sup : LiveRoles(x)' = LiveRoles(x)
    BY DEF EndShutdown, LiveRoles, Alive
  <2>2. SupAlive(s)' => LiveRoles(s) = {}
    BY DEF EndShutdown, SupAlive, ProcessTypes, Tracking, LiveRoles, Alive,
           Running
  <2>3. \A x \in Sup \ {s} : SupAlive(x)' => SupAlive(x) /\ revived'[x] = revived[x]
    BY DEF EndShutdown, ProcessTypes, SupAlive, Forget
  <2> QED BY <2>1, <2>2, <2>3, CapKept, NoneCounted DEF Counted
<1> QED BY <1>1, <1>2, <1>3, <1>4, <1>5, <1>6, <1>7, <1>8

\* A killed supervisor is lost.
LEMMA KillStep ==
    ASSUME Inv, NEW s \in Sup, Kill(s)
    PROVE  Inv'
<1> USE DEF Inv, LifecycleTypeOK
<1>1. ProcessTypes'
  BY DEF Kill, operator, marks, EndAbruptly, Forget, ProcessTypes, SupAlive
<1>2. TableTypes'
  BY DEF Kill, operator, marks, EndAbruptly, Forget, TableTypes, SupAlive
<1>3. MarkTypes'
  BY DEF Kill, operator, marks, EndAbruptly, Forget, MarkTypes, SupAlive
<1>4. Tracking'
  BY DEF Kill, tables, files, operator, marks, EndAbruptly, Forget,
         ProcessTypes, TableTypes, MarkTypes, Tracking, SupAlive, Alive
<1>5. BossFile'
  BY DEF Kill, operator, marks, EndAbruptly, Forget, BossFile, ProcessTypes,
         MarkTypes, Leads, SupAlive
<1>6. RoleFile'
  BY DEF Kill, operator, marks, EndAbruptly, Forget, RoleFile, ProcessTypes,
         MarkTypes, SupAlive
<1>7. DueReaped'
  BY DEF Kill, operator, marks, EndAbruptly, Forget, DueReaped, ProcessTypes,
         TableTypes, SupAlive
<1>8. PoolCap'
  BY DEF Kill, operator, marks, EndAbruptly, Forget, PoolCap, ProcessTypes,
         TableTypes, LiveRoles, SupAlive, Alive
<1> QED BY <1>1, <1>2, <1>3, <1>4, <1>5, <1>6, <1>7, <1>8

\* A second process in the check marks a race; a live pid ends the process.
LEMMA WorkerCheckPidStep ==
    ASSUME Inv, NEW s \in Sup, NEW w \in Role, WorkerCheckPid(s, w)
    PROVE  Inv'
<1> USE DEF Inv, LifecycleTypeOK
<1>1. ProcessTypes'
  <2>1. PICK p \in {"none", "passed"} : proc' = Put(proc, s, {w}, p)
    BY DEF WorkerCheckPid
  <2>2. \A v \in Role : pidFile[v] # None => proc'[pidFile[v]][v] = "serving"
    BY <2>1 DEF WorkerCheckPid, Put, ProcessTypes
  <2>3. proc' \in [Sup -> [Role -> ProcPlaces]]
    BY <2>1 DEF Put, ProcessTypes
  <2> QED BY <2>2, <2>3 DEF WorkerCheckPid, ProcessTypes, files, SupAlive
<1>2. TableTypes'
  BY DEF WorkerCheckPid, tables, files, operator, marks, Put, TableTypes
<1>3. MarkTypes'
  BY DEF WorkerCheckPid, tables, files, operator, marks, Put, MarkTypes
<1>4. Tracking'
  <2>1. PICK p \in {"none", "passed"} : proc' = Put(proc, s, {w}, p)
    BY DEF WorkerCheckPid
  <2>2. \A x \in Sup, v \in Role :
           proc'[x][v] = IF x = s /\ v = w THEN p ELSE proc[x][v]
    BY <2>1 DEF Put, ProcessTypes
  <2> QED BY <2>2 DEF WorkerCheckPid, tables, Tracking, Alive
<1>5. BossFile'
  BY DEF WorkerCheckPid, tables, files, operator, marks, Put, BossFile,
         ProcessTypes, MarkTypes, Leads, SupAlive
<1>6. RoleFile'
  <2> SUFFICES ASSUME NEW v \in Role, v \notin raced',
                      NEW x \in Sup
               PROVE  /\ proc'[x][v] = "serving" => pidFile'[v] = x
                      /\ proc'[x][v] = "passed" =>
                            /\ pidFile'[v] = None
                            /\ \A y \in Sup \ {x} : proc'[y][v] # "passed"
    BY Zenon DEF RoleFile
  <2>1. v \notin raced /\ pidFile' = pidFile
    BY DEF WorkerCheckPid, files
  <2>2. CASE pidFile[w] # None
    <3>1. \A y \in Sup, u \in Role :
             proc'[y][u] = IF y = s /\ u = w THEN "none" ELSE proc[y][u]
      BY <2>2 DEF WorkerCheckPid, Put, ProcessTypes
    <3> QED BY <2>1, <3>1 DEF RoleFile
  <2>3. CASE pidFile[w] = None
    <3>1. \A y \in Sup, u \in Role :
             proc'[y][u] = IF y = s /\ u = w THEN "passed" ELSE proc[y][u]
      BY <2>3 DEF WorkerCheckPid, Put, ProcessTypes
    <3>2. v = w => \A y \in Sup \ {s} : proc[y][w] # "passed"
      BY <2>3 DEF WorkerCheckPid
    <3> QED BY <2>1, <2>3, <3>1, <3>2 DEF RoleFile
  <2> QED BY <2>2, <2>3
<1>7. DueReaped'
  BY DEF WorkerCheckPid, tables, files, operator, marks, Put, DueReaped,
         ProcessTypes, TableTypes, SupAlive
<1>8. PoolCap'
  <2>1. \A x \in Sup : LiveRoles(x)' \subseteq LiveRoles(x)
    BY DEF WorkerCheckPid, Put, ProcessTypes, LiveRoles, Alive
  <2>2. \A x \in Sup : SupAlive(x)' => SupAlive(x)
    BY DEF WorkerCheckPid, ProcessTypes, SupAlive
  <2>3. revived' = revived
    BY DEF WorkerCheckPid, tables
  <2> QED BY <2>1, <2>2, <2>3, CapKept DEF Counted
<1> QED BY <1>1, <1>2, <1>3, <1>4, <1>5, <1>6, <1>7, <1>8

\* Without a race nobody serves the role when its file is written.
LEMMA WorkerWritePidStep ==
    ASSUME Inv, NEW s \in Sup, NEW w \in Role, WorkerWritePid(s, w)
    PROVE  Inv'
<1> USE DEF Inv, LifecycleTypeOK
<1>1. ProcessTypes'
  BY DEF WorkerWritePid, tables, files, operator, marks, Put, ProcessTypes,
         SupAlive
<1>2. TableTypes'
  BY DEF WorkerWritePid, tables, files, operator, marks, Put, TableTypes
<1>3. MarkTypes'
  BY DEF WorkerWritePid, tables, files, operator, marks, Put, MarkTypes
<1>4. Tracking'
  BY DEF WorkerWritePid, tables, files, operator, marks, Put, Tracking, Alive
<1>5. BossFile'
  BY DEF WorkerWritePid, tables, files, operator, marks, Put, BossFile,
         ProcessTypes, MarkTypes, Leads, SupAlive
<1>6. RoleFile'
  BY DEF WorkerWritePid, tables, files, operator, marks, Put, RoleFile,
         ProcessTypes, MarkTypes, SupAlive
<1>7. DueReaped'
  BY DEF WorkerWritePid, tables, files, operator, marks, Put, DueReaped,
         ProcessTypes, TableTypes, SupAlive
<1>8. PoolCap'
  <2>1. \A x \in Sup : LiveRoles(x)' \subseteq LiveRoles(x)
    BY DEF WorkerWritePid, Put, ProcessTypes, LiveRoles, Alive
  <2>2. \A x \in Sup : SupAlive(x)' => SupAlive(x)
    BY DEF WorkerWritePid, ProcessTypes, SupAlive
  <2>3. revived' = revived
    BY DEF WorkerWritePid, tables
  <2> QED BY <2>1, <2>2, <2>3, CapKept DEF Counted
<1> QED BY <1>1, <1>2, <1>3, <1>4, <1>5, <1>6, <1>7, <1>8

\* A process that ends gives its file up.
LEMMA CrashStep ==
    ASSUME Inv, NEW s \in Sup, NEW w \in Role, Crash(s, w)
    PROVE  Inv'
<1> USE DEF Inv, LifecycleTypeOK
<1>1. ProcessTypes'
  BY DEF Crash, tables, files, operator, marks, EndWorkers, Put, Unfiled,
         ProcessTypes, SupAlive, Alive
<1>2. TableTypes'
  BY DEF Crash, tables, files, operator, marks, EndWorkers, Put, Unfiled,
         TableTypes, Alive
<1>3. MarkTypes'
  BY DEF Crash, tables, files, operator, marks, EndWorkers, Put, Unfiled,
         MarkTypes, Alive
<1>4. Tracking'
  BY DEF Crash, tables, files, operator, marks, EndWorkers, Put, Unfiled,
         Tracking, Alive
<1>5. BossFile'
  BY DEF Crash, tables, files, operator, marks, EndWorkers, Put, Unfiled,
         BossFile, ProcessTypes, MarkTypes, Leads, SupAlive, Alive
<1>6. RoleFile'
  BY DEF Crash, tables, files, operator, marks, EndWorkers, Put, Unfiled,
         RoleFile, ProcessTypes, MarkTypes, SupAlive, Alive
<1>7. DueReaped'
  BY DEF Crash, tables, files, operator, marks, EndWorkers, Put, Unfiled,
         DueReaped, ProcessTypes, TableTypes, SupAlive, Alive
<1>8. PoolCap'
  <2>1. \A x \in Sup : LiveRoles(x)' \subseteq LiveRoles(x)
    BY DEF Crash, EndWorkers, Put, ProcessTypes, LiveRoles, Alive
  <2>2. \A x \in Sup : SupAlive(x)' => SupAlive(x)
    BY DEF Crash, ProcessTypes, SupAlive
  <2>3. revived' = revived
    BY DEF Crash, tables
  <2> QED BY <2>1, <2>2, <2>3, CapKept DEF Counted
<1> QED BY <1>1, <1>2, <1>3, <1>4, <1>5, <1>6, <1>7, <1>8

\* The flag file is read by the main loop alone.
LEMMA RequestRestartStep ==
    ASSUME Inv, RequestRestart
    PROVE  Inv'
<1> USE DEF Inv, LifecycleTypeOK
<1>1. ProcessTypes'
  BY DEF RequestRestart, tables, files, operator, marks, ProcessTypes, SupAlive
<1>2. TableTypes'
  BY DEF RequestRestart, tables, files, operator, marks, TableTypes, SupAlive
<1>3. MarkTypes'
  BY DEF RequestRestart, tables, files, operator, marks, MarkTypes, SupAlive
<1>4. Tracking'
  BY DEF RequestRestart, tables, files, operator, marks, Tracking, SupAlive,
         Alive
<1>5. BossFile'
  BY DEF RequestRestart, tables, files, operator, marks, BossFile,
         ProcessTypes, MarkTypes, Leads, SupAlive
<1>6. RoleFile'
  BY DEF RequestRestart, tables, files, operator, marks, RoleFile,
         ProcessTypes, MarkTypes, SupAlive
<1>7. DueReaped'
  BY DEF RequestRestart, tables, files, operator, marks, DueReaped,
         ProcessTypes, TableTypes, SupAlive
<1>8. PoolCap'
  BY DEF RequestRestart, tables, files, operator, marks, PoolCap, ProcessTypes,
         TableTypes, LiveRoles, SupAlive, Alive
<1> QED BY <1>1, <1>2, <1>3, <1>4, <1>5, <1>6, <1>7, <1>8

\* A fleet restart is a signal to everybody and a launch.
LEMMA FleetRestartStep ==
    ASSUME Inv, NEW s \in Sup, FleetRestart(s)
    PROVE  Inv'
<1> USE DEF Inv, LifecycleTypeOK
<1>1. ProcessTypes'
  BY DEF FleetRestart, operator, marks, EndAbruptly, Forget, Terminated,
         Handled, Unhandled, ProcessTypes, SupAlive
<1>2. TableTypes'
  BY DEF FleetRestart, operator, marks, EndAbruptly, Forget, Terminated,
         Handled, Unhandled, TableTypes
<1>3. MarkTypes'
  BY DEF FleetRestart, operator, marks, EndAbruptly, Forget, Terminated,
         Handled, Unhandled, MarkTypes
<1>4. Tracking'
  BY DEF FleetRestart, operator, marks, EndAbruptly, Forget, Terminated,
         Handled, Unhandled, Tracking, Alive
<1>5. BossFile'
  BY DEF FleetRestart, operator, marks, EndAbruptly, Forget, Terminated,
         Handled, Unhandled, BossFile, ProcessTypes, MarkTypes, Leads, SupAlive
<1>6. RoleFile'
  BY DEF FleetRestart, operator, marks, EndAbruptly, Forget, Terminated,
         Handled, Unhandled, RoleFile, ProcessTypes, MarkTypes, SupAlive
<1>7. DueReaped'
  BY DEF FleetRestart, operator, marks, EndAbruptly, Forget, Terminated,
         Handled, Unhandled, DueReaped, ProcessTypes, TableTypes, SupAlive
<1>8. PoolCap'
  <2>1. \A x \in Sup : LiveRoles(x)' = LiveRoles(x)
    BY DEF FleetRestart, LiveRoles, Alive
  <2>2. LiveRoles(s) = {}
    BY DEF FleetRestart, Tracking, LiveRoles, Alive
  <2>3. \A x \in Sup \ {s} : SupAlive(x)' => SupAlive(x) /\ revived'[x] = revived[x]
    BY DEF FleetRestart, ProcessTypes, SupAlive, Terminated, Handled,
           Unhandled,
           EndAbruptly, Forget
  <2> QED BY <2>1, <2>2, <2>3, CapKept, NoneCounted DEF Counted
<1> QED BY <1>1, <1>2, <1>3, <1>4, <1>5, <1>6, <1>7, <1>8

\* The configuration file is read at boot and by new workers.
LEMMA SwitchAgentStep ==
    ASSUME Inv, NEW w \in Role, SwitchAgent(w)
    PROVE  Inv'
<1> USE DEF Inv, LifecycleTypeOK
<1>1. ProcessTypes'
  BY DEF SwitchAgent, tables, files, operator, marks, ProcessTypes, SupAlive
<1>2. TableTypes'
  BY DEF SwitchAgent, tables, files, operator, marks, TableTypes
<1>3. MarkTypes'
  BY DEF SwitchAgent, tables, files, operator, marks, MarkTypes
<1>4. Tracking'
  BY DEF SwitchAgent, tables, files, operator, marks, Tracking, Alive
<1>5. BossFile'
  BY DEF SwitchAgent, tables, files, operator, marks, BossFile, ProcessTypes,
         MarkTypes, Leads, SupAlive
<1>6. RoleFile'
  BY DEF SwitchAgent, tables, files, operator, marks, RoleFile, ProcessTypes,
         MarkTypes, SupAlive
<1>7. DueReaped'
  BY DEF SwitchAgent, tables, files, operator, marks, DueReaped, ProcessTypes,
         TableTypes, SupAlive
<1>8. PoolCap'
  BY DEF SwitchAgent, tables, files, operator, marks, PoolCap, ProcessTypes,
         TableTypes, LiveRoles, SupAlive, Alive
<1> QED BY <1>1, <1>2, <1>3, <1>4, <1>5, <1>6, <1>7, <1>8
-----------------------------------------------------------------------------
\* The invariant holds at first.
LEMMA InitInv == Init => Inv
<1> SUFFICES ASSUME Init PROVE Inv
  OBVIOUS
<1>1. LifecycleTypeOK
  BY DEF Init, LifecycleTypeOK, ProcessTypes, TableTypes, MarkTypes
<1>2. Tracking /\ BossFile /\ RoleFile /\ DueReaped
  BY DEF Init, Tracking, BossFile, RoleFile, DueReaped, Leads, Alive
<1>3. PoolCap
  BY DEF Init, PoolCap, SupAlive
<1> QED BY <1>1, <1>2, <1>3 DEF Inv

\* Every step keeps it.
LEMMA StepInv == Inv /\ [Next]_vars => Inv'
<1> SUFFICES ASSUME Inv, [Next]_vars PROVE Inv'
  OBVIOUS
<1>1. ASSUME NEW s \in Sup, BootStep(s) PROVE Inv'
  BY <1>1, CheckPidStep, WritePidStep, BootDoneStep, BootWorkerStep
     DEF BootStep
<1>2. ASSUME NEW s \in Sup, Tick(s) PROVE Inv'
  BY <1>2, CheckAliveStep, CheckScalingStep, MemoryWatchdogStep,
     SweepSupervisorStep, SeeFlagStep DEF Tick
<1>3. ASSUME NEW s \in Sup, EndStep(s) PROVE Inv'
  BY <1>3, SignalStep, KillStep, EndShutdownStep, CutStartStep, StopWorkerStep
     DEF EndStep
<1>4. ASSUME NEW s \in Sup, NEW w \in Role, WorkerStep(s, w) PROVE Inv'
  BY <1>4, WorkerCheckPidStep, WorkerWritePidStep, CrashStep DEF WorkerStep
<1>5. CASE OperatorStep
  BY <1>5, LaunchStep, FleetRestartStep, RequestRestartStep, SwitchAgentStep
     DEF OperatorStep
<1>6. CASE UNCHANGED vars
  BY <1>6 DEF vars, Inv, LifecycleTypeOK, ProcessTypes, TableTypes, MarkTypes,
     Tracking, BossFile, RoleFile, DueReaped, PoolCap, SupAlive, Alive, Leads,
     LiveRoles
<1> QED BY <1>1, <1>2, <1>3, <1>4, <1>5, <1>6 DEF Next

\* Every reachable state satisfies it.
LEMMA Invariant == Spec => []Inv
BY InitInv, StepInv, PTL DEF Spec

\* The types of the variables, and that a pid file holds a process that lives
\* and has the role.
THEOREM LifecycleTypeCorrect == Spec => []LifecycleTypeOK
<1>1. Inv => LifecycleTypeOK
  BY DEF Inv
<1> QED BY <1>1, Invariant, PTL

\* acquire_pid: two supervisors lead only after both were between its check and
\* its write at once.
THEOREM SupervisorsRaceOnly == Spec => []OneSupervisor
<1>1. Inv => OneSupervisor
  BY DEF Inv, BossFile, OneSupervisor
<1> QED BY <1>1, Invariant, PTL

\* acquire_worker_pid: the same of the processes of one role, whichever
\* supervisors have started them and whether these still live.
THEOREM ServersRaceOnly == Spec => []OneServerPerRole
<1>1. Inv => OneServerPerRole
  BY DEF Inv, RoleFile, OneServerPerRole
<1> QED BY <1>1, Invariant, PTL

\* shutdown_all leaves nothing behind that the manager has started, unless the
\* supervisor ended without it or was cut off between a Popen and its record.
THEOREM ShutdownIsComplete == Spec => []NoOrphans
<1>1. Inv => NoOrphans
  BY DEF Inv, Tracking, NoOrphans, LiveRoles
<1> QED BY <1>1, Invariant, PTL

\* max_workers bounds the workers of a supervisor, those that check_alive has
\* brought back aside.
THEOREM PoolWithinCap == Spec => []PoolCap
<1>1. Inv => PoolCap
  BY DEF Inv
<1> QED BY <1>1, Invariant, PTL

\* A role out of the manager's table is due for a respawn only by a schedule
\* that an overlapping start has left behind.
THEOREM StoppedByScaler == Spec => []StoppedStaysStopped
<1>1. Inv => StoppedStaysStopped
  BY DEF Inv, DueReaped, StoppedStaysStopped
<1> QED BY <1>1, Invariant, PTL

\* Every process that a supervisor has, as long as none of its ends has begun, is
\* in its tables: after an execv there is none left, and no tick loses one.
KnowsItsProcesses ==
    \A s \in Sup : sup[s] \in {"boot", "passed", "booting", "up"} =>
        \A w \in Role : Alive(s, w) => handle[s][w] = "proc"

\* All that starts a process asks for a handle that holds none: no start ever
\* takes the place of a live process, which nobody would stop any more.
THEOREM NoneForgotten == Spec => []KnowsItsProcesses
<1>1. Inv => KnowsItsProcesses
  BY DEF Inv, Tracking, KnowsItsProcesses
<1> QED BY <1>1, Invariant, PTL

\* Without a kill, a signal and the restart that signals every process, no
\* supervisor ends but by its shutdown, and none leaves a worker behind.
THEOREM ShutdownLeavesNone ==
    ASSUME {"kill", "signal", "restart"} \cap Env = {}
    PROVE  Spec => [](\A s \in Sup : sup[s] = "gone" => LiveRoles(s) = {})
<1> DEFINE NoneLost == lost = {}
<1>1. Init => NoneLost
  BY DEF Init
<1>2. Inv /\ NoneLost /\ [Next]_vars => NoneLost'
  <2> SUFFICES ASSUME Inv, lost = {}, [Next]_vars PROVE lost' = {}
    OBVIOUS
  <2>1. ASSUME NEW s \in Sup, BootStep(s) PROVE lost' = {}
    BY <2>1 DEF BootStep, CheckPid, WritePid, BootDone, BootWorker, marks
  <2>2. ASSUME NEW s \in Sup, Tick(s) PROVE lost' = {}
    BY <2>2 DEF Tick, CheckAlive, CheckScaling, MemoryWatchdog,
                SweepSupervisor, SeeFlag, marks
  <2>3. ASSUME NEW s \in Sup, EndStep(s) PROVE lost' = {}
    BY <2>3 DEF EndStep, Signal, Kill, CutStart, EndShutdown, StopWorker, marks
  <2>4. ASSUME NEW s \in Sup, NEW w \in Role, WorkerStep(s, w) PROVE lost' = {}
    BY <2>4 DEF WorkerStep, WorkerCheckPid, WorkerWritePid, Crash, marks
  <2>5. CASE OperatorStep
    BY <2>5 DEF OperatorStep, Launch, FleetRestart, RequestRestart,
                SwitchAgent, marks
  <2>6. CASE UNCHANGED vars
    BY <2>6 DEF vars
  <2> QED BY <2>1, <2>2, <2>3, <2>4, <2>5, <2>6 DEF Next
<1>3. NoOrphans /\ NoneLost =>
        \A s \in Sup : sup[s] = "gone" => LiveRoles(s) = {}
  BY DEF NoOrphans
<1> HIDE DEF NoneLost
<1> QED BY <1>1, <1>2, <1>3, Invariant, ShutdownIsComplete, PTL DEF Spec
=============================================================================
