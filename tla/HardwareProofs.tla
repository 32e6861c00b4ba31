--------------------------- MODULE HardwareProofs ---------------------------
(***************************************************************************)
(* Safety of the GPU's management, for every order of tiers, every set of  *)
(* installed models, every set of workers, every window and all Scenes.    *)
(* One inductive invariant, whose parts are named below; one lemma per     *)
(* action, with one step per part.                                         *)
(***************************************************************************)
EXTENDS Hardware, TLAPS

USE DEF DersPlaces, WorkerPlaces

\* What the supervisor remembers of an eviction: it lives and dies with it,
\* between a stop and a start it has no process, and without a known training
\* it has moved nothing.
Bookkeeping ==
    /\ OwnOllamaMode
    /\ ~up => handle = "none" /\ ~cpuOnly /\ supAt = "loop"
    /\ supAt # "loop" => handle = "none"
    /\ supAt = "evict" => knows
    /\ supAt = "loop" /\ ~knows => ~cpuOnly

\* A transition leads to no larger model, or is one of those that may; on a
\* throttled GPU it leads to the smallest.
PlanKept ==
    Swapping =>
        /\ \/ plan.blind
           \/ plan.from \notin Tier
           \/ plan.from <= plan.to
           \/ plan.to = Smallest /\ plan.from \notin Installed
        /\ throttled => plan.to = Smallest

\* The window is never older than the last reading above the target.
WindowKept == since <= calm

\* A transition is announced, unless a vision task wrote over the announcement.
Announced == Swapping => file.moving \/ clobbered

Inv ==
    /\ HardwareTypeOK
    /\ Bookkeeping
    /\ PlanKept
    /\ WindowKept
    /\ Announced

-----------------------------------------------------------------------------
\* The tiers.

\* What of the constants the steps rest on.
LEMMA Constants ==
    /\ Window \in Nat \ {0}
    /\ Low \in Tier /\ Crit \in Tier /\ Baseline \subseteq Nat
    /\ Crit \in Model /\ Vision \in Model
    /\ Tier \subseteq Baseline /\ Baseline \subseteq Model
    /\ Installed \subseteq Tier
    /\ NoPlan \in Plans
<1>1. /\ Window \in Nat \ {0}
      /\ Installed \subseteq Tier
  BY HardwareAssumption
<1>2. Low \in Tier /\ Crit \in Tier
  BY DEF Tier, Low, Crit
<1>3. Baseline \subseteq Nat
  <2>1. Tier \subseteq Nat
    BY HardwareAssumption DEF Tier
  <2>2. Other \subseteq Nat
    BY HardwareAssumption
  <2> QED BY <2>1, <2>2 DEF Baseline
<1>4. Tier \subseteq Baseline /\ Baseline \subseteq Model /\ Vision \in Model
  BY DEF Baseline, Model
<1>5. NoPlan \in Plans
  BY <1>2, <1>4 DEF NoPlan, Plans
<1> QED BY <1>1, <1>2, <1>3, <1>4, <1>5

\* There is a smallest installed model: the last tier that is installed.
LEMMA SmallestIsInstalled ==
    Smallest \in Installed /\ \A u \in Installed : u <= Smallest
<1> USE HardwareAssumption DEF Tier
<1>1. \E t \in Installed : \A u \in Installed : u <= t
  <2>1. CASE Order[4] \in Installed
    BY <2>1
  <2>2. CASE Order[4] \notin Installed /\ Order[3] \in Installed
    BY <2>2
  <2>3. CASE /\ Order[4] \notin Installed /\ Order[3] \notin Installed
             /\ Order[2] \in Installed
    BY <2>3
  <2>4. CASE /\ Order[4] \notin Installed /\ Order[3] \notin Installed
             /\ Order[2] \notin Installed
    <3>1. Installed = {Order[1]}
      BY <2>4
    <3> QED BY <3>1
  <2> QED BY <2>1, <2>2, <2>3, <2>4
<1> QED BY <1>1 DEF Smallest

\* The step down ends at the model it began at or at an installed one, and from
\* a tier it is no step up.
LEMMA NextTierIsLower ==
    ASSUME conf \in Baseline
    PROVE  /\ NextTier \in Installed \cup {conf}
           /\ conf \in Tier => conf <= NextTier
<1> USE HardwareAssumption
<1>1. CASE Lower = {}
  <2>1. NextTier = conf
    BY <1>1 DEF NextTier
  <2>2. conf \in Nat
    BY Constants
  <2> QED BY <2>1, <2>2
<1>2. CASE Lower # {}
  <2>1. Lower \subseteq 1..4
    BY DEF Lower
  <2>2. \E j \in Lower : \A k \in Lower : j <= k
    <3>1. CASE 1 \in Lower
      BY <2>1, <3>1
    <3>2. CASE 1 \notin Lower /\ 2 \in Lower
      BY <2>1, <3>2
    <3>3. CASE 1 \notin Lower /\ 2 \notin Lower /\ 3 \in Lower
      BY <2>1, <3>3
    <3>4. CASE 1 \notin Lower /\ 2 \notin Lower /\ 3 \notin Lower
      <4>1. \A k \in Lower : k = 4
        BY <2>1, <3>4
      <4> QED BY <1>2, <4>1
    <3> QED BY <3>1, <3>2, <3>3, <3>4
  <2> DEFINE j == CHOOSE j \in Lower : \A k \in Lower : j <= k
  <2>3. j \in Lower
    BY <2>2
  <2>4. NextTier = Order[j]
    BY <1>2 DEF NextTier
  <2> HIDE DEF j
  <2>5. j \in 1..4 /\ Order[j] \in Installed
    BY <2>3 DEF Lower
  <2>6. ASSUME conf \in Tier PROVE conf <= Order[j]
    <3>1. PICK i \in 1..4 : Order[i] = conf /\ i < j
      BY <2>3, <2>6 DEF Lower, Above
    <3> QED BY <2>5, <3>1
  <2> QED BY <2>4, <2>5, <2>6
<1> QED BY <1>1, <1>2

\* Nor is the tier for a training.
LEMMA TrainingTierIsLower ==
    ASSUME conf \in Baseline
    PROVE  /\ TrainingTier \in Tier \cup {conf}
           /\ conf \in Tier => conf <= TrainingTier
<1>1. conf \in {Low, Crit} => TrainingTier = conf
  BY DEF TrainingTier
<1>2. conf \notin {Low, Crit} => TrainingTier \in {Low, Crit, conf}
  BY DEF TrainingTier
<1>3. conf \in Tier \ {Low, Crit} => conf <= Low /\ conf <= Crit
  BY HardwareAssumption DEF Tier, Low, Crit
<1>4. conf \in Nat /\ Low \in Tier /\ Crit \in Tier
  BY Constants
<1> QED BY <1>1, <1>2, <1>3, <1>4

\* What a poll may choose.
LEMMA GoalsAreTiers ==
    ASSUME conf \in Baseline, NEW pressure \in {"low", "high", "emergency"},
           NEW none \in BOOLEAN, throttled \in BOOLEAN, was \in BOOLEAN,
           evicted \in BOOLEAN, NEW goal \in Goals(pressure, none)
    PROVE  /\ goal \in Tier \cup {conf}
           /\ \/ none
              \/ conf \notin Tier
              \/ conf <= goal
              \/ goal = Smallest /\ conf \notin Installed
           /\ throttled => goal = Smallest
<1> USE Constants, SmallestIsInstalled, NextTierIsLower, TrainingTierIsLower DEF Goals
<1>1. CASE throttled
  BY <1>1
<1>2. CASE ~throttled /\ was /\ evicted
  BY <1>2
<1>3. CASE ~throttled /\ ~(was /\ evicted) /\ none
  BY <1>3
<1>4. CASE ~throttled /\ ~(was /\ evicted) /\ ~none
  BY <1>4
<1> QED BY <1>1, <1>2, <1>3, <1>4

-----------------------------------------------------------------------------
\* The steps.

\* What stop_ollama leaves behind.
LEMMA StopEnds ==
    ASSUME HardwareTypeOK, StopOllama
    PROVE  /\ handle' = "none"
           /\ mode' \in {"off", "gpu", "cpu"}
           /\ loaded' \subseteq Model
           /\ mode' = "off" => loaded' = {}
<1> USE DEF HardwareTypeOK, PlantTypes
<1>1. handle' = "none"
  BY DEF StopOllama
<1>2. CASE handle = "live"
  BY <1>1, <1>2 DEF StopOllama
<1>3. CASE handle = "none"
  BY <1>1, <1>3 DEF StopOllama, Unloads
<1>4. CASE handle = "dead"
  BY <1>1, <1>4 DEF StopOllama
<1> QED BY <1>2, <1>3, <1>4

\* The same with an eviction before it.
LEMMA EvictEnds ==
    ASSUME HardwareTypeOK, EvictOllama
    PROVE  /\ handle' = "none"
           /\ mode' \in {"off", "gpu", "cpu"}
           /\ loaded' \subseteq Model
           /\ mode' = "off" => loaded' = {}
<1>1. CASE handle = "dead"
  BY <1>1 DEF EvictOllama, Unloads, HardwareTypeOK, PlantTypes
<1>2. CASE handle # "dead"
  BY <1>2, StopEnds DEF EvictOllama
<1> QED BY <1>1, <1>2

\* What start_ollama brings.
LEMMA StartBrings ==
    ASSUME HardwareTypeOK, NEW m \in {"gpu", "cpu"}, StartOllama(m)
    PROVE  /\ mode' \in {"off", "gpu", "cpu"}
           /\ loaded' \subseteq Model
           /\ mode' = "off" => loaded' = {}
           /\ \/ handle' = "live" /\ mode' = m
              \/ handle' = handle /\ mode' = mode
           /\ handle' \in {"none", "live", "dead"}
BY DEF HardwareTypeOK, PlantTypes, StartOllama, ollama

\* A poll's readings.
LEMMA SenseStep ==
    ASSUME Inv, NEW pings \in BOOLEAN, Sense(pings)
    PROVE  Inv'
<1> USE Constants DEF Inv, HardwareTypeOK
<1>1. PlantTypes'
  <2>1. loaded' \subseteq Model /\ (mode = "off" => loaded' = {})
    <3>1. \/ loaded' = loaded
          \/ mode # "off" /\ loaded' = loaded \cup {conf}
      <4>1. Loads(conf) \/ loaded' = loaded
        BY Zenon DEF Sense
      <4> QED BY <4>1 DEF Loads
    <3> QED BY <3>1 DEF PlantTypes
  <2> QED BY <2>1 DEF Sense, trainer, PlantTypes
<1>2. SupervisorTypes'
  BY DEF Sense, supervisor, SupervisorTypes
<1>3. DersTypes'
  <2>1. was' \in BOOLEAN /\ evicted' \in BOOLEAN /\ evicting' \in BOOLEAN
    <3>1. Training \in BOOLEAN
      BY DEF Training, PlantTypes
    <3> QED BY <3>1 DEF Sense, SenseTraining, DersTypes
  <2>2. /\ throttled' \in BOOLEAN
        /\ since' \in 0..Window
        /\ calm' \in 0..Window
    <3>1. CASE Burst
      BY <3>1 DEF Burst
    <3>2. CASE Warm
      BY <3>2 DEF Warm, DersTypes
    <3>3. CASE Cool
      <4>1. /\ throttled' \in BOOLEAN
            /\ since' = 0 \/ (~(since >= Window) /\ since' = since + 1)
        BY <3>3 DEF Cool, DersTypes
      <4>2. calm' \in {0, Later(calm)}
        BY <3>3 DEF Cool
      <4>3. Later(calm) \in 0..Window
        BY DEF Later, DersTypes
      <4> QED BY <4>1, <4>2, <4>3 DEF DersTypes
    <3> QED BY <3>1, <3>2, <3>3 DEF Sense
  <2> QED BY <2>1, <2>2 DEF Sense, DersTypes
<1>4. FileTypes'
  BY DEF Sense, workers, SenseTraining, Loads, Burst, Warm, Cool, Later,
         Moving, FileTypes, Files, Ready
<1>5. Bookkeeping'
  BY DEF Sense, supervisor, Bookkeeping, OwnOllamaMode
<1>6. PlanKept'
  BY DEF Sense, SenseTraining, Loads, Burst, Warm, Cool, Later, Moving,
         PlanKept, Swapping, DersTypes
<1>7. WindowKept'
  BY DEF Sense, SenseTraining, Loads, Burst, Warm, Cool, Later, Moving,
         WindowKept, DersTypes
<1>8. Announced'
  BY DEF Sense, SenseTraining, Loads, Burst, Warm, Cool, Later, Moving,
         Announced, Swapping, DersTypes, FileTypes
<1> QED BY <1>1, <1>2, <1>3, <1>4, <1>5, <1>6, <1>7, <1>8

\* A poll without a reading of the GPU.
LEMMA UnreadStep ==
    ASSUME Inv, Unread
    PROVE  Inv'
<1> USE Constants DEF Inv, HardwareTypeOK
<1>1. PlantTypes'
  BY DEF Unread, ollama, trainer, PlantTypes
<1>2. SupervisorTypes'
  BY DEF Unread, supervisor, SupervisorTypes
<1>3. DersTypes'
  BY DEF Unread, Later, DersTypes
<1>4. FileTypes'
  BY DEF Unread, workers, FileTypes, Files, Ready, Moving
<1>5. Bookkeeping'
  BY DEF Unread, ollama, supervisor, Bookkeeping, OwnOllamaMode
<1>6. PlanKept'
  BY DEF Unread, PlanKept, Swapping
<1>7. WindowKept'
  BY DEF Unread, Later, WindowKept, DersTypes
<1>8. Announced'
  BY DEF Unread, Announced, Swapping
<1> QED BY <1>1, <1>2, <1>3, <1>4, <1>5, <1>6, <1>7, <1>8

\* The eviction thread.
LEMMA EvictStep ==
    ASSUME Inv, Evict
    PROVE  Inv'
<1> USE Constants DEF Inv, HardwareTypeOK
<1>1. PlantTypes'
  BY DEF Evict, trainer, Unloads, PlantTypes
<1>2. SupervisorTypes'
  BY DEF Evict, supervisor, SupervisorTypes
<1>3. DersTypes'
  BY DEF Evict, Unloads, DersTypes
<1>4. FileTypes'
  BY DEF Evict, workers, FileTypes, Files, Ready, Moving
<1>5. Bookkeeping'
  BY DEF Evict, supervisor, Bookkeeping, OwnOllamaMode
<1>6. PlanKept'
  BY DEF Evict, PlanKept, Swapping
<1>7. WindowKept'
  BY DEF Evict, WindowKept
<1>8. Announced'
  BY DEF Evict, Announced, Swapping
<1> QED BY <1>1, <1>2, <1>3, <1>4, <1>5, <1>6, <1>7, <1>8

\* The choice of a model.
LEMMA DecideStep ==
    ASSUME Inv, Decide
    PROVE  Inv'
<1> USE Constants DEF Inv, HardwareTypeOK
<1>1. PlantTypes'
  BY DEF Decide, ollama, trainer, PlantTypes
<1>2. SupervisorTypes'
  BY DEF Decide, supervisor, SupervisorTypes
<1>3. DersTypes'
  <2>1. PICK pressure \in Pressures, failed \in BOOLEAN :
            LET none == failed \/ loaded = {}
            IN  \E goal \in Goals(pressure, none) :
                   \/ ders' \in {"park", "poll"} /\ plan' = plan
                   \/ /\ goal # conf
                      /\ ders' = "grace"
                      /\ plan' = [from |-> conf, to |-> goal, blind |-> none]
    BY Zenon DEF Decide
  <2> DEFINE none == failed \/ loaded = {}
  <2>2. none \in BOOLEAN /\ pressure \in {"low", "high", "emergency"}
    BY DEF Pressures
  <2>3. \A goal \in Goals(pressure, none) : goal # conf => goal \in Tier
    BY <2>2, GoalsAreTiers DEF PlantTypes, DersTypes
  <2>4. PICK goal \in Goals(pressure, none) :
            \/ ders' \in {"park", "poll"} /\ plan' = plan
            \/ /\ goal # conf
               /\ ders' = "grace"
               /\ plan' = [from |-> conf, to |-> goal, blind |-> none]
    BY <2>1
  <2>5. goal # conf => goal \in Tier
    BY <2>3
  <2> HIDE DEF none
  <2>6. plan' \in Plans /\ ders' \in DersPlaces
    BY <2>2, <2>4, <2>5 DEF Plans, PlantTypes, DersTypes
  <2> QED BY <2>6 DEF Decide, poll, DersTypes
<1>4. FileTypes'
  <2>1. file' \in {file, Moving} /\ clobbered' \in {clobbered, FALSE}
    BY Zenon DEF Decide
  <2>2. Moving \in Files
    BY DEF Moving, Files
  <2> QED BY <2>1, <2>2 DEF Decide, workers, FileTypes
<1>5. Bookkeeping'
  BY DEF Decide, ollama, supervisor, Bookkeeping, OwnOllamaMode
<1>6. PlanKept'
  <2> SUFFICES ASSUME ders' \in {"grace", "load"}
               PROVE  /\ \/ plan'.blind
                         \/ plan'.from \notin Tier
                         \/ plan'.from <= plan'.to
                         \/ plan'.to = Smallest /\ plan'.from \notin Installed
                      /\ throttled' => plan'.to = Smallest
    BY DEF PlanKept, Swapping
  <2>1. PICK pressure \in Pressures, failed \in BOOLEAN :
            LET none == failed \/ loaded = {}
            IN  \E goal \in Goals(pressure, none) :
                   \/ ders' \in {"park", "poll"}
                   \/ plan' = [from |-> conf, to |-> goal, blind |-> none]
    BY Zenon DEF Decide
  <2> DEFINE none == failed \/ loaded = {}
  <2>2. none \in BOOLEAN /\ pressure \in {"low", "high", "emergency"}
    BY DEF Pressures
  <2>3. PICK goal \in Goals(pressure, none) :
            plan' = [from |-> conf, to |-> goal, blind |-> none]
    BY <2>1
  <2>4. /\ \/ none
           \/ conf \notin Tier
           \/ conf <= goal
           \/ goal = Smallest /\ conf \notin Installed
        /\ throttled => goal = Smallest
    BY <2>2, GoalsAreTiers DEF PlantTypes, DersTypes
  <2>5. throttled' = throttled
    BY DEF Decide, poll
  <2> HIDE DEF none
  <2> QED BY <2>3, <2>4, <2>5
<1>7. WindowKept'
  BY DEF Decide, poll, WindowKept
<1>8. Announced'
  BY DEF Decide, Moving, Plans, Pressures, Announced, Swapping, DersTypes,
         FileTypes
<1> QED BY <1>1, <1>2, <1>3, <1>4, <1>5, <1>6, <1>7, <1>8

\* The old model goes.
LEMMA SwapStep ==
    ASSUME Inv, Swap
    PROVE  Inv'
<1> USE Constants DEF Inv, HardwareTypeOK
<1>1. PlantTypes'
  <2>1. conf' \in Baseline
    BY DEF Swap, DersTypes, Plans
  <2>2. loaded' \subseteq Model /\ (mode = "off" => loaded' = {})
    BY DEF Swap, Unloads, PlantTypes
  <2> QED BY <2>1, <2>2 DEF Swap, trainer, PlantTypes
<1>2. SupervisorTypes'
  BY DEF Swap, supervisor, SupervisorTypes
<1>3. DersTypes'
  BY DEF Swap, poll, Unloads, DersTypes
<1>4. FileTypes'
  BY DEF Swap, workers, FileTypes, Files, Ready, Moving
<1>5. Bookkeeping'
  BY DEF Swap, supervisor, Bookkeeping, OwnOllamaMode
<1>6. PlanKept'
  BY DEF Swap, poll, Unloads, PlanKept, Swapping, DersTypes
<1>7. WindowKept'
  BY DEF Swap, poll, WindowKept
<1>8. Announced'
  BY DEF Swap, Unloads, Announced, Swapping, DersTypes, FileTypes
<1> QED BY <1>1, <1>2, <1>3, <1>4, <1>5, <1>6, <1>7, <1>8

\* The new model comes.
LEMMA LoadStep ==
    ASSUME Inv, Load
    PROVE  Inv'
<1> USE Constants DEF Inv, HardwareTypeOK
<1>1. PlantTypes'
  <2>1. plan.to \in Model
    BY DEF DersTypes, Plans
  <2>2. loaded' \subseteq Model /\ (mode = "off" => loaded' = {})
    BY <2>1 DEF Load, Warms, PlantTypes
  <2> QED BY <2>2 DEF Load, trainer, PlantTypes
<1>2. SupervisorTypes'
  BY DEF Load, supervisor, SupervisorTypes
<1>3. DersTypes'
  BY DEF Load, Warms, DersTypes
<1>4. FileTypes'
  BY DEF Load, workers, Warms, FileTypes, Files, Ready, Moving
<1>5. Bookkeeping'
  BY DEF Load, supervisor, Bookkeeping, OwnOllamaMode
<1>6. PlanKept'
  BY DEF Load, Warms, PlanKept, Swapping, DersTypes
<1>7. WindowKept'
  BY DEF Load, WindowKept
<1>8. Announced'
  BY DEF Load, Warms, Announced, Swapping, DersTypes, FileTypes
<1> QED BY <1>1, <1>2, <1>3, <1>4, <1>5, <1>6, <1>7, <1>8

\* A vision request.
LEMMA ParkStep ==
    ASSUME Inv, Park
    PROVE  Inv'
<1> USE Constants DEF Inv, HardwareTypeOK
<1>1. PlantTypes'
  BY DEF Park, trainer, Warms, PlantTypes
<1>2. SupervisorTypes'
  BY DEF Park, supervisor, SupervisorTypes
<1>3. DersTypes'
  BY DEF Park, Warms, DersTypes
<1>4. FileTypes'
  BY DEF Park, workers, FileTypes, Files, Ready, Moving
<1>5. Bookkeeping'
  BY DEF Park, supervisor, Bookkeeping, OwnOllamaMode
<1>6. PlanKept'
  BY DEF Park, Warms, PlanKept, Swapping, DersTypes
<1>7. WindowKept'
  BY DEF Park, WindowKept
<1>8. Announced'
  BY DEF Park, Warms, Announced, Swapping, DersTypes, FileTypes
<1> QED BY <1>1, <1>2, <1>3, <1>4, <1>5, <1>6, <1>7, <1>8

\* The end of a poll.
LEMMA WriteStep ==
    ASSUME Inv, Write
    PROVE  Inv'
<1> USE Constants DEF Inv, HardwareTypeOK
<1>1. PlantTypes'
  BY DEF Write, trainer, Warms, Ready, PlantTypes
<1>2. SupervisorTypes'
  BY DEF Write, supervisor, SupervisorTypes
<1>3. DersTypes'
  BY DEF Write, Warms, Ready, DersTypes
<1>4. FileTypes'
  BY DEF Write, workers, Warms, Ready, FileTypes, Files, Moving
<1>5. Bookkeeping'
  BY DEF Write, supervisor, Bookkeeping, OwnOllamaMode
<1>6. PlanKept'
  BY DEF Write, Warms, Ready, PlanKept, Swapping, DersTypes
<1>7. WindowKept'
  BY DEF Write, WindowKept
<1>8. Announced'
  BY DEF Write, Warms, Ready, Announced, Swapping, DersTypes, FileTypes
<1> QED BY <1>1, <1>2, <1>3, <1>4, <1>5, <1>6, <1>7, <1>8

\* The end of the cool-down.
LEMMA SettleStep ==
    ASSUME Inv, Settle
    PROVE  Inv'
<1> USE Constants DEF Inv, HardwareTypeOK
<1>1. PlantTypes'
  BY DEF Settle, ollama, trainer, PlantTypes
<1>2. SupervisorTypes'
  BY DEF Settle, supervisor, SupervisorTypes
<1>3. DersTypes'
  BY DEF Settle, DersTypes
<1>4. FileTypes'
  BY DEF Settle, workers, FileTypes, Files, Ready, Moving
<1>5. Bookkeeping'
  BY DEF Settle, ollama, supervisor, Bookkeeping, OwnOllamaMode
<1>6. PlanKept'
  BY DEF Settle, PlanKept, Swapping
<1>7. WindowKept'
  BY DEF Settle, WindowKept
<1>8. Announced'
  BY DEF Settle, Announced, Swapping
<1> QED BY <1>1, <1>2, <1>3, <1>4, <1>5, <1>6, <1>7, <1>8

\* The end of Dr. Ders.
LEMMA DersDiesStep ==
    ASSUME Inv, DersDies
    PROVE  Inv'
<1> USE Constants DEF Inv, HardwareTypeOK
<1>1. PlantTypes'
  BY DEF DersDies, ollama, trainer, PlantTypes
<1>2. SupervisorTypes'
  BY DEF DersDies, supervisor, SupervisorTypes
<1>3. DersTypes'
  <2>1. plan' \in Plans
    BY DEF DersDies
  <2>2. since' \in 0..Window /\ calm' \in 0..Window
    BY DEF DersDies
  <2> QED BY <2>1, <2>2 DEF DersDies, DersTypes
<1>4. FileTypes'
  <2>1. Ready \in Files
    BY DEF Ready, Files
  <2>2. file' \in Files
    BY <2>1 DEF DersDies, FileTypes
  <2> QED BY <2>2 DEF DersDies, workers, FileTypes
<1>5. Bookkeeping'
  BY DEF DersDies, ollama, supervisor, Bookkeeping, OwnOllamaMode
<1>6. PlanKept'
  BY DEF DersDies, PlanKept, Swapping, DersTypes
<1>7. WindowKept'
  BY DEF DersDies, WindowKept, DersTypes
<1>8. Announced'
  BY DEF DersDies, Announced, Swapping, DersTypes, FileTypes
<1> QED BY <1>1, <1>2, <1>3, <1>4, <1>5, <1>6, <1>7, <1>8

\* Its respawn.
LEMMA RespawnStep ==
    ASSUME Inv, Respawn
    PROVE  Inv'
<1> USE Constants DEF Inv, HardwareTypeOK
<1>1. PlantTypes'
  BY DEF Respawn, trainer, Ready, PlantTypes
<1>2. SupervisorTypes'
  BY DEF Respawn, supervisor, SupervisorTypes
<1>3. DersTypes'
  BY DEF Respawn, poll, Ready, DersTypes
<1>4. FileTypes'
  BY DEF Respawn, workers, Ready, FileTypes, Files, Moving
<1>5. Bookkeeping'
  BY DEF Respawn, supervisor, Bookkeeping, OwnOllamaMode
<1>6. PlanKept'
  BY DEF Respawn, poll, Ready, PlanKept, Swapping, DersTypes
<1>7. WindowKept'
  BY DEF Respawn, poll, WindowKept
<1>8. Announced'
  BY DEF Respawn, Ready, Announced, Swapping, DersTypes, FileTypes
<1> QED BY <1>1, <1>2, <1>3, <1>4, <1>5, <1>6, <1>7, <1>8

\* The supervisor sees a training begin.
LEMMA TrainingStartsStep ==
    ASSUME Inv, TrainingStarts
    PROVE  Inv'
<1> USE Constants DEF Inv, HardwareTypeOK
<1>1. PlantTypes'
  BY EvictEnds DEF TrainingStarts, ollama, trainer, PlantTypes
<1>2. SupervisorTypes'
  BY DEF TrainingStarts, StopOllama, Unloads, SupervisorTypes
<1>3. DersTypes'
  BY DEF TrainingStarts, poll, DersTypes
<1>4. FileTypes'
  BY DEF TrainingStarts, workers, FileTypes, Files, Ready, Moving
<1>5. Bookkeeping'
  BY EvictEnds DEF TrainingStarts, ollama, Bookkeeping, OwnOllamaMode, SupervisorTypes,
         PlantTypes
<1>6. PlanKept'
  BY DEF TrainingStarts, poll, PlanKept, Swapping
<1>7. WindowKept'
  BY DEF TrainingStarts, poll, WindowKept
<1>8. Announced'
  BY DEF TrainingStarts, Announced, Swapping
<1> QED BY <1>1, <1>2, <1>3, <1>4, <1>5, <1>6, <1>7, <1>8

\* Ollama starts on the CPU.
LEMMA GoCpuStep ==
    ASSUME Inv, GoCpu
    PROVE  Inv'
<1> USE Constants DEF Inv, HardwareTypeOK
<1>1. PlantTypes'
  BY StartBrings DEF GoCpu, ollama, trainer, PlantTypes
<1>2. SupervisorTypes'
  BY DEF GoCpu, StartOllama, SupervisorTypes
<1>3. DersTypes'
  BY DEF GoCpu, poll, DersTypes
<1>4. FileTypes'
  BY DEF GoCpu, workers, FileTypes, Files, Ready, Moving
<1>5. Bookkeeping'
  BY StartBrings DEF GoCpu, ollama, Bookkeeping, OwnOllamaMode, SupervisorTypes,
         PlantTypes
<1>6. PlanKept'
  BY DEF GoCpu, poll, PlanKept, Swapping
<1>7. WindowKept'
  BY DEF GoCpu, poll, WindowKept
<1>8. Announced'
  BY DEF GoCpu, Announced, Swapping
<1> QED BY <1>1, <1>2, <1>3, <1>4, <1>5, <1>6, <1>7, <1>8

\* The supervisor sees a training end.
LEMMA TrainingEndsStep ==
    ASSUME Inv, TrainingEnds
    PROVE  Inv'
<1> USE Constants DEF Inv, HardwareTypeOK
<1>1. PlantTypes'
  BY StopEnds DEF TrainingEnds, ollama, trainer, PlantTypes
<1>2. SupervisorTypes'
  BY DEF TrainingEnds, StopOllama, Unloads, SupervisorTypes
<1>3. DersTypes'
  BY DEF TrainingEnds, poll, DersTypes
<1>4. FileTypes'
  BY DEF TrainingEnds, workers, FileTypes, Files, Ready, Moving
<1>5. Bookkeeping'
  BY StopEnds DEF TrainingEnds, ollama, Bookkeeping, OwnOllamaMode, SupervisorTypes,
         PlantTypes
<1>6. PlanKept'
  BY DEF TrainingEnds, poll, PlanKept, Swapping
<1>7. WindowKept'
  BY DEF TrainingEnds, poll, WindowKept
<1>8. Announced'
  BY DEF TrainingEnds, Announced, Swapping
<1> QED BY <1>1, <1>2, <1>3, <1>4, <1>5, <1>6, <1>7, <1>8

\* Ollama starts on the GPU.
LEMMA GoGpuStep ==
    ASSUME Inv, GoGpu
    PROVE  Inv'
<1> USE Constants DEF Inv, HardwareTypeOK
<1>1. PlantTypes'
  BY StartBrings DEF GoGpu, ollama, trainer, PlantTypes
<1>2. SupervisorTypes'
  BY DEF GoGpu, StartOllama, SupervisorTypes
<1>3. DersTypes'
  BY DEF GoGpu, poll, DersTypes
<1>4. FileTypes'
  BY DEF GoGpu, workers, FileTypes, Files, Ready, Moving
<1>5. Bookkeeping'
  BY StartBrings DEF GoGpu, ollama, Bookkeeping, OwnOllamaMode, SupervisorTypes,
         PlantTypes
<1>6. PlanKept'
  BY DEF GoGpu, poll, PlanKept, Swapping
<1>7. WindowKept'
  BY DEF GoGpu, poll, WindowKept
<1>8. Announced'
  BY DEF GoGpu, Announced, Swapping
<1> QED BY <1>1, <1>2, <1>3, <1>4, <1>5, <1>6, <1>7, <1>8

\* The end of the supervisor.
LEMMA SupervisorDiesStep ==
    ASSUME Inv, SupervisorDies
    PROVE  Inv'
<1> USE Constants DEF Inv, HardwareTypeOK
<1>1. PlantTypes'
  BY DEF SupervisorDies, trainer, PlantTypes
<1>2. SupervisorTypes'
  BY DEF SupervisorDies, SupervisorTypes
<1>3. DersTypes'
  BY DEF SupervisorDies, poll, DersTypes
<1>4. FileTypes'
  BY DEF SupervisorDies, workers, FileTypes, Files, Ready, Moving
<1>5. Bookkeeping'
  BY DEF SupervisorDies, Bookkeeping, OwnOllamaMode, PlantTypes,
         SupervisorTypes
<1>6. PlanKept'
  BY DEF SupervisorDies, poll, PlanKept, Swapping
<1>7. WindowKept'
  BY DEF SupervisorDies, poll, WindowKept
<1>8. Announced'
  BY DEF SupervisorDies, Announced, Swapping
<1> QED BY <1>1, <1>2, <1>3, <1>4, <1>5, <1>6, <1>7, <1>8

\* Its boot.
LEMMA BootStep ==
    ASSUME Inv, Boot
    PROVE  Inv'
<1> USE Constants DEF Inv, HardwareTypeOK
<1>1. PlantTypes'
  BY StartBrings DEF Boot, ollama, trainer, PlantTypes
<1>2. SupervisorTypes'
  BY DEF Boot, StartOllama, SupervisorTypes
<1>3. DersTypes'
  BY DEF Boot, poll, DersTypes
<1>4. FileTypes'
  BY DEF Boot, workers, FileTypes, Files, Ready, Moving
<1>5. Bookkeeping'
  BY StartBrings DEF Boot, ollama, Bookkeeping, OwnOllamaMode, SupervisorTypes,
         PlantTypes
<1>6. PlanKept'
  BY DEF Boot, poll, PlanKept, Swapping
<1>7. WindowKept'
  BY DEF Boot, poll, WindowKept
<1>8. Announced'
  BY DEF Boot, Announced, Swapping
<1> QED BY <1>1, <1>2, <1>3, <1>4, <1>5, <1>6, <1>7, <1>8

\* The end of Ollama.
LEMMA OllamaStopsStep ==
    ASSUME Inv, OllamaStops
    PROVE  Inv'
<1> USE Constants DEF Inv, HardwareTypeOK
<1>1. PlantTypes'
  BY DEF OllamaStops, trainer, PlantTypes
<1>2. SupervisorTypes'
  BY DEF OllamaStops, supervisor, SupervisorTypes
<1>3. DersTypes'
  BY DEF OllamaStops, poll, DersTypes
<1>4. FileTypes'
  BY DEF OllamaStops, workers, FileTypes, Files, Ready, Moving
<1>5. Bookkeeping'
  BY DEF OllamaStops, supervisor, Bookkeeping, OwnOllamaMode, PlantTypes,
         SupervisorTypes
<1>6. PlanKept'
  BY DEF OllamaStops, poll, PlanKept, Swapping
<1>7. WindowKept'
  BY DEF OllamaStops, poll, WindowKept
<1>8. Announced'
  BY DEF OllamaStops, Announced, Swapping
<1> QED BY <1>1, <1>2, <1>3, <1>4, <1>5, <1>6, <1>7, <1>8

\* Its start by the operator.
LEMMA OllamaStartsStep ==
    ASSUME Inv, OllamaStarts
    PROVE  Inv'
<1> USE Constants DEF Inv, HardwareTypeOK
<1>1. PlantTypes'
  BY DEF OllamaStarts, trainer, PlantTypes
<1>2. SupervisorTypes'
  BY DEF OllamaStarts, supervisor, SupervisorTypes
<1>3. DersTypes'
  BY DEF OllamaStarts, poll, DersTypes
<1>4. FileTypes'
  BY DEF OllamaStarts, workers, FileTypes, Files, Ready, Moving
<1>5. Bookkeeping'
  BY DEF OllamaStarts, supervisor, Bookkeeping, OwnOllamaMode, PlantTypes,
         SupervisorTypes
<1>6. PlanKept'
  BY DEF OllamaStarts, poll, PlanKept, Swapping
<1>7. WindowKept'
  BY DEF OllamaStarts, poll, WindowKept
<1>8. Announced'
  BY DEF OllamaStarts, Announced, Swapping
<1> QED BY <1>1, <1>2, <1>3, <1>4, <1>5, <1>6, <1>7, <1>8

\* The operator loads another model.
LEMMA SwitchModelStep ==
    ASSUME Inv, NEW m \in Baseline, SwitchModel(m)
    PROVE  Inv'
<1> USE Constants DEF Inv, HardwareTypeOK
<1>1. PlantTypes'
  BY DEF SwitchModel, trainer, PlantTypes
<1>2. SupervisorTypes'
  BY DEF SwitchModel, supervisor, SupervisorTypes
<1>3. DersTypes'
  BY DEF SwitchModel, poll, DersTypes
<1>4. FileTypes'
  BY DEF SwitchModel, workers, FileTypes, Files, Ready, Moving
<1>5. Bookkeeping'
  BY DEF SwitchModel, supervisor, Bookkeeping, OwnOllamaMode
<1>6. PlanKept'
  BY DEF SwitchModel, poll, PlanKept, Swapping
<1>7. WindowKept'
  BY DEF SwitchModel, poll, WindowKept
<1>8. Announced'
  BY DEF SwitchModel, Announced, Swapping
<1> QED BY <1>1, <1>2, <1>3, <1>4, <1>5, <1>6, <1>7, <1>8

\* The operator edits fleet.toml.
LEMMA EditModelStep ==
    ASSUME Inv, NEW m \in Baseline, EditModel(m)
    PROVE  Inv'
<1> USE Constants DEF Inv, HardwareTypeOK
<1>1. PlantTypes'
  BY DEF EditModel, ollama, trainer, PlantTypes
<1>2. SupervisorTypes'
  BY DEF EditModel, supervisor, SupervisorTypes
<1>3. DersTypes'
  BY DEF EditModel, poll, DersTypes
<1>4. FileTypes'
  BY DEF EditModel, workers, FileTypes, Files, Ready, Moving
<1>5. Bookkeeping'
  BY DEF EditModel, ollama, supervisor, Bookkeeping, OwnOllamaMode
<1>6. PlanKept'
  BY DEF EditModel, poll, PlanKept, Swapping
<1>7. WindowKept'
  BY DEF EditModel, poll, WindowKept
<1>8. Announced'
  BY DEF EditModel, Announced, Swapping
<1> QED BY <1>1, <1>2, <1>3, <1>4, <1>5, <1>6, <1>7, <1>8

\* A keep_alive ends.
LEMMA ExpireStep ==
    ASSUME Inv, NEW m \in Model, Expire(m)
    PROVE  Inv'
<1> USE Constants DEF Inv, HardwareTypeOK
<1>1. PlantTypes'
  BY DEF Expire, trainer, PlantTypes
<1>2. SupervisorTypes'
  BY DEF Expire, supervisor, SupervisorTypes
<1>3. DersTypes'
  BY DEF Expire, poll, DersTypes
<1>4. FileTypes'
  BY DEF Expire, workers, FileTypes, Files, Ready, Moving
<1>5. Bookkeeping'
  BY DEF Expire, supervisor, Bookkeeping, OwnOllamaMode
<1>6. PlanKept'
  BY DEF Expire, poll, PlanKept, Swapping
<1>7. WindowKept'
  BY DEF Expire, poll, WindowKept
<1>8. Announced'
  BY DEF Expire, Announced, Swapping
<1> QED BY <1>1, <1>2, <1>3, <1>4, <1>5, <1>6, <1>7, <1>8

\* train.py starts or ends.
LEMMA TrainStep ==
    ASSUME Inv, Train
    PROVE  Inv'
<1> USE Constants DEF Inv, HardwareTypeOK
<1>1. PlantTypes'
  BY DEF Train, ollama, PlantTypes
<1>2. SupervisorTypes'
  BY DEF Train, supervisor, SupervisorTypes
<1>3. DersTypes'
  BY DEF Train, poll, DersTypes
<1>4. FileTypes'
  BY DEF Train, workers, FileTypes, Files, Ready, Moving
<1>5. Bookkeeping'
  BY DEF Train, ollama, supervisor, Bookkeeping, OwnOllamaMode
<1>6. PlanKept'
  BY DEF Train, poll, PlanKept, Swapping
<1>7. WindowKept'
  BY DEF Train, poll, WindowKept
<1>8. Announced'
  BY DEF Train, Announced, Swapping
<1> QED BY <1>1, <1>2, <1>3, <1>4, <1>5, <1>6, <1>7, <1>8

\* The lock row comes or goes.
LEMMA TrainingLockStep ==
    ASSUME Inv, TrainingLock
    PROVE  Inv'
<1> USE Constants DEF Inv, HardwareTypeOK
<1>1. PlantTypes'
  BY DEF TrainingLock, ollama, PlantTypes
<1>2. SupervisorTypes'
  BY DEF TrainingLock, supervisor, SupervisorTypes
<1>3. DersTypes'
  BY DEF TrainingLock, poll, DersTypes
<1>4. FileTypes'
  BY DEF TrainingLock, workers, FileTypes, Files, Ready, Moving
<1>5. Bookkeeping'
  BY DEF TrainingLock, ollama, supervisor, Bookkeeping, OwnOllamaMode
<1>6. PlanKept'
  BY DEF TrainingLock, poll, PlanKept, Swapping
<1>7. WindowKept'
  BY DEF TrainingLock, poll, WindowKept
<1>8. Announced'
  BY DEF TrainingLock, Announced, Swapping
<1> QED BY <1>1, <1>2, <1>3, <1>4, <1>5, <1>6, <1>7, <1>8

\* A worker claims a task.
LEMMA PassGateStep ==
    ASSUME Inv, NEW w \in Worker, PassGate(w)
    PROVE  Inv'
<1> USE Constants DEF Inv, HardwareTypeOK
<1>1. PlantTypes'
  BY DEF PassGate, ollama, trainer, PlantTypes
<1>2. SupervisorTypes'
  BY DEF PassGate, supervisor, SupervisorTypes
<1>3. DersTypes'
  BY DEF PassGate, poll, DersTypes
<1>4. FileTypes'
  BY DEF PassGate, Goes, FileTypes, Files, Ready, Moving
<1>5. Bookkeeping'
  BY DEF PassGate, ollama, supervisor, Bookkeeping, OwnOllamaMode
<1>6. PlanKept'
  BY DEF PassGate, poll, PlanKept, Swapping
<1>7. WindowKept'
  BY DEF PassGate, poll, WindowKept
<1>8. Announced'
  BY DEF PassGate, Announced, Swapping
<1> QED BY <1>1, <1>2, <1>3, <1>4, <1>5, <1>6, <1>7, <1>8

\* A task ends.
LEMMA EndTaskStep ==
    ASSUME Inv, NEW w \in Worker, EndTask(w)
    PROVE  Inv'
<1> USE Constants DEF Inv, HardwareTypeOK
<1>1. PlantTypes'
  BY DEF EndTask, ollama, trainer, PlantTypes
<1>2. SupervisorTypes'
  BY DEF EndTask, supervisor, SupervisorTypes
<1>3. DersTypes'
  BY DEF EndTask, poll, DersTypes
<1>4. FileTypes'
  BY DEF EndTask, Goes, FileTypes, Files, Ready, Moving
<1>5. Bookkeeping'
  BY DEF EndTask, ollama, supervisor, Bookkeeping, OwnOllamaMode
<1>6. PlanKept'
  BY DEF EndTask, poll, PlanKept, Swapping
<1>7. WindowKept'
  BY DEF EndTask, poll, WindowKept
<1>8. Announced'
  BY DEF EndTask, Announced, Swapping
<1> QED BY <1>1, <1>2, <1>3, <1>4, <1>5, <1>6, <1>7, <1>8

\* A vision task reads the file.
LEMMA SignalStep ==
    ASSUME Inv, NEW w \in Worker, Signal(w)
    PROVE  Inv'
<1> USE Constants DEF Inv, HardwareTypeOK
<1>1. PlantTypes'
  BY DEF Signal, ollama, trainer, PlantTypes
<1>2. SupervisorTypes'
  BY DEF Signal, supervisor, SupervisorTypes
<1>3. DersTypes'
  BY DEF Signal, poll, DersTypes
<1>4. FileTypes'
  BY DEF Signal, Goes, ReadState, FileTypes, Files, Ready, Moving
<1>5. Bookkeeping'
  BY DEF Signal, ollama, supervisor, Bookkeeping, OwnOllamaMode
<1>6. PlanKept'
  BY DEF Signal, poll, PlanKept, Swapping
<1>7. WindowKept'
  BY DEF Signal, poll, WindowKept
<1>8. Announced'
  BY DEF Signal, Announced, Swapping
<1> QED BY <1>1, <1>2, <1>3, <1>4, <1>5, <1>6, <1>7, <1>8

\* It writes its request.
LEMMA SignalledStep ==
    ASSUME Inv, NEW w \in Worker, Signalled(w)
    PROVE  Inv'
<1> USE Constants DEF Inv, HardwareTypeOK
<1>1. PlantTypes'
  BY DEF Signalled, ollama, trainer, PlantTypes
<1>2. SupervisorTypes'
  BY DEF Signalled, supervisor, SupervisorTypes
<1>3. DersTypes'
  BY DEF Signalled, poll, DersTypes
<1>4. FileTypes'
  <2>1. [snap[w] EXCEPT !.vision = TRUE] \in Files /\ Ready \in Files
    BY DEF FileTypes, Files, Ready
  <2>2. at' \in [Worker -> WorkerPlaces] /\ snap' \in [Worker -> Files]
    BY <2>1 DEF Signalled, WriteState, Goes, FileTypes
  <2>3. file' \in Files /\ clobbered' \in BOOLEAN
    BY <2>1 DEF Signalled, WriteState, Swapping
  <2> QED BY <2>2, <2>3 DEF FileTypes
<1>5. Bookkeeping'
  BY DEF Signalled, ollama, supervisor, Bookkeeping, OwnOllamaMode
<1>6. PlanKept'
  BY DEF Signalled, poll, PlanKept, Swapping
<1>7. WindowKept'
  BY DEF Signalled, poll, WindowKept
<1>8. Announced'
  BY DEF Signalled, Goes, WriteState, Ready, Announced, Swapping, DersTypes,
         FileTypes
<1> QED BY <1>1, <1>2, <1>3, <1>4, <1>5, <1>6, <1>7, <1>8

\* The inference.
LEMMA SeeStep ==
    ASSUME Inv, NEW w \in Worker, See(w)
    PROVE  Inv'
<1> USE Constants DEF Inv, HardwareTypeOK
<1>1. PlantTypes'
  BY DEF See, trainer, Goes, ReadState, Loads, PlantTypes
<1>2. SupervisorTypes'
  BY DEF See, supervisor, SupervisorTypes
<1>3. DersTypes'
  BY DEF See, poll, DersTypes
<1>4. FileTypes'
  BY DEF See, Goes, ReadState, Loads, FileTypes, Files, Ready, Moving
<1>5. Bookkeeping'
  BY DEF See, supervisor, Bookkeeping, OwnOllamaMode
<1>6. PlanKept'
  BY DEF See, poll, PlanKept, Swapping
<1>7. WindowKept'
  BY DEF See, poll, WindowKept
<1>8. Announced'
  BY DEF See, Announced, Swapping
<1> QED BY <1>1, <1>2, <1>3, <1>4, <1>5, <1>6, <1>7, <1>8

\* It takes the request back.
LEMMA ClearedStep ==
    ASSUME Inv, NEW w \in Worker, Cleared(w)
    PROVE  Inv'
<1> USE Constants DEF Inv, HardwareTypeOK
<1>1. PlantTypes'
  BY DEF Cleared, ollama, trainer, PlantTypes
<1>2. SupervisorTypes'
  BY DEF Cleared, supervisor, SupervisorTypes
<1>3. DersTypes'
  BY DEF Cleared, poll, DersTypes
<1>4. FileTypes'
  <2>1. [snap[w] EXCEPT !.vision = FALSE] \in Files /\ Ready \in Files
    BY DEF FileTypes, Files, Ready
  <2>2. at' \in [Worker -> WorkerPlaces] /\ snap' \in [Worker -> Files]
    BY <2>1 DEF Cleared, WriteState, Goes, FileTypes
  <2>3. file' \in Files /\ clobbered' \in BOOLEAN
    BY <2>1 DEF Cleared, WriteState, Swapping
  <2> QED BY <2>2, <2>3 DEF FileTypes
<1>5. Bookkeeping'
  BY DEF Cleared, ollama, supervisor, Bookkeeping, OwnOllamaMode
<1>6. PlanKept'
  BY DEF Cleared, poll, PlanKept, Swapping
<1>7. WindowKept'
  BY DEF Cleared, poll, WindowKept
<1>8. Announced'
  BY DEF Cleared, Goes, WriteState, Ready, Announced, Swapping, DersTypes,
         FileTypes
<1> QED BY <1>1, <1>2, <1>3, <1>4, <1>5, <1>6, <1>7, <1>8

-----------------------------------------------------------------------------
\* The fleet starts in a state that satisfies it.
LEMMA InitInv == Init => Inv
<1> SUFFICES ASSUME Init PROVE Inv
  OBVIOUS
<1> USE DEF Init
<1>1. PlantTypes /\ SupervisorTypes
  BY Constants DEF PlantTypes, SupervisorTypes
<1>2. DersTypes
  <2>1. since \in 0..Window /\ calm \in 0..Window
    BY Constants
  <2>2. plan \in Plans
    BY Constants
  <2> QED BY <2>1, <2>2 DEF DersTypes
<1>3. FileTypes
  BY DEF FileTypes, Files, Ready
<1>4. Bookkeeping
  BY DEF Bookkeeping, OwnOllamaMode
<1>5. PlanKept /\ WindowKept /\ Announced
  BY DEF PlanKept, WindowKept, Announced, Swapping
<1> QED BY <1>1, <1>2, <1>3, <1>4, <1>5 DEF Inv, HardwareTypeOK

\* Every step keeps it.
LEMMA StepInv == Inv /\ [Next]_vars => Inv'
<1> SUFFICES ASSUME Inv, [Next]_vars PROVE Inv'
  OBVIOUS
<1>1. CASE DersStep
  BY <1>1, SenseStep, UnreadStep, EvictStep, DecideStep, SwapStep, LoadStep,
     ParkStep, WriteStep, SettleStep, DersDiesStep
     DEF DersStep, PollStep
<1>2. CASE SupervisorStep
  BY <1>2, RespawnStep, TrainingStartsStep, GoCpuStep,
     TrainingEndsStep, GoGpuStep, SupervisorDiesStep, BootStep
     DEF SupervisorStep
<1>3. CASE OperatorStep
  BY <1>3, OllamaStopsStep, OllamaStartsStep, SwitchModelStep, EditModelStep,
     ExpireStep, TrainStep, TrainingLockStep
     DEF OperatorStep
<1>4. ASSUME NEW w \in Worker, WorkerStep(w) PROVE Inv'
  BY <1>4, PassGateStep, EndTaskStep, SignalStep, SignalledStep, SeeStep,
     ClearedStep
     DEF WorkerStep, VisionStep
<1>5. CASE UNCHANGED vars
  BY <1>5 DEF vars, Inv, HardwareTypeOK, PlantTypes, SupervisorTypes, DersTypes,
     FileTypes, Bookkeeping, OwnOllamaMode, PlanKept, WindowKept, Announced,
     Swapping
<1> QED BY <1>1, <1>2, <1>3, <1>4, <1>5 DEF Next

\* Every reachable state satisfies it.
LEMMA Invariant == Spec => []Inv
BY InitInv, StepInv, PTL DEF Spec

\* The types of the variables, and that an Ollama that is off holds no model.
THEOREM HardwareTypeCorrect == Spec => []HardwareTypeOK
<1>1. Inv => HardwareTypeOK
  BY DEF Inv
<1> QED BY <1>1, Invariant, PTL

\* start_ollama and stop_ollama: the supervisor's own Ollama is on the CPU when
\* and only when the supervisor moved it there.
THEOREM OwnOllamaFollows == Spec => []OwnOllamaMode
<1>1. Inv => OwnOllamaMode
  BY DEF Inv, Bookkeeping
<1> QED BY <1>1, Invariant, PTL

\* The scaling of Dr. Ders: a transition to a larger model is one that it makes
\* without having seen a model, past an edit, from a model that is no tier, or to
\* the smallest installed model from a tier that was not installed.
THEOREM LargerOnlyByNamedWays == Spec => ScaleUpOnlyBy
<1>1. Inv /\ [Next]_vars =>
        [Swap /\ conf' < conf =>
            \/ plan.blind
            \/ conf # plan.from
            \/ conf \notin Tier
            \/ conf' = Smallest /\ conf \notin Installed]_vars
  <2> SUFFICES ASSUME Inv, Swap, conf' < conf, ~plan.blind, conf = plan.from,
                      conf \in Tier
               PROVE  conf' = Smallest /\ conf \notin Installed
    OBVIOUS
  <2>1. \/ conf <= plan.to
        \/ plan.to = Smallest /\ conf \notin Installed
    BY DEF Inv, PlanKept, Swapping, Swap
  <2>2. conf \in Nat /\ plan.to \in Nat
    BY Constants DEF Inv, HardwareTypeOK, PlantTypes, DersTypes, Plans
  <2> QED BY <2>1, <2>2 DEF Swap
<1> QED BY <1>1, Invariant, PTL DEF Spec, ScaleUpOnlyBy

\* The throttle: on a hot GPU the polls of Dr. Ders load the smallest model and
\* no other, whatever was decided, asked for or due before.
THEOREM ThrottledPollsSpare == Spec => ThrottleSparesGpu
<1>1. Inv /\ [Next]_vars =>
        [PollStep /\ throttled => loaded' \subseteq loaded \cup {Smallest, Crit}]_vars
  <2> SUFFICES ASSUME Inv, PollStep, throttled
               PROVE  loaded' \subseteq loaded \cup {Smallest, Crit}
    OBVIOUS
  <2>1. ASSUME NEW pings \in BOOLEAN, Sense(pings) PROVE loaded' = loaded
    BY <2>1 DEF Sense
  <2>2. CASE Decide
    BY <2>2 DEF Decide, ollama
  <2>3. CASE Swap
    BY <2>3 DEF Swap, Unloads
  <2>4. CASE Load
    <3>1. plan.to = Smallest
      BY <2>4 DEF Inv, PlanKept, Swapping, Load
    <3> QED BY <2>4, <3>1 DEF Load, Warms
  <2>5. CASE Park
    BY <2>5 DEF Park, Rotates
  <2>6. CASE Write
    BY <2>6 DEF Write, Warms
  <2> QED BY <2>1, <2>2, <2>3, <2>4, <2>5, <2>6 DEF PollStep
<1> QED BY <1>1, Invariant, PTL DEF Spec, ThrottleSparesGpu

\* The cool-down: the throttle outlasts every row of cool readings shorter than
\* the window.
THEOREM ThrottleOutlastsWindow == Spec => ThrottleEndsCool
<1>1. Inv /\ [Next]_vars =>
        [throttled /\ ~throttled' => ders' = "down" \/ calm >= Window]_vars
  <2> SUFFICES ASSUME Inv, Next, throttled, ~throttled'
               PROVE  ders' = "down" \/ calm >= Window
    OBVIOUS
  <2>1. ASSUME NEW pings \in BOOLEAN, Sense(pings) PROVE calm >= Window
    <3>1. since >= Window
      BY <2>1 DEF Sense, Burst, Warm, Cool
    <3> QED BY <3>1, Constants DEF Inv, WindowKept, HardwareTypeOK, DersTypes
  <2>2. CASE DersDies
    BY <2>2 DEF DersDies
  <2>3. ASSUME DersStep, ~DersDies, \A pings \in BOOLEAN : ~Sense(pings)
        PROVE  FALSE
    BY <2>3 DEF DersStep, PollStep, Unread, Evict, Decide, Swap, Load, Park,
                Write, Settle, poll
  <2>4. CASE SupervisorStep
    BY <2>4 DEF SupervisorStep, Respawn, TrainingStarts, GoCpu,
                TrainingEnds, GoGpu, SupervisorDies, Boot, poll
  <2>5. CASE OperatorStep
    BY <2>5 DEF OperatorStep, OllamaStops, OllamaStarts, Train, TrainingLock,
                SwitchModel, EditModel, Expire, poll
  <2>6. ASSUME NEW w \in Worker, WorkerStep(w) PROVE FALSE
    BY <2>6 DEF WorkerStep, VisionStep, PassGate, EndTask, Signal, Signalled,
                See, Cleared, poll
  <2> QED BY <2>1, <2>2, <2>3, <2>4, <2>5, <2>6 DEF Next
<1> QED BY <1>1, Invariant, PTL DEF Spec, ThrottleEndsCool

\* The gate: a worker claims during a transition only when a vision task has
\* destroyed the announcement.
THEOREM GateHolds == Spec => GateClosed
<1>1. Inv /\ [Next]_vars =>
        [\A w \in Worker :
            at[w] = "top" /\ at'[w] = "busy" /\ Swapping =>
                clobbered \/ Writing]_vars
  <2> SUFFICES ASSUME Inv, Next, NEW w \in Worker, at[w] = "top",
                      at'[w] = "busy", Swapping
               PROVE  clobbered \/ Writing
    OBVIOUS
  <2> USE DEF Inv, HardwareTypeOK, FileTypes
  <2>1. CASE DersStep
    BY <2>1 DEF DersStep, PollStep, Sense, Unread, Evict, Decide, Swap, Load,
                Park, Write, Settle, DersDies, workers
  <2>2. CASE SupervisorStep
    BY <2>2 DEF SupervisorStep, Respawn, TrainingStarts, GoCpu,
                TrainingEnds, GoGpu, SupervisorDies, Boot, workers
  <2>3. CASE OperatorStep
    BY <2>3 DEF OperatorStep, OllamaStops, OllamaStarts, Train, TrainingLock,
                SwitchModel, EditModel, Expire, workers
  <2>4. ASSUME NEW v \in Worker, WorkerStep(v) PROVE clobbered \/ Writing
    <3>1. CASE PassGate(v)
      BY <3>1 DEF PassGate, Announced
    <3>2. ASSUME ~PassGate(v) PROVE FALSE
      BY <2>4, <3>2 DEF WorkerStep, VisionStep, EndTask, Signal, Signalled, See,
                        Cleared, ReadState, WriteState, Goes
    <3> QED BY <3>1, <3>2
  <2> QED BY <2>1, <2>2, <2>3, <2>4 DEF Next
<1> QED BY <1>1, Invariant, PTL DEF Spec, GateClosed

\* No vision task signs, sees or clears, so that nobody has written over an
\* announcement.
NoVision ==
    /\ "vision" \notin env
    /\ \A w \in Worker : at[w] \in {"top", "busy"}
    /\ ~clobbered

LEMMA NoVisionStep ==
    ASSUME Inv, NoVision, [Next]_vars
    PROVE  NoVision'
<1> USE DEF Inv, HardwareTypeOK, FileTypes, NoVision
<1>1. CASE DersStep
  BY <1>1 DEF DersStep, PollStep, Sense, Unread, Evict, Decide, Swap, Load,
              Park, Write, Settle, DersDies, workers
<1>2. CASE SupervisorStep
  BY <1>2 DEF SupervisorStep, Respawn, TrainingStarts, GoCpu,
              TrainingEnds, GoGpu, SupervisorDies, Boot, workers
<1>3. CASE OperatorStep
  BY <1>3 DEF OperatorStep, OllamaStops, OllamaStarts, Train, TrainingLock,
              SwitchModel, EditModel, Expire, workers
<1>4. ASSUME NEW w \in Worker, WorkerStep(w) PROVE NoVision'
  <2>1. ~VisionStep(w)
    BY DEF VisionStep, Signal, Signalled, See, Cleared, ReadState, WriteState
  <2> QED BY <1>4, <2>1 DEF WorkerStep, PassGate, EndTask, Goes
<1>5. CASE UNCHANGED vars
  BY <1>5 DEF vars
<1> QED BY <1>1, <1>2, <1>3, <1>4, <1>5 DEF Next

\* Where no vision task runs, the gate is tight: no worker claims between the
\* announcement of a model and its "ready", for every number of workers and
\* whatever dies, is edited, trained or throttled meanwhile.
THEOREM GateTightWithoutVision ==
    ASSUME \A scene \in Scenes : "vision" \notin scene
    PROVE  Spec => [][\A w \in Worker :
                        at[w] = "top" /\ at'[w] = "busy" => ~Swapping]_vars
<1>1. Init => NoVision
  BY DEF Init, NoVision
<1>2. Inv /\ NoVision /\ [Next]_vars => NoVision'
  BY NoVisionStep
<1>3. /\ NoVision
      /\ [\A w \in Worker : at[w] = "top" /\ at'[w] = "busy" /\ Swapping =>
            clobbered \/ Writing]_vars
      => [\A w \in Worker : at[w] = "top" /\ at'[w] = "busy" => ~Swapping]_vars
  BY DEF NoVision, Writing
<1> QED BY <1>1, <1>2, <1>3, Invariant, GateHolds, PTL DEF Spec, GateClosed
=============================================================================
