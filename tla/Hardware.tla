------------------------------ MODULE Hardware ------------------------------
(***************************************************************************)
(* The GPU of the fleet and those who dispose of it: Dr. Ders, the         *)
(* hardware supervisor (fleet/hw_supervisor.py), which chooses the model;  *)
(* the supervisor, which moves Ollama to the CPU while train.py runs       *)
(* (fleet/scheduler.py, fleet/process_manager.py) and respawns Dr. Ders;   *)
(* the operator's Ollama endpoints (fleet/ollama_blueprint.py); workers    *)
(* that wait while a model is swapped (fleet/worker.py); and vision tasks, *)
(* which write a request into Dr. Ders' state file                         *)
(* (fleet/skills/vision_analyze.py).                                       *)
(*                                                                         *)
(* They share no lock.  They meet in fleet.toml, in hw_state.json, in the  *)
(* locks table and in Ollama itself, and each goes by what it has read or  *)
(* remembers of them.  Temperature and VRAM are read, not modelled: every  *)
(* reading is possible at every poll.                                      *)
(***************************************************************************)
EXTENDS Naturals, FiniteSets

CONSTANTS
    Order,     \* Order[1..4]: the default, mid, low and critical tier, each
               \* a model, named by its rank: a smaller model has a larger one
    Other,     \* models that are no tier and that fleet.toml may name all the
               \* same, by their rank too
    Installed, \* available_tier_models: the tiers Ollama had at startup
    Vision,    \* the vision model
    Worker,    \* processes that claim tasks
    Window,    \* cooldown_window_secs, in polls
    Scenes     \* the sets of optional events, of which a behaviour has one

Tier == {Order[i] : i \in 1..4}
Low == Order[3]
Crit == Order[4]
Baseline == Tier \cup Other
Model == Baseline \cup {Vision}

\* "warm": readings above the cool-down target; "high": VRAM pressure; "blind":
\* failed reads of the GPU and of Ollama; "misfire": loads and unloads that
\* fail; "die": Dr. Ders ends, also by an exception in a poll; "restart": the
\* supervisor ends, or boots; "train": train.py; "row": the lock of skill_train;
\* "ollama": its start and its end; "edit": fleet.toml, switch, expiry;
\* "vision": vision tasks.
Events == {"warm", "high", "blind", "misfire", "die", "restart", "train", "row",
           "ollama", "edit", "vision"}

ASSUME HardwareAssumption ==
    /\ Order \in [1..4 -> Nat]
    /\ \A i, j \in 1..4 : i <= j => Order[i] <= Order[j]
    /\ Installed \subseteq Tier /\ Installed # {}
    /\ Other \subseteq Nat \ Tier
    /\ Vision \notin Baseline
    /\ Window \in Nat \ {0}
    /\ Scenes \subseteq SUBSET Events

VARIABLES
    env,       \* the optional events of this behaviour
    conf,      \* models.local in fleet.toml
    mode,      \* Ollama: "off", or serving on "gpu" or on "cpu"
    loaded,    \* the models it holds
    handle,    \* pm.ollama_proc: "none", a process that is "live" or "dead"
    up,        \* whether the supervisor runs
    knows,     \* pm.training_active
    cpuOnly,   \* pm.ollama_evicted_for_training
    supAt,     \* where _check_training is: "loop", or between stop and start
    ders,      \* where Dr. Ders is in its poll
    plan,      \* the transition it makes: from, to, and whether it saw no model
    throttled, \* gpu_throttled
    since,     \* below_target_since: how many polls ago the next poll will
               \* find it; 0 is None
    was,       \* was_training
    evicted,   \* training_evicted
    evicting,  \* whether its eviction thread is still to run
    rescue,    \* _recovery_model_loaded
    fresh,     \* whether _last_model_change is less than its cool-down ago
    file,      \* hw_state.json
    train,     \* whether train.py runs
    row,       \* whether there is a row for the lock "training"
    at,        \* where each worker is
    snap,      \* hw_state.json as a vision task has read it
    calm,      \* history: polls since the last reading above the target
    clobbered  \* history: a vision task wrote the file during this transition

ollama == <<mode, loaded, handle>>
supervisor == <<up, knows, cpuOnly, supAt>>
poll == <<throttled, since, was, evicted, evicting, rescue, fresh, calm>>
trainer == <<train, row>>
workers == <<at, snap>>
vars == <<env, conf, mode, loaded, handle, up, knows, cpuOnly, supAt, ders,
          plan, throttled, since, was, evicted, evicting, rescue, fresh, file,
          train, row, at, snap, calm, clobbered>>

DersPlaces == {"down", "poll", "decide", "park", "write", "grace", "load"}
WorkerPlaces == {"top", "busy", "signing", "seeing", "clearing"}

\* hw_state.json: its status, "transitioning" or not, and a vision request.
Files == [moving : BOOLEAN, vision : BOOLEAN]
Ready == [moving |-> FALSE, vision |-> FALSE]
Moving == [moving |-> TRUE, vision |-> FALSE]

Plans == [from : Baseline, to : Tier, blind : BOOLEAN]
NoPlan == [from |-> Crit, to |-> Crit, blind |-> TRUE]

-----------------------------------------------------------------------------
\* check_training_active: any row of the lock, also that of a dead holder, or a
\* train.py process.
Training == train \/ row

\* Dr. Ders is between its announcement of a new model and its "ready".
Swapping == ders \in {"grace", "load"}

\* A vision task is rewriting the file (write_text empties it first, so that
\* readers may find no JSON in it).
Writing == \E w \in Worker : at[w] \in {"signing", "clearing"}

\* A load that works adds m; one that fails changes nothing.
Loads(m) ==
    \/ mode # "off" /\ loaded' = loaded \cup {m}
    \/ (mode = "off" \/ "misfire" \in env) /\ loaded' = loaded

Unloads ==
    \/ loaded' = {}
    \/ "misfire" \in env /\ loaded' = loaded

\* warmup_model notes the time of a load that worked.
Warms(m) ==
    \/ mode # "off" /\ loaded' = loaded \cup {m} /\ fresh' = TRUE
    \/ (mode = "off" \/ "misfire" \in env) /\ UNCHANGED <<loaded, fresh>>

-----------------------------------------------------------------------------
Init ==
    /\ env \in Scenes
    /\ conf \in Baseline
    /\ mode = "gpu"
    /\ loaded = {conf}
    /\ handle = "live"
    /\ up = TRUE
    /\ knows = FALSE
    /\ cpuOnly = FALSE
    /\ supAt = "loop"
    /\ ders = "poll"
    /\ plan = NoPlan
    /\ throttled = FALSE
    /\ since = 0
    /\ was = FALSE
    /\ evicted = FALSE
    /\ evicting = FALSE
    /\ rescue = FALSE
    /\ fresh = FALSE
    /\ file = Ready
    /\ train = FALSE
    /\ row = FALSE
    /\ at = [w \in Worker |-> "top"]
    /\ snap = [w \in Worker |-> Ready]
    /\ calm = 0
    /\ clobbered = FALSE

-----------------------------------------------------------------------------
\* Dr. Ders.

\* The start of a poll detects that training began or ended.  When it began, it
\* depends on the VRAM whether the models are evicted, which is announced.
SenseTraining ==
    /\ was' = Training
    /\ evicted' \in IF ~Training THEN {FALSE}
                    ELSE IF was THEN {evicted} ELSE BOOLEAN
    /\ LET evicts == Training /\ ~was /\ evicted'
       IN  /\ evicting' = (evicting \/ evicts)
           /\ file' = IF evicts THEN Moving ELSE file

\* A burst throttles; the throttle ends at a reading at or below the target,
\* Window polls after the first of an unbroken row of such readings.
Burst ==
    /\ "warm" \in env
    /\ throttled' = TRUE
    /\ since' = 0
    /\ calm' = 0

\* Mutant: a reading above the target does not restart the window.
WarmKeepsSince ==
    /\ "warm" \in env
    /\ since' = since
    /\ calm' = 0
    /\ throttled' = throttled

Warm ==
    /\ "warm" \in env
    /\ since' = 0
    /\ calm' = 0
    /\ throttled' = throttled

Later(n) == IF n >= Window THEN n ELSE n + 1

Cool ==
    /\ IF throttled /\ since >= Window
       THEN throttled' = FALSE /\ since' = 0
       ELSE throttled' = throttled /\ since' = IF throttled THEN since + 1 ELSE 0
    /\ calm' = IF throttled' THEN Later(calm) ELSE 0

\* Mutant: the keepalive pings a loaded model only.
SenseWarm(pings) ==
    /\ ders = "poll"
    /\ SenseTraining
    /\ IF conf \in loaded /\ pings /\ ~(was' /\ evicted') /\ ~throttled
       THEN Loads(conf) ELSE loaded' = loaded
    /\ Burst \/ Warm \/ Cool
    /\ ders' = "decide"
    /\ UNCHANGED <<env, conf, mode, handle, supervisor, plan, rescue, fresh,
                   trainer, workers, clobbered>>

\* A poll's readings; every 48th pings the model of fleet.toml, which loads it.
Sense(pings) ==
    /\ ders = "poll"
    /\ SenseTraining
    /\ IF pings /\ ~(was' /\ evicted') /\ ~throttled
       THEN Loads(conf) ELSE loaded' = loaded
    /\ Burst \/ Warm \/ Cool
    /\ ders' = "decide"
    /\ UNCHANGED <<env, conf, mode, handle, supervisor, plan, rescue, fresh,
                   trainer, workers, clobbered>>

\* Without a reading of the GPU the poll ends here; time passes.
Unread ==
    /\ "blind" \in env
    /\ ders = "poll"
    /\ throttled
    /\ since' = IF since = 0 THEN 0 ELSE Later(since)
    /\ calm' = Later(calm)
    /\ UNCHANGED <<env, conf, ollama, supervisor, ders, plan, throttled, was,
                   evicted, evicting, rescue, fresh, file, trainer, workers,
                   clobbered>>

\* The daemon thread that evicts for training.
Evict ==
    /\ evicting
    /\ Unloads
    /\ evicting' = FALSE
    /\ UNCHANGED <<env, conf, mode, handle, supervisor, ders, plan, throttled,
                   since, was, evicted, rescue, fresh, file, trainer, workers,
                   calm, clobbered>>

\* The critical tier, or the smallest there is when that one is not installed.
Smallest == CHOOSE t \in Installed : \A u \in Installed : u <= t

\* One tier down: the first position with an installed model after that of conf;
\* which is conf itself, when two positions name one model.  When conf is no
\* tier, the second position with an installed model, be it larger than conf.
Above == {i \in 1..4 : IF conf \in Tier THEN Order[i] = conf
                                       ELSE Order[i] \in Installed}
Lower == {j \in 1..4 : Order[j] \in Installed /\ \E i \in Above : i < j}
NextTier ==
    IF Lower = {} THEN conf
    ELSE Order[CHOOSE j \in Lower : \A k \in Lower : j <= k]

\* The tier for an evicting training.
TrainingTier ==
    CASE conf \in {Low, Crit} -> conf
      [] conf \notin {Low, Crit} /\ Low \in Installed -> Low
      [] conf \notin {Low, Crit} /\ Low \notin Installed ->
            IF Crit \in Installed THEN Crit ELSE conf

Pressures == IF "high" \in env THEN {"low", "high", "emergency"} ELSE {"low"}

\* Mutant: with room to spare it also steps up from a model that is loaded.
GoalsStepUp(pressure, none) ==
    CASE throttled -> {Smallest}
      [] ~throttled /\ was /\ evicted -> {TrainingTier}
      [] ~throttled /\ ~(was /\ evicted) /\ none ->
            {conf} \cup (IF pressure = "low" THEN Installed ELSE {Smallest})
      [] ~throttled /\ ~(was /\ evicted) /\ ~none ->
            CASE pressure = "emergency" -> {Smallest}
              [] pressure = "high" -> {NextTier}
              [] pressure = "low" -> {conf} \cup Installed

\* The models a poll may choose at this VRAM pressure, when it saw no model
\* (none) or some.  The recovery takes the largest installed tier that fits.
Goals(pressure, none) ==
    CASE throttled -> {Smallest}
      [] ~throttled /\ was /\ evicted -> {TrainingTier}
      [] ~throttled /\ ~(was /\ evicted) /\ none ->
            {conf} \cup (IF pressure = "low" THEN Installed ELSE {Smallest})
      [] ~throttled /\ ~(was /\ evicted) /\ ~none ->
            CASE pressure = "emergency" -> {Smallest}
              [] pressure = "high" -> {NextTier}
              [] pressure = "low" -> {conf}

Urgent(pressure, none) ==
    throttled \/ (~(was /\ evicted) /\ ~none /\ pressure = "emergency")

\* Mutant: the transition is not announced.
DecideSilently ==
    /\ ders = "decide"
    /\ \E pressure \in Pressures, failed \in BOOLEAN :
        /\ failed => "blind" \in env
        /\ LET none == failed \/ loaded = {}
           IN  \E goal \in Goals(pressure, none) :
                \/ /\ goal = conf
                   /\ ders' = "park"
                   /\ UNCHANGED <<plan, file, clobbered>>
                \/ /\ goal # conf
                   /\ fresh /\ ~Urgent(pressure, none)
                   /\ ders' = "poll"
                   /\ UNCHANGED <<plan, file, clobbered>>
                \/ /\ goal # conf
                   /\ ~fresh \/ Urgent(pressure, none)
                   /\ ders' = "grace"
                   /\ plan' = [from |-> conf, to |-> goal, blind |-> none]
                   /\ file' = file
                   /\ clobbered' = FALSE
    /\ UNCHANGED <<env, conf, ollama, supervisor, poll, trainer, workers>>

\* The choice, by what the poll sees of Ollama.  A poll that may not change the
\* model yet (dampening) ends without writing its state.
Decide ==
    /\ ders = "decide"
    /\ \E pressure \in Pressures, failed \in BOOLEAN :
        /\ failed => "blind" \in env
        /\ LET none == failed \/ loaded = {}
           IN  \E goal \in Goals(pressure, none) :
                \/ /\ goal = conf
                   /\ ders' = "park"
                   /\ UNCHANGED <<plan, file, clobbered>>
                \/ /\ goal # conf
                   /\ fresh /\ ~Urgent(pressure, none)
                   /\ ders' = "poll"
                   /\ UNCHANGED <<plan, file, clobbered>>
                \/ /\ goal # conf
                   /\ ~fresh \/ Urgent(pressure, none)
                   /\ ders' = "grace"
                   /\ plan' = [from |-> conf, to |-> goal, blind |-> none]
                   /\ file' = Moving
                   /\ clobbered' = FALSE
    /\ UNCHANGED <<env, conf, ollama, supervisor, poll, trainer, workers>>

\* transition_model: after the workers' grace period it writes fleet.toml and
\* unloads everything (in an emergency the other way round, at once) ...
Swap ==
    /\ ders = "grace"
    /\ conf' = plan.to
    /\ Unloads
    /\ ders' = "load"
    /\ UNCHANGED <<env, mode, handle, supervisor, plan, poll, file, trainer,
                   workers, clobbered>>

\* ... loads the new model and writes "ready", whether or not it was loaded.
Load ==
    /\ ders = "load"
    /\ Warms(plan.to)
    /\ file' = Ready
    /\ plan' = NoPlan
    /\ ders' = "poll"
    /\ clobbered' = FALSE
    /\ UNCHANGED <<env, conf, mode, handle, supervisor, throttled, since, was,
                   evicted, evicting, rescue, trainer, workers, calm>>

\* Mutant: a vision request is served on a throttled GPU.
RotatesThrottled == file.vision /\ Vision \notin loaded /\ ~(was /\ evicted)

\* A vision request is to be served: the GPU is free for it.
Rotates ==
    file.vision /\ Vision \notin loaded /\ ~throttled /\ ~(was /\ evicted)

\* No change of model: a vision request is served, if the file can be parsed.
Park ==
    /\ ders = "park"
    /\ \/ Rotates /\ Warms(Vision)
       \/ (~Rotates \/ Writing) /\ UNCHANGED <<loaded, fresh>>
    /\ ders' = "write"
    /\ UNCHANGED <<env, conf, mode, handle, supervisor, plan, throttled, since,
                   was, evicted, evicting, rescue, file, trainer, workers, calm,
                   clobbered>>

\* Mutant: the poll clears the request and leaves the status as it is.
WriteRequest ==
    /\ ders = "write"
    /\ file' = [file EXCEPT !.vision = FALSE]
    /\ \/ UNCHANGED <<loaded, fresh, rescue>>
       \/ ~up /\ ~rescue /\ Warms(Crit) /\ rescue' = TRUE
       \/ up /\ rescue /\ loaded' = loaded \ {Crit} /\ rescue' = FALSE
          /\ UNCHANGED fresh
    /\ ders' = "poll"
    /\ UNCHANGED <<env, conf, mode, handle, supervisor, plan, throttled, since,
                   was, evicted, evicting, trainer, workers, calm, clobbered>>

\* The poll writes its state, without the vision request.  Every 12th poll it
\* looks for the supervisor: three misses load the rescue model (and count it as
\* loaded), its return unloads that model, whoever uses it by now.
Write ==
    /\ ders = "write"
    /\ file' = Ready
    /\ \/ UNCHANGED <<loaded, fresh, rescue>>
       \/ ~up /\ ~rescue /\ Warms(Crit) /\ rescue' = TRUE
       \/ up /\ rescue /\ loaded' = loaded \ {Crit} /\ rescue' = FALSE
          /\ UNCHANGED fresh
    /\ ders' = "poll"
    /\ UNCHANGED <<env, conf, mode, handle, supervisor, plan, throttled, since,
                   was, evicted, evicting, trainer, workers, calm, clobbered>>

\* MODEL_CHANGE_COOLDOWN is over.
Settle ==
    /\ fresh
    /\ fresh' = FALSE
    /\ UNCHANGED <<env, conf, ollama, supervisor, ders, plan, throttled, since,
                   was, evicted, evicting, rescue, file, trainer, workers, calm,
                   clobbered>>

\* The process ends and takes everything it remembers with it.  Killed, it leaves
\* the file as it is; an exception in a poll (whose handler raises another) ends
\* it with the status "crashed".
DersDies ==
    /\ "die" \in env
    /\ ders # "down"
    /\ ders' = "down"
    /\ plan' = NoPlan
    /\ throttled' = FALSE /\ since' = 0 /\ calm' = 0
    /\ was' = FALSE /\ evicted' = FALSE /\ evicting' = FALSE
    /\ rescue' = FALSE /\ fresh' = FALSE
    /\ clobbered' = FALSE
    /\ file' \in {file, Ready}
    /\ UNCHANGED <<env, conf, ollama, supervisor, trainer, workers>>

-----------------------------------------------------------------------------
\* The supervisor.

\* check_alive respawns it; at its start it writes its state and evicts the
\* models it does not know.
Respawn ==
    /\ up
    /\ ders = "down"
    /\ ders' = "poll"
    /\ file' = Ready
    /\ \/ loaded' = loaded \ {Vision}
       \/ "misfire" \in env /\ loaded' = loaded
    /\ UNCHANGED <<env, conf, mode, handle, supervisor, plan, poll, trainer,
                   workers, clobbered>>

\* stop_ollama ends a process of its own, unloads the models of an Ollama that
\* it has adopted, and does nothing when its own process is dead already.
StopOllama ==
    /\ CASE handle = "live" -> mode' = "off" /\ loaded' = {}
         [] handle = "none" -> mode' = mode /\ Unloads
         [] handle = "dead" -> UNCHANGED <<mode, loaded>>
    /\ handle' = "none"

\* start_ollama adopts an Ollama that answers, in whatever mode.
StartOllama(m) ==
    IF mode # "off" THEN UNCHANGED ollama
    ELSE mode' = m /\ loaded' = {} /\ handle' = "live"

\* _evict_gpu_models before stop_ollama, which alone would leave the models of
\* an Ollama that has taken the place of a dead one.
EvictOllama ==
    IF handle = "dead" THEN mode' = mode /\ Unloads /\ handle' = "none"
                       ELSE StopOllama

\* _check_training sees train.py for the first time: Ollama goes to the CPU, if
\* the training needs the room.
TrainingStarts ==
    /\ up /\ supAt = "loop" /\ train /\ ~knows
    /\ knows' = TRUE
    /\ \/ EvictOllama /\ supAt' = "evict" /\ UNCHANGED cpuOnly
       \/ cpuOnly' = FALSE /\ UNCHANGED <<ollama, supAt>>
    /\ UNCHANGED <<env, conf, up, ders, plan, poll, file, trainer, workers,
                   clobbered>>

GoCpu ==
    /\ up /\ supAt = "evict"
    /\ StartOllama("cpu")
    /\ cpuOnly' = TRUE
    /\ supAt' = "loop"
    /\ UNCHANGED <<env, conf, up, knows, ders, plan, poll, file, trainer,
                   workers, clobbered>>

\* It is over: Ollama goes back to the GPU, if it was moved.
TrainingEnds ==
    /\ up /\ supAt = "loop" /\ ~train /\ knows
    /\ knows' = FALSE
    /\ IF cpuOnly THEN StopOllama /\ supAt' = "restore"
                  ELSE UNCHANGED <<ollama, supAt>>
    /\ UNCHANGED <<env, conf, up, cpuOnly, ders, plan, poll, file, trainer,
                   workers, clobbered>>

\* Mutant: the restored Ollama is still taken for an evicted one.
GoGpuForgets ==
    /\ up /\ supAt = "restore"
    /\ StartOllama("gpu")
    /\ cpuOnly' = cpuOnly
    /\ supAt' = "loop"
    /\ UNCHANGED <<env, conf, up, knows, ders, plan, poll, file, trainer,
                   workers, clobbered>>

GoGpu ==
    /\ up /\ supAt = "restore"
    /\ StartOllama("gpu")
    /\ cpuOnly' = FALSE
    /\ supAt' = "loop"
    /\ UNCHANGED <<env, conf, up, knows, ders, plan, poll, file, trainer,
                   workers, clobbered>>

\* The supervisor ends without its shutdown; Ollama and Dr. Ders go on.
SupervisorDies ==
    /\ "restart" \in env
    /\ up
    /\ up' = FALSE
    /\ knows' = FALSE /\ cpuOnly' = FALSE /\ supAt' = "loop"
    /\ handle' = "none"
    /\ UNCHANGED <<env, conf, mode, loaded, ders, plan, poll, file, trainer,
                   workers, clobbered>>

\* boot: Ollama is started or adopted, and pinged later with the model (which
\* StartOllama leaves to Dr. Ders' keepalive here).
Boot ==
    /\ "restart" \in env
    /\ ~up
    /\ up' = TRUE
    /\ StartOllama("gpu")
    /\ UNCHANGED <<env, conf, knows, cpuOnly, supAt, ders, plan, poll, file,
                   trainer, workers, clobbered>>

-----------------------------------------------------------------------------
\* The operator, Ollama and training.

\* Mutant: the end of Ollama leaves its models where they are.
OllamaStopsKeepsModels ==
    /\ "ollama" \in env
    /\ mode # "off"
    /\ mode' = "off"
    /\ loaded' = loaded
    /\ handle' = IF handle = "live" THEN "dead" ELSE handle
    /\ UNCHANGED <<env, conf, supervisor, ders, plan, poll, file, trainer,
                   workers, clobbered>>

\* api_ollama_stop, or Ollama ends by itself: pm keeps its handle.
OllamaStops ==
    /\ "ollama" \in env
    /\ mode # "off"
    /\ mode' = "off"
    /\ loaded' = {}
    /\ handle' = IF handle = "live" THEN "dead" ELSE handle
    /\ UNCHANGED <<env, conf, supervisor, ders, plan, poll, file, trainer,
                   workers, clobbered>>

\* api_ollama_start: a process the supervisor has no handle of.
OllamaStarts ==
    /\ "ollama" \in env
    /\ mode = "off"
    /\ mode' = "gpu"
    /\ UNCHANGED <<env, conf, loaded, handle, supervisor, ders, plan, poll, file,
                   trainer, workers, clobbered>>

\* api_ollama_switch loads another model and leaves fleet.toml alone.
SwitchModel(m) ==
    /\ "edit" \in env
    /\ mode # "off"
    /\ loaded' = {m}
    /\ UNCHANGED <<env, conf, mode, handle, supervisor, ders, plan, poll, file,
                   trainer, workers, clobbered>>

\* The operator chooses another baseline, a tier or not.
EditModel(m) ==
    /\ "edit" \in env
    /\ conf' = m
    /\ UNCHANGED <<env, ollama, supervisor, ders, plan, poll, file, trainer,
                   workers, clobbered>>

\* Ollama drops a model whose keep_alive is over.
Expire(m) ==
    /\ "edit" \in env
    /\ m \in loaded
    /\ loaded' = loaded \ {m}
    /\ UNCHANGED <<env, conf, mode, handle, supervisor, ders, plan, poll, file,
                   trainer, workers, clobbered>>

\* train.py starts or ends.
Train ==
    /\ "train" \in env
    /\ train' = ~train
    /\ UNCHANGED <<env, conf, ollama, supervisor, ders, plan, poll, file, row,
                   workers, clobbered>>

\* skill_train takes the lock and gives it back, if it lives to do so.
TrainingLock ==
    /\ "row" \in env
    /\ row' = ~row
    /\ UNCHANGED <<env, conf, ollama, supervisor, ders, plan, poll, file, train,
                   workers, clobbered>>

-----------------------------------------------------------------------------
\* Workers.

Goes(w, place) == at' = [at EXCEPT ![w] = place]

\* The gate before a claim: no transition is announced, or the file cannot be
\* parsed.
PassGate(w) ==
    /\ at[w] = "top"
    /\ ~file.moving \/ Writing
    /\ Goes(w, "busy")
    /\ UNCHANGED <<env, conf, ollama, supervisor, ders, plan, poll, file,
                   trainer, snap, clobbered>>

\* The task ends; one that is no vision task has nothing to do with the file.
EndTask(w) ==
    /\ at[w] = "busy"
    /\ Goes(w, "top")
    /\ UNCHANGED <<env, conf, ollama, supervisor, ders, plan, poll, file,
                   trainer, snap, clobbered>>

\* _signal_vision_request and _clear_vision_request read the file, or give up
\* when another task is writing it ...
ReadState(w, from, to, past) ==
    /\ at[w] = from
    /\ \/ Goes(w, to) /\ snap' = [snap EXCEPT ![w] = file]
       \/ Writing /\ Goes(w, past) /\ snap' = snap

\* ... and write it back, changed in one field.
WriteState(w, from, to, request) ==
    /\ at[w] = from
    /\ Goes(w, to)
    /\ file' = [snap[w] EXCEPT !.vision = request]
    /\ snap' = [snap EXCEPT ![w] = Ready]
    /\ clobbered' = Swapping

Signal(w) ==
    /\ "vision" \in env
    /\ ReadState(w, "busy", "signing", "seeing")
    /\ UNCHANGED <<env, conf, ollama, supervisor, ders, plan, poll, file,
                   trainer, clobbered>>

Signalled(w) ==
    /\ WriteState(w, "signing", "seeing", TRUE)
    /\ UNCHANGED <<env, conf, ollama, supervisor, ders, plan, poll, trainer>>

\* The inference, which loads the vision model if need be.
See(w) ==
    /\ ReadState(w, "seeing", "clearing", "top")
    /\ Loads(Vision)
    /\ UNCHANGED <<env, conf, mode, handle, supervisor, ders, plan, poll, file,
                   trainer, clobbered>>

Cleared(w) ==
    /\ WriteState(w, "clearing", "top", FALSE)
    /\ UNCHANGED <<env, conf, ollama, supervisor, ders, plan, poll, trainer>>

-----------------------------------------------------------------------------
PollStep ==
    \/ \E pings \in BOOLEAN : Sense(pings)
    \/ Decide \/ Swap \/ Load \/ Park \/ Write

DersStep == PollStep \/ Unread \/ Evict \/ Settle \/ DersDies

SupervisorStep ==
    \/ Respawn \/ TrainingStarts \/ GoCpu \/ TrainingEnds \/ GoGpu
    \/ SupervisorDies \/ Boot

OperatorStep ==
    \/ OllamaStops \/ OllamaStarts \/ Train \/ TrainingLock
    \/ \E m \in Baseline : SwitchModel(m) \/ EditModel(m)
    \/ \E m \in Model : Expire(m)

VisionStep(w) == Signal(w) \/ Signalled(w) \/ See(w) \/ Cleared(w)

WorkerStep(w) == PassGate(w) \/ EndTask(w) \/ VisionStep(w)

Next ==
    \/ DersStep
    \/ SupervisorStep
    \/ OperatorStep
    \/ \E w \in Worker : WorkerStep(w)

Spec == Init /\ [][Next]_vars

\* A poll that pings, and the ping works.
Ping == Sense(TRUE) /\ conf \in loaded'

\* Fairness.  Dr. Ders' loop goes on, and again and again one of its polls reads
\* the GPU and pings with success, if Ollama runs and nothing forbids the ping;
\* its cool-down ends; the supervisor's loop respawns it.  Nobody owes the fleet
\* a training, an edit, a start of Ollama or a boot.
Fairness ==
    /\ WF_vars(PollStep)
    /\ SF_vars(Ping)
    /\ WF_vars(Settle)
    /\ WF_vars(Respawn)

FairSpec == Spec /\ Fairness

-----------------------------------------------------------------------------
\* Properties.

PlantTypes ==
    /\ env \in Scenes
    /\ conf \in Baseline
    /\ mode \in {"off", "gpu", "cpu"}
    /\ loaded \subseteq Model
    /\ mode = "off" => loaded = {}
    /\ handle \in {"none", "live", "dead"}
    /\ train \in BOOLEAN
    /\ row \in BOOLEAN

SupervisorTypes ==
    /\ up \in BOOLEAN
    /\ knows \in BOOLEAN
    /\ cpuOnly \in BOOLEAN
    /\ supAt \in {"loop", "evict", "restore"}

DersTypes ==
    /\ ders \in DersPlaces
    /\ plan \in Plans
    /\ throttled \in BOOLEAN
    /\ since \in 0..Window
    /\ calm \in 0..Window
    /\ was \in BOOLEAN
    /\ evicted \in BOOLEAN
    /\ evicting \in BOOLEAN
    /\ rescue \in BOOLEAN
    /\ fresh \in BOOLEAN

FileTypes ==
    /\ file \in Files
    /\ at \in [Worker -> WorkerPlaces]
    /\ snap \in [Worker -> Files]
    /\ clobbered \in BOOLEAN

\* Every variable keeps its type.
HardwareTypeOK == PlantTypes /\ SupervisorTypes /\ DersTypes /\ FileTypes

\* Dr. Ders replaces the model of fleet.toml by a larger one only when its poll
\* saw no model in Ollama, when the operator has edited the model since, when the
\* model is no tier, so that there is no place in the tiers to step down from, or
\* when it falls to the smallest installed model from one that was not installed.
ScaleUpOnlyBy ==
    [][Swap /\ conf' < conf =>
        \/ plan.blind
        \/ conf # plan.from
        \/ conf \notin Tier
        \/ conf' = Smallest /\ conf \notin Installed]_vars

\* While the GPU is throttled, Dr. Ders loads the smallest model and no other:
\* no keepalive, no vision request and no transition begun before it does.
ThrottleSparesGpu ==
    [][PollStep /\ throttled => loaded' \subseteq loaded \cup {Smallest, Crit}]_vars

\* A throttle ends only when no reading of the last Window polls was above the
\* target, polls without a reading included, or with the process.
ThrottleEndsCool ==
    [][throttled /\ ~throttled' => ders' = "down" \/ calm >= Window]_vars

\* The Ollama that the supervisor has started is on the CPU when and only when
\* it was moved there for a training: crashes of either, an operator who stops
\* and starts Ollama and a training that ends in between confuse only the modes
\* of an Ollama it has adopted.
OwnOllamaMode ==
    handle = "live" => mode = IF cpuOnly THEN "cpu" ELSE "gpu"

\* A worker passes the gate during a transition only when a vision task has
\* written the file since the announcement, or is writing it.
GateClosed ==
    [][\A w \in Worker :
        at[w] = "top" /\ at'[w] = "busy" /\ Swapping => clobbered \/ Writing]_vars

\* An announced transition ends, whatever becomes of Dr. Ders and whoever writes
\* into its file, as long as there is a supervisor to respawn it.
GateOpens == file.moving ~> ~file.moving \/ ~up

\* When Ollama holds no model, it soon does again, unless the GPU is throttled,
\* a training keeps it, Ollama is off or the supervisor is down.
ModelComesBack ==
    loaded = {} ~>
        loaded # {} \/ throttled \/ (was /\ evicted) \/ mode = "off" \/ ~up
=============================================================================
