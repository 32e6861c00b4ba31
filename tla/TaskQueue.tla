------------------------------ MODULE TaskQueue ------------------------------
(***************************************************************************)
(* The tasks table of BigEd's fleet and every process that writes it: the  *)
(* workers (fleet/worker.py), the asynchronous DAG processor each of them  *)
(* runs (fleet/dag_queue.py), the supervisor's recovery and retry sweeps   *)
(* (fleet/health_monitor.py, fleet/boot_sequence.py) and the operator's    *)
(* endpoints (fleet/tasks_blueprint.py, fleet/mcp_server.py,               *)
(* fleet/lead_client.py).                                                  *)
(*                                                                         *)
(* Grain of atomicity.  Python's sqlite3 opens a transaction at the first  *)
(* write, not at the first read: a helper that SELECTs and then UPDATEs is *)
(* two steps here, a single UPDATE is one.  SQLite has one writer at a     *)
(* time; complete_task and fail_task are the only helpers that do          *)
(* something visible (put an event in the DAG queue) before they commit,   *)
(* so only they hold the write lock across two steps.                      *)
(***************************************************************************)
EXTENDS Naturals, FiniteSets

CONSTANTS
    Task,        \* task ids; ids grow in the order of posting
    Worker,      \* agent names; one process per name
    None,        \* SQL NULL in tasks.assigned_to, "no task" elsewhere
    Deps,        \* Deps[t]: tasks.depends_on
    Cond,        \* <<d, t>>: t.conditions wants a substring of d's result
    PinnedTo,    \* PinnedTo[t]: the assigned_to that t is posted with
    Gated,       \* proposals that wait for the operator (HITL)
    Chain,       \* the tasks resume_chain selects: one parent_id
    Affine,      \* Affine[w]: tasks whose type is in w's affinity_skills
    BatchDepth,  \* worker.py claims two tasks when the queue is deeper (3)
    MaxRetries,  \* fleet.toml self_healing.max_task_retries
    MaxCommands, \* bound of the model: cancel, requeue, resume commands given
    Crashable,   \* workers that may die
    Env          \* the optional events of this instance, named below

\* Every optional event: each is one action (or outcome) of the code.
Events == {"fail", "overload", "respawn", "daglost", "boot", "killfail",
           "cancel", "requeue", "retry", "resume", "unqueue"}

ASSUME ConstantsAssumption ==
    /\ Task \subseteq Nat
    /\ None \notin Task \cup Worker
    /\ Deps \in [Task -> SUBSET Task]
    /\ Cond \subseteq Task \X Task
    /\ PinnedTo \in [Task -> Worker \cup {None}]
    /\ Gated \subseteq {t \in Task : Deps[t] = {} /\ PinnedTo[t] = None}
    /\ Chain \subseteq Task
    /\ Affine \in [Worker -> SUBSET Task]
    /\ BatchDepth \in Nat
    /\ MaxRetries \in Nat
    /\ MaxCommands \in Nat
    /\ Crashable \subseteq Worker
    /\ Env \subseteq Events

VARIABLES
    status,     \* tasks.status, "ABSENT" before the INSERT
    owner,      \* tasks.assigned_to
    retries,    \* payload._retry_count
    matched,    \* DONE tasks whose result holds what Cond asks of it
    pc,         \* where each worker process is in its loop
    cur,        \* the task a worker executes: task['id'] of worker.py
    dagq,       \* each process's in-memory dag_queue, order abstracted
    scan,       \* rows its DAG thread has read and is about to write;
                \* scan[None]: rows a resume_chain with nothing FAILED has
    lostpid,    \* live workers whose agents row has pid NULL
    intent,     \* SELECT-then-UPDATE helpers: rows read, not yet written
    commands,   \* operator commands given so far (bounds the model only)
    gate,       \* progress of a HITL proposal
    completed,  \* history: tasks that were DONE at some time
    fit,        \* history: tasks that were DONE with a matching result
    reopened,   \* history: FAILED rows put back by retry, requeue, resume
    seized,     \* history: tasks taken from a worker that was still alive
    slipped     \* history: proposals claimed before their gate closed

rowVars == <<status, owner, retries, matched>>
procVars == <<pc, cur, dagq, scan, lostpid>>
history == <<completed, fit, reopened, seized, slipped>>
vars == <<status, owner, retries, matched, pc, cur, dagq, scan, lostpid,
          intent, commands, gate, completed, fit, reopened, seized, slipped>>

Statuses == {"ABSENT", "PENDING", "WAITING", "RUNNING", "DONE", "FAILED",
             "WAITING_HUMAN"}
Places == {"down", "idle", "batch", "run", "completing", "failing"}
Helpers == {"cancel", "requeue", "retry", "resume"}
Gates == {"open", "posted", "asked", "answered"}

\* DAG events: one kind of promotion (it rescans everything) and one cascade
\* per failed task.
Promotion == [kind |-> "promote", task |-> None]
Cascade(t) == [kind |-> "cascade_fail", task |-> t]
DagEvents == {Promotion} \cup {Cascade(t) : t \in Task}

Scanner == Worker \cup {None}
NoScan == [to |-> "PENDING", rows |-> {}]
Scans == [to : {"PENDING", "FAILED"}, rows : SUBSET Task]

-----------------------------------------------------------------------------
\* A write needs SQLite's write lock, which complete_task and fail_task keep
\* from their UPDATE to their commit.
Unlocked == \A w \in Worker : pc[w] \notin {"completing", "failing"}

Up(w) == pc[w] # "down"

\* Mutant: the reset takes every row of w, whatever its status is.
RunningOfAny(w) == {t \in Task : owner[t] = w}

RunningOf(w) == {t \in Task : status[t] = "RUNNING" /\ owner[t] = w}

\* Mutant: the claim also takes rows that wait for the operator.
ClaimableHeld(w) ==
    {t \in Task : /\ status[t] \in {"PENDING", "WAITING_HUMAN"}
                  /\ owner[t] \in {w, None}}

\* What w's UPDATE ... WHERE status='PENDING' AND (assigned_to=? OR NULL) sees.
Claimable(w) ==
    {t \in Task : status[t] = "PENDING" /\ owner[t] \in {w, None}}

\* Affinity-matched tasks come first.  Priority and age order the rest of the
\* choice; the operator can rewrite priorities, so any row may come first.
ClaimPool(w) ==
    IF Claimable(w) \cap Affine[w] # {}
    THEN Claimable(w) \cap Affine[w]
    ELSE Claimable(w)

\* The rows the SELECT after the UPDATE ranges over when w has claimed t: all
\* RUNNING rows of w (all of an affine type, when t was claimed by affinity).
Fetched(w, t) ==
    {u \in RunningOf(w) \cup {t} : t \in Affine[w] => u \in Affine[w]}

\* Mutant: the depth counts the row that is being claimed twice.
QueueDepthPlusOne == Cardinality({t \in Task : status[t] = "PENDING"}) + 1

QueueDepth == Cardinality({t \in Task : status[t] = "PENDING"})

\* _promote_waiting_tasks: WAITING, all dependencies DONE, conditions met.
Ready ==
    {t \in Task : /\ status[t] = "WAITING"
                  /\ \A d \in Deps[t] : status[d] = "DONE"
                  /\ \A d \in Deps[t] : <<d, t>> \in Cond => d \in matched}

\* _cascade_fail_dependents: the direct WAITING dependents, no further.
Dependents(d) == {t \in Task : status[t] = "WAITING" /\ d \in Deps[t]}

\* The status column with every row of S set to s.
With(S, s) == [t \in Task |-> IF t \in S THEN s ELSE status[t]]
Owned(S, o) == [t \in Task |-> IF t \in S THEN o ELSE owner[t]]
Counted(S) == [t \in Task |-> IF t \in S THEN retries[t] + 1 ELSE retries[t]]

-----------------------------------------------------------------------------
Init ==
    /\ status = [t \in Task |-> "ABSENT"]
    /\ owner = [t \in Task |-> None]
    /\ retries = [t \in Task |-> 0]
    /\ matched = {}
    /\ pc = [w \in Worker |-> "idle"]
    /\ cur = [w \in Worker |-> None]
    /\ dagq = [w \in Worker |-> {}]
    /\ scan = [w \in Scanner |-> NoScan]
    /\ lostpid = {}
    /\ intent = [h \in Helpers |-> {}]
    /\ commands = 0
    /\ gate = [t \in Task |-> "open"]
    /\ completed = {}
    /\ fit = {}
    /\ reopened = {}
    /\ seized = {}
    /\ slipped = {}

-----------------------------------------------------------------------------
\* Submitting.

\* post_task: WAITING exactly when it has dependencies, whatever their status
\* is by now.  depends_on holds ids the caller was given, so they exist.
Post(t) ==
    /\ Unlocked
    /\ status[t] = "ABSENT"
    /\ \A d \in Deps[t] : status[d] # "ABSENT"
    /\ status' = With({t}, IF Deps[t] = {} THEN "PENDING" ELSE "WAITING")
    /\ owner' = Owned({t}, PinnedTo[t])
    /\ gate' = [gate EXCEPT ![t] = IF t \in Gated THEN "posted" ELSE @]
    /\ UNCHANGED <<retries, matched, procVars, intent, commands, history>>

\* The second statement of a proposal (_run_idle_evolution, or
\* request_human_input after post_task): an unguarded UPDATE.
AskHuman(t) ==
    /\ Unlocked
    /\ gate[t] = "posted"
    /\ status' = With({t}, "WAITING_HUMAN")
    /\ gate' = [gate EXCEPT ![t] = "asked"]
    /\ UNCHANGED <<owner, retries, matched, procVars, intent, commands,
                   history>>

\* Mutant: the answered row loses its assignment.
RespondUnassigns(t) ==
    /\ Unlocked
    /\ status[t] = "WAITING_HUMAN"
    /\ status' = With({t}, "PENDING")
    /\ owner' = Owned({t}, None)
    /\ gate' = [gate EXCEPT ![t] = "answered"]
    /\ UNCHANGED <<retries, matched, procVars, intent, commands, history>>

\* respond_to_agent: the UPDATE repeats the status test; assigned_to stays.
Respond(t) ==
    /\ Unlocked
    /\ status[t] = "WAITING_HUMAN"
    /\ status' = With({t}, "PENDING")
    /\ gate' = [gate EXCEPT ![t] = "answered"]
    /\ UNCHANGED <<owner, retries, matched, procVars, intent, commands,
                   history>>

-----------------------------------------------------------------------------
\* The worker loop.

\* The UPDATE claims t, the SELECT after it takes the largest id of Fetched,
\* which is what the worker executes.
Claim(w) ==
    /\ Unlocked
    /\ pc[w] = "idle"
    /\ \E t \in ClaimPool(w) : \E r \in Fetched(w, t) :
        /\ \A u \in Fetched(w, t) : u <= r
        /\ status' = With({t}, "RUNNING")
        /\ owner' = Owned({t}, w)
        /\ cur' = [cur EXCEPT ![w] = r]
        /\ slipped' = IF gate[t] = "posted" THEN slipped \cup {t} ELSE slipped
    /\ pc' = [pc EXCEPT ![w] = IF QueueDepth > BatchDepth THEN "batch"
                                                          ELSE "run"]
    /\ UNCHANGED <<retries, matched, dagq, scan, lostpid, intent, commands,
                   gate, completed, fit, reopened, seized>>

\* Mutant: the worker keeps the last row of the batch, not the first.
ClaimSecondReplaces(w) ==
    /\ Unlocked
    /\ pc[w] = "batch"
    /\ pc' = [pc EXCEPT ![w] = "run"]
    /\ \/ /\ ClaimPool(w) = {}
          /\ UNCHANGED <<status, owner, cur, slipped>>
       \/ \E t \in ClaimPool(w) :
            /\ status' = With({t}, "RUNNING")
            /\ owner' = Owned({t}, w)
            /\ cur' = [cur EXCEPT ![w] = t]
            /\ slipped' = IF gate[t] = "posted" THEN slipped \cup {t}
                                                ELSE slipped
    /\ UNCHANGED <<retries, matched, dagq, scan, lostpid, intent, commands,
                   gate, completed, fit, reopened, seized>>

\* The second round of claim_tasks(n=2): its row is claimed, and worker.py
\* keeps _batch[0] only.
ClaimSecond(w) ==
    /\ Unlocked
    /\ pc[w] = "batch"
    /\ pc' = [pc EXCEPT ![w] = "run"]
    /\ \/ /\ ClaimPool(w) = {}
          /\ UNCHANGED <<status, owner, slipped>>
       \/ \E t \in ClaimPool(w) :
            /\ status' = With({t}, "RUNNING")
            /\ owner' = Owned({t}, w)
            /\ slipped' = IF gate[t] = "posted" THEN slipped \cup {t}
                                                ELSE slipped
    /\ UNCHANGED <<retries, matched, cur, dagq, scan, lostpid, intent,
                   commands, gate, completed, fit, reopened, seized>>

\* The skill returned, or raised: complete_task or fail_task writes its row and
\* puts the event in this process's DAG queue, both before the commit.
Complete(w) ==
    /\ Unlocked
    /\ pc[w] = "run"
    /\ pc' = [pc EXCEPT ![w] = "completing"]
    /\ dagq' = [dagq EXCEPT ![w] = @ \cup {Promotion}]
    /\ UNCHANGED <<rowVars, cur, scan, lostpid, intent, commands, gate,
                   history>>

Fail(w) ==
    /\ "fail" \in Env
    /\ Unlocked
    /\ pc[w] = "run"
    /\ pc' = [pc EXCEPT ![w] = "failing"]
    /\ dagq' = [dagq EXCEPT ![w] = @ \cup {Cascade(cur[w])}]
    /\ UNCHANGED <<rowVars, cur, scan, lostpid, intent, commands, gate,
                   history>>

\* The commit of complete_task: no test of the row's status.
CommitComplete(w) ==
    /\ pc[w] = "completing"
    /\ status' = With({cur[w]}, "DONE")
    /\ completed' = completed \cup {cur[w]}
    /\ \/ /\ matched' = matched \cup {cur[w]}
          /\ fit' = fit \cup {cur[w]}
       \/ /\ \E t \in Task : <<cur[w], t>> \in Cond
          /\ matched' = matched \ {cur[w]}
          /\ fit' = fit
    /\ pc' = [pc EXCEPT ![w] = "idle"]
    /\ cur' = [cur EXCEPT ![w] = None]
    /\ UNCHANGED <<owner, retries, dagq, scan, lostpid, intent, commands,
                   gate, reopened, seized, slipped>>

\* The commit of fail_task.
CommitFail(w) ==
    /\ pc[w] = "failing"
    /\ status' = With({cur[w]}, "FAILED")
    /\ pc' = [pc EXCEPT ![w] = "idle"]
    /\ cur' = [cur EXCEPT ![w] = None]
    /\ UNCHANGED <<owner, retries, matched, dagq, scan, lostpid, intent,
                   commands, gate, history>>

\* Mutant: the row loses its assignment and stays RUNNING.
PutBackUnassigns(w) ==
    /\ "overload" \in Env
    /\ Unlocked
    /\ pc[w] = "run"
    /\ owner' = Owned({cur[w]}, None)
    /\ pc' = [pc EXCEPT ![w] = "idle"]
    /\ cur' = [cur EXCEPT ![w] = None]
    /\ UNCHANGED <<status, retries, matched, dagq, scan, lostpid, intent,
                   commands, gate, history>>

\* requeue_task after an overload or a timeout, reject_task after a review that
\* said FAIL: the row goes back unassigned, whatever its status is.
PutBack(w) ==
    /\ "overload" \in Env
    /\ Unlocked
    /\ pc[w] = "run"
    /\ status' = With({cur[w]}, "PENDING")
    /\ owner' = Owned({cur[w]}, None)
    /\ pc' = [pc EXCEPT ![w] = "idle"]
    /\ cur' = [cur EXCEPT ![w] = None]
    /\ UNCHANGED <<retries, matched, dagq, scan, lostpid, intent, commands,
                   gate, history>>

-----------------------------------------------------------------------------
\* The DAG processor thread of process w (dag_queue._process_loop).

\* What an event makes of the rows as they are now.
Effect(e) ==
    IF e = Promotion THEN [to |-> "PENDING", rows |-> Ready]
                     ELSE [to |-> "FAILED", rows |-> Dependents(e.task)]

\* It takes an event and reads, outside any transaction, the rows it will
\* change.  A main thread that has not committed yet is not seen.
DagScan(w) ==
    /\ Up(w)
    /\ scan[w] = NoScan
    /\ \E e \in dagq[w] :
        /\ dagq' = [dagq EXCEPT ![w] = @ \ {e}]
        /\ scan' = [scan EXCEPT ![w] =
                        IF Effect(e).rows = {} THEN NoScan ELSE Effect(e)]
    /\ UNCHANGED <<rowVars, pc, cur, lostpid, intent, commands, gate,
                   history>>

\* It writes them, by id alone (as does an operator's promotion, w = None).
DagApply(w) ==
    /\ Unlocked
    /\ scan[w] # NoScan
    /\ status' = With(scan[w].rows, scan[w].to)
    /\ scan' = [scan EXCEPT ![w] = NoScan]
    /\ UNCHANGED <<owner, retries, matched, pc, cur, dagq, lostpid, intent,
                   commands, gate, history>>

\* An exception in the batch is logged and the drained events are gone.
DagLost(w) ==
    /\ "daglost" \in Env
    /\ dagq[w] # {} \/ scan[w] # NoScan
    /\ dagq' = [dagq EXCEPT ![w] = {}]
    /\ scan' = [scan EXCEPT ![w] = NoScan]
    /\ UNCHANGED <<rowVars, pc, cur, lostpid, intent, commands, gate,
                   history>>

-----------------------------------------------------------------------------
\* Processes that die, and the supervisor that cleans up after them.

\* Mutant: the killed worker's place in its loop is kept.
DieKeepsLoop(w) ==
    /\ pc' = pc
    /\ cur' = [cur EXCEPT ![w] = None]
    /\ dagq' = [dagq EXCEPT ![w] = {}]
    /\ scan' = [scan EXCEPT ![w] = NoScan]
    /\ lostpid' = lostpid \ {w}

\* The process, its DAG queue and an open transaction are lost.
Die(w) ==
    /\ pc' = [pc EXCEPT ![w] = "down"]
    /\ cur' = [cur EXCEPT ![w] = None]
    /\ dagq' = [dagq EXCEPT ![w] = {}]
    /\ scan' = [scan EXCEPT ![w] = NoScan]
    /\ lostpid' = lostpid \ {w}

\* Mutant: the rows go back, still assigned to w.
ReleaseRowsKeepsOwner(w) ==
    /\ status' = With(RunningOf(w), "PENDING")
    /\ owner' = owner

\* The RUNNING rows of w go back to the queue, unassigned.
ReleaseRows(w) ==
    /\ status' = With(RunningOf(w), "PENDING")
    /\ owner' = Owned(RunningOf(w), None)

Crash(w) ==
    /\ w \in Crashable
    /\ Up(w)
    /\ Die(w)
    /\ UNCHANGED <<rowVars, intent, commands, gate, history>>

\* check_alive starts the worker again; register_agent stores its new pid and a
\* fresh heartbeat, and leaves the tasks table alone.
Respawn(w) ==
    /\ "respawn" \in Env
    /\ ~Up(w)
    /\ pc' = [pc EXCEPT ![w] = "idle"]
    /\ UNCHANGED <<rowVars, cur, dagq, scan, lostpid, intent, commands, gate,
                   history>>

\* recover_stale_tasks: heartbeat too old, and the pid in the agents row is
\* gone or NULL.  (A worker deep in a skill has an old heartbeat too; the pid
\* saves it, unless recover_agent has erased it.)
RecoverStale(w) ==
    /\ Unlocked
    /\ ~Up(w) \/ (w \in lostpid /\ pc[w] = "run")
    /\ RunningOf(w) # {}
    /\ ReleaseRows(w)
    /\ seized' = IF Up(w) THEN seized \cup RunningOf(w) ELSE seized
    /\ UNCHANGED <<retries, matched, procVars, intent, commands, gate,
                   completed, fit, reopened, slipped>>

\* Mutant: the rows are reset without the kill.
RecoverAgentForgetsKill(w) ==
    /\ Unlocked
    /\ w \in Crashable \ lostpid
    /\ Up(w)
    /\ ReleaseRows(w)
    /\ UNCHANGED <<retries, matched, procVars, intent, commands, gate, history>>

\* recover_agent on an agent the health sweep finds stuck: kill it, then reset
\* its rows.  A busy worker is "stuck" after 300 s without a heartbeat.
RecoverAgent(w) ==
    /\ \A v \in Worker \ {w} : pc[v] \notin {"completing", "failing"}
    /\ w \in Crashable \ lostpid
    /\ Up(w)
    /\ Die(w)
    /\ ReleaseRows(w)
    /\ UNCHANGED <<retries, matched, intent, commands, gate, history>>

\* The same when the kill raises, or no pid is on record: the exception is
\* swallowed, the rows are reset under a worker that goes on, and the agents row
\* loses its pid.
RecoverAgentKillFails(w) ==
    /\ "killfail" \in Env
    /\ Unlocked
    /\ Up(w)
    /\ ReleaseRows(w)
    /\ seized' = seized \cup RunningOf(w)
    /\ lostpid' = lostpid \cup {w}
    /\ UNCHANGED <<retries, matched, pc, cur, dagq, scan, intent, commands,
                   gate, completed, fit, reopened, slipped>>

\* boot: a new supervisor fails every RUNNING row.  Workers of the old session
\* may still be executing, and no cascade event is queued.
BootSweep ==
    /\ "boot" \in Env
    /\ Unlocked
    /\ \E t \in Task : status[t] = "RUNNING"
    /\ status' = With({t \in Task : status[t] = "RUNNING"}, "FAILED")
    /\ intent' = [intent EXCEPT !["retry"] = {}]
    /\ UNCHANGED <<owner, retries, matched, procVars, commands, gate, history>>

-----------------------------------------------------------------------------
\* Helpers that SELECT the row, decide, and UPDATE it by id.

\* n more operator commands, within the bound of the model.
Commanded(n) ==
    /\ commands + n <= MaxCommands
    /\ commands' = commands + n

\* cancel_task, requeue (dashboard), retry_failed_task and resume_chain: what
\* each requires of a row it reads.
MayAct(h, t) ==
    \/ h = "cancel" /\ status[t] \in {"PENDING", "WAITING_HUMAN"}
    \/ h = "requeue" /\ status[t] = "FAILED"
    \/ h = "retry" /\ status[t] = "FAILED" /\ retries[t] < MaxRetries
    \/ h = "resume" /\ status[t] = "FAILED" /\ t \in Chain

\* The SELECT: one row, or for a resume every FAILED row of the chain.
Decide(h) ==
    /\ h \in Env
    /\ intent[h] = {}
    /\ \E S \in SUBSET {t \in Task : MayAct(h, t)} :
        /\ IF h = "resume" THEN S = {t \in Task : MayAct(h, t)} /\ S # {}
                           ELSE \E t \in S : S = {t}
        /\ intent' = [intent EXCEPT ![h] = S]
    /\ Commanded(IF h = "retry" THEN 0 ELSE 1)
    /\ UNCHANGED <<rowVars, procVars, gate, history>>

\* cancel_task's UPDATE: FAILED, no cascade.
Cancel ==
    /\ Unlocked
    /\ intent["cancel"] # {}
    /\ status' = With(intent["cancel"], "FAILED")
    /\ intent' = [intent EXCEPT !["cancel"] = {}]
    /\ UNCHANGED <<owner, retries, matched, procVars, commands, gate,
                   history>>

\* The UPDATE of requeue_task and of retry_failed_task, which also counts.
Reopen(h) ==
    /\ h \in {"requeue", "retry"}
    /\ Unlocked
    /\ intent[h] # {}
    /\ status' = With(intent[h], "PENDING")
    /\ owner' = Owned(intent[h], None)
    /\ retries' = IF h = "retry" THEN Counted(intent[h]) ELSE retries
    /\ reopened' = reopened \cup intent[h]
    /\ intent' = [intent EXCEPT ![h] = {}]
    /\ UNCHANGED <<matched, procVars, commands, gate, completed, fit, seized,
                   slipped>>

\* The dashboard's two cancel endpoints: the UPDATE repeats the PENDING test.
Unqueue(t) ==
    /\ "unqueue" \in Env
    /\ Unlocked
    /\ status[t] = "PENDING"
    /\ status' = With({t}, "FAILED")
    /\ Commanded(1)
    /\ UNCHANGED <<owner, retries, matched, procVars, intent, gate, history>>

\* Mutant: resume promotes every WAITING task of the chain.
ResumePromotesAll ==
    /\ Unlocked
    /\ intent["resume"] # {}
    /\ LET failed == intent["resume"]
           promoted == {t \in Chain : status[t] = "WAITING"}
       IN  /\ status' = With(failed \cup promoted, "PENDING")
           /\ owner' = Owned(failed, None)
           /\ reopened' = reopened \cup failed
    /\ intent' = [intent EXCEPT !["resume"] = {}]
    /\ UNCHANGED <<retries, matched, procVars, commands, gate, completed, fit,
                   seized, slipped>>

\* resume_chain's transaction: the rows it read are PENDING again by id alone,
\* whatever their dependencies are; then it promotes, on top of that.
Resume ==
    /\ Unlocked
    /\ intent["resume"] # {}
    /\ LET failed == intent["resume"]
           promoted == {t \in Ready : Deps[t] \cap failed = {}}
       IN  /\ status' = With(failed \cup promoted, "PENDING")
           /\ owner' = Owned(failed, None)
           /\ reopened' = reopened \cup failed
    /\ intent' = [intent EXCEPT !["resume"] = {}]
    /\ UNCHANGED <<retries, matched, procVars, commands, gate, completed, fit,
                   seized, slipped>>

\* With nothing FAILED it only promotes, and reads for that before any
\* transaction; DagApply(None) writes.
ResumePromotes ==
    /\ "resume" \in Env
    /\ scan[None] = NoScan
    /\ \A t \in Chain : status[t] # "FAILED"
    /\ Ready # {}
    /\ scan' = [scan EXCEPT ![None] = Effect(Promotion)]
    /\ Commanded(1)
    /\ UNCHANGED <<rowVars, pc, cur, dagq, lostpid, intent, gate, history>>

-----------------------------------------------------------------------------
WorkerStep(w) ==
    \/ Claim(w) \/ ClaimSecond(w) \/ Complete(w) \/ Fail(w)
    \/ CommitComplete(w) \/ CommitFail(w) \/ PutBack(w)

DagStep(w) == DagScan(w) \/ DagLost(w)

SupervisorStep ==
    \/ \E w \in Worker :
        \/ Respawn(w) \/ RecoverStale(w)
        \/ RecoverAgent(w) \/ RecoverAgentKillFails(w)
    \/ BootSweep

OperatorStep ==
    \/ \E h \in Helpers : Decide(h) \/ Reopen(h)
    \/ Cancel
    \/ Resume \/ ResumePromotes
    \/ \E t \in Task : Post(t) \/ AskHuman(t) \/ Respond(t) \/ Unqueue(t)

Next ==
    \/ \E w \in Worker : WorkerStep(w) \/ DagStep(w) \/ Crash(w)
    \/ \E w \in Scanner : DagApply(w)
    \/ SupervisorStep
    \/ OperatorStep

Spec == Init /\ [][Next]_vars

\* Fairness.  A worker that is up polls, its skills return (run_skill has a
\* timeout) and its commits end; its DAG thread runs; the supervisor's sweep for
\* stale tasks is periodic.  Nobody owes the system an operator's command, a
\* crash, a kill or a respawn.  A skill is not obliged to fail or to be put back.
Fairness ==
    /\ \A w \in Worker :
        /\ WF_vars(Claim(w))
        /\ WF_vars(ClaimSecond(w) \/ Complete(w) \/ Fail(w) \/ PutBack(w))
        /\ WF_vars(CommitComplete(w) \/ CommitFail(w))
        /\ WF_vars(DagScan(w))
        /\ WF_vars(DagApply(w))
        /\ WF_vars(RecoverStale(w))

FairSpec == Spec /\ Fairness

-----------------------------------------------------------------------------
\* Properties.

\* Every variable keeps its type: the table, the processes, the rest.
RowTypes ==
    /\ status \in [Task -> Statuses]
    /\ owner \in [Task -> Worker \cup {None}]
    /\ retries \in [Task -> Nat]
    /\ matched \subseteq Task

ProcTypes ==
    /\ pc \in [Worker -> Places]
    /\ cur \in [Worker -> Task \cup {None}]
    /\ dagq \in [Worker -> SUBSET DagEvents]
    /\ scan \in [Scanner -> Scans]
    /\ lostpid \subseteq Worker

BookTypes ==
    /\ intent \in [Helpers -> SUBSET Task]
    /\ commands \in 0..MaxCommands
    /\ gate \in [Task -> Gates]
    /\ completed \subseteq Task
    /\ fit \subseteq Task
    /\ reopened \subseteq Task
    /\ seized \subseteq Task
    /\ slipped \subseteq Task

TypeOK == RowTypes /\ ProcTypes /\ BookTypes

\* Two workers execute the same task only when its FAILED row was put back by a
\* retry, a requeue or a resume, or its row was taken from a live worker by
\* recover_agent.  Crashes, stale recovery, batch claims, late DAG writes, late
\* cancels and gates closed under a running task never cause it.
UniqueExecutor ==
    \A v, w \in Worker :
        v # w /\ cur[v] = cur[w] /\ cur[w] # None
            => cur[w] \in reopened \cup seized

\* Every dependency of t has been DONE, with the result t's condition wants.
Satisfied(t) ==
    \A d \in Deps[t] : d \in completed /\ (<<d, t>> \in Cond => d \in fit)

\* A task is executed before each of its dependencies has been DONE, with the
\* result its conditions ask for, only when it was put back from FAILED.
\* Nothing else runs a task out of order: not late and repeated promotions of
\* two DAG threads, crashes, lost events or cancels.
DependenciesFirst ==
    \A w \in Worker : cur[w] # None =>
        Satisfied(cur[w]) \/ cur[w] \in reopened

\* A proposal is executed without the operator's answer only when a worker
\* claimed it between its INSERT and the UPDATE that closes its gate, or when it
\* was put back from FAILED (a cancelled proposal is FAILED).
ApprovedFirst ==
    \A w \in Worker : cur[w] # None /\ cur[w] \in Gated =>
        gate[cur[w]] = "answered" \/ cur[w] \in slipped \cup reopened

\* A task that is DONE is put back or failed only by the late write of a step
\* that had read its row before it was DONE (a promotion or cascade, an operator's
\* command, the second statement of a proposal), or because it has been reopened
\* or seized, and so may have two executors.  No sweep and no executor of its own
\* undoes it.
UndoneOnlyBy ==
    [][\A t \in Task : status[t] = "DONE" /\ status'[t] # "DONE" =>
        \/ \E w \in Scanner : t \in scan[w].rows
        \/ \E h \in Helpers : t \in intent[h]
        \/ gate[t] = "posted"
        \/ t \in reopened \cup seized]_vars

\* A row that says RUNNING and that nobody executes, nor will a sweep find it.
Stranded(t) ==
    /\ status[t] = "RUNNING"
    /\ owner[t] \in Worker => cur[owner[t]] # t /\ Up(owner[t])

\* While no batch is claimed and no worker is respawned, a RUNNING row is being
\* executed by its owner, or its owner is dead and recovery will find it.
NoStrandedRow == \A t \in Task : ~Stranded(t)

\* With batches and respawns, rows are left RUNNING behind a live owner in three
\* ways and no other: the second row of a batch claim, a respawn that comes before
\* the sweep, and a claim that fetches another row than it has claimed, which
\* takes a row that was stranded before.  The third is what claim_task's docstring
\* rules out ("to avoid returning a different RUNNING task belonging to this
\* agent"): its SELECT takes the largest RUNNING id of the agent.
StrandedOnlyBy ==
    [][\A t \in Task : Stranded(t)' /\ ~Stranded(t) =>
        /\ owner'[t] \in Worker
        /\ \/ pc[owner'[t]] \in {"batch", "down"}
           \/ pc[owner'[t]] = "idle" /\ Stranded(cur'[owner'[t]])]_vars

\* With a worker that survives, every queued task ends DONE or FAILED, also when
\* the worker that had claimed it dies and its row must be recovered first.
EveryTaskResolves ==
    \A t \in Task : status[t] = "PENDING" ~> status[t] \in {"DONE", "FAILED"}

\* complete_task's docstring: completing a task promotes the WAITING tasks that
\* depend on it (here on nothing else, so that nothing else is missing).
WaitingDependentPromoted ==
    \A w \in Worker, t \in Task :
        pc[w] = "completing" /\ status[t] = "WAITING" /\ Deps[t] = {cur[w]}
            ~> status[t] # "WAITING"

\* post_task's docstring on depends_on: task IDs that must complete first.
MustCompleteFirst == \A w \in Worker : cur[w] # None => Satisfied(cur[w])

\* worker.py's comment on the batch it claims: the rest of it is processed in
\* later iterations.
BatchRestProcessed ==
    \A t \in Task : status[t] = "RUNNING" ~> status[t] # "RUNNING"

-----------------------------------------------------------------------------
\* The queue implements the dispatcher: a reopened row may be shared and forced,
\* a row taken from a live worker may be shared.
Promise == INSTANCE Dispatch WITH
    running <- cur,
    done <- completed,
    shared <- reopened \cup seized,
    forced <- reopened

\* Whatever the rows, the DAG threads, the sweeps and the operators do, the
\* fleet behaves as Dispatch says; in particular a task is completed only by
\* the commit of the worker that executes it.
ImplementsDispatch == Promise!Spec
=============================================================================
