-------------------------- MODULE TaskQueueProofs --------------------------
(***************************************************************************)
(* Safety of the tasks table, for every number of tasks and workers, every *)
(* dependency graph and every set of events Env.  Four invariants, in the  *)
(* order of their proofs: types, one executor per task, dependencies       *)
(* first, approval first.  Each has one lemma per group of actions         *)
(* (worker, DAG thread, supervisor, operator) and one case per action.     *)
(***************************************************************************)
EXTENDS TaskQueue, FiniteSetTheorems, TLAPS

USE ConstantsAssumption DEF Statuses, Places, Helpers, Gates, Scanner

-----------------------------------------------------------------------------
(***************************************************************************)
(* Types.  The commits and the cascade event use cur[w] as a task, so the  *)
(* shape of the worker loop is part of the inductive invariant.            *)
(***************************************************************************)
LoopShape == \A w \in Worker : cur[w] = None <=> pc[w] \in {"down", "idle"}

TypeInv == TypeOK /\ LoopShape

\* A step of a worker keeps the types and the shape of its loop.
LEMMA WorkerTypes ==
    ASSUME TypeInv, NEW w \in Worker, WorkerStep(w)
    PROVE  TypeInv'
<1> USE DEF TypeInv, TypeOK
<1>1. CASE Claim(w)
  <2>1. PICK t \in ClaimPool(w) : \E r \in Fetched(w, t) :
            /\ status' = With({t}, "RUNNING")
            /\ owner' = Owned({t}, w)
            /\ cur' = [cur EXCEPT ![w] = r]
            /\ slipped' = IF gate[t] = "posted" THEN slipped \cup {t}
                                                ELSE slipped
    BY <1>1 DEF Claim
  <2>2. t \in Task /\ Fetched(w, t) \subseteq Task
    BY DEF ClaimPool, Claimable, Fetched, RunningOf
  <2>3. RowTypes'
    BY <1>1, <2>1, <2>2 DEF Claim, RowTypes, With, Owned
  <2>4. PICK r \in Task : cur' = [cur EXCEPT ![w] = r]
    BY <2>1, <2>2
  <2>5. PICK p \in {"batch", "run"} : pc' = [pc EXCEPT ![w] = p]
    BY <1>1 DEF Claim
  <2>6. LoopShape' /\ ProcTypes'
    BY <1>1, <2>4, <2>5 DEF Claim, LoopShape, ProcTypes
  <2>7. BookTypes'
    BY <1>1, <2>1, <2>2 DEF Claim, BookTypes
  <2> QED BY <2>3, <2>6, <2>7
<1>2. CASE ClaimSecond(w)
  <2>1. ClaimPool(w) \subseteq Task
    BY DEF ClaimPool, Claimable
  <2>2. RowTypes'
    BY <1>2, <2>1 DEF ClaimSecond, RowTypes, With, Owned
  <2>3. LoopShape' /\ ProcTypes'
    BY <1>2 DEF ClaimSecond, LoopShape, ProcTypes
  <2>4. slipped' = slipped \/ \E t \in ClaimPool(w) : slipped' = slipped \cup {t}
    BY <1>2, Zenon DEF ClaimSecond
  <2>5. slipped' \subseteq Task
    <3>1. slipped \subseteq Task
      BY DEF BookTypes
    <3>2. ASSUME NEW t \in ClaimPool(w), slipped' = slipped \cup {t}
          PROVE  slipped' \subseteq Task
      BY <2>1, <3>1, <3>2
    <3> QED BY <2>4, <3>1, <3>2
  <2>6. BookTypes'
    BY <1>2, <2>5 DEF ClaimSecond, BookTypes
  <2> QED BY <2>2, <2>3, <2>6
<1>3. CASE Complete(w)
  <2>1. RowTypes' /\ BookTypes'
    BY <1>3 DEF Complete, RowTypes, BookTypes, rowVars, history
  <2>2. LoopShape' /\ ProcTypes'
    BY <1>3 DEF Complete, LoopShape, ProcTypes, DagEvents
  <2> QED BY <2>1, <2>2
<1>4. CASE Fail(w)
  <2>1. RowTypes' /\ BookTypes'
    BY <1>4 DEF Fail, RowTypes, BookTypes, rowVars, history
  <2>2. cur[w] \in Task
    BY <1>4 DEF Fail, LoopShape, ProcTypes
  <2>3. LoopShape' /\ ProcTypes'
    BY <1>4, <2>2 DEF Fail, LoopShape, ProcTypes, DagEvents
  <2> QED BY <2>1, <2>3
<1>5. CASE CommitComplete(w)
  <2>1. cur[w] \in Task
    BY <1>5 DEF CommitComplete, LoopShape, ProcTypes
  <2>2. RowTypes' /\ BookTypes'
    BY <1>5, <2>1 DEF CommitComplete, RowTypes, BookTypes, With
  <2>3. LoopShape' /\ ProcTypes'
    BY <1>5 DEF CommitComplete, LoopShape, ProcTypes
  <2> QED BY <2>2, <2>3
<1>6. CASE CommitFail(w)
  <2>1. RowTypes' /\ BookTypes'
    BY <1>6 DEF CommitFail, RowTypes, BookTypes, With, history
  <2>2. LoopShape' /\ ProcTypes'
    BY <1>6 DEF CommitFail, LoopShape, ProcTypes
  <2> QED BY <2>1, <2>2
<1>7. CASE PutBack(w)
  <2>1. RowTypes' /\ BookTypes'
    BY <1>7 DEF PutBack, RowTypes, BookTypes, With, Owned, history
  <2>2. LoopShape' /\ ProcTypes'
    BY <1>7 DEF PutBack, LoopShape, ProcTypes
  <2> QED BY <2>1, <2>2
<1> QED BY <1>1, <1>2, <1>3, <1>4, <1>5, <1>6, <1>7 DEF WorkerStep

\* The rows a DAG event is about to write are tasks.
LEMMA EffectRows ==
    \A e \in DagEvents : Effect(e) \in Scans
<1> SUFFICES ASSUME NEW e \in DagEvents PROVE Effect(e) \in Scans
  OBVIOUS
<1>1. Ready \subseteq Task /\ Dependents(e.task) \subseteq Task
  BY DEF Ready, Dependents
<1> QED BY <1>1 DEF Effect, Scans

\* A step of w's DAG thread, or (w = None) the write of an operator's promotion.
DagThread(w) == (w \in Worker /\ DagStep(w)) \/ DagApply(w)

\* A step of a DAG thread keeps the types.
LEMMA DagTypes ==
    ASSUME TypeInv, NEW w \in Scanner, DagThread(w)
    PROVE  TypeInv'
<1> USE DEF TypeInv, TypeOK
<1>n. NoScan \in Scans
  BY DEF NoScan, Scans
<1>1. CASE w \in Worker /\ DagScan(w)
  <2>1. RowTypes' /\ BookTypes' /\ LoopShape'
    BY <1>1 DEF DagScan, RowTypes, BookTypes, LoopShape, rowVars, history
  <2>2. PICK e \in dagq[w] :
            /\ dagq' = [dagq EXCEPT ![w] = @ \ {e}]
            /\ scan' = [scan EXCEPT ![w] =
                           IF Effect(e).rows = {} THEN NoScan ELSE Effect(e)]
    BY <1>1 DEF DagScan
  <2>3. e \in DagEvents /\ Effect(e) \in Scans
    BY <1>1, EffectRows DEF ProcTypes
  <2>4. dagq' \in [Worker -> SUBSET DagEvents] /\ scan' \in [Scanner -> Scans]
    BY <1>n, <2>2, <2>3 DEF ProcTypes
  <2>5. ProcTypes'
    BY <1>1, <2>4 DEF DagScan, ProcTypes
  <2> QED BY <2>1, <2>5
<1>2. CASE DagApply(w)
  <2>1. scan[w].rows \subseteq Task /\ scan[w].to \in Statuses
    BY DEF ProcTypes, Scans
  <2>2. RowTypes' /\ BookTypes' /\ LoopShape'
    BY <1>2, <2>1 DEF DagApply, RowTypes, BookTypes, LoopShape, With, history
  <2>3. ProcTypes'
    BY <1>2, <1>n DEF DagApply, ProcTypes
  <2> QED BY <2>2, <2>3
<1>3. CASE w \in Worker /\ DagLost(w)
  <2>1. RowTypes' /\ BookTypes' /\ LoopShape'
    BY <1>3 DEF DagLost, RowTypes, BookTypes, LoopShape, rowVars, history
  <2>2. ProcTypes'
    BY <1>3, <1>n DEF DagLost, ProcTypes
  <2> QED BY <2>1, <2>2
<1> QED BY <1>1, <1>2, <1>3 DEF DagThread, DagStep

\* A worker that dies leaves the loop.
LEMMA DieTypes ==
    ASSUME TypeInv, NEW w \in Worker, Die(w)
    PROVE  ProcTypes' /\ LoopShape'
<1>1. NoScan \in Scans
  BY DEF NoScan, Scans
<1> QED BY <1>1 DEF TypeInv, TypeOK, ProcTypes, LoopShape, Die

\* A step of the supervisor, or a crash, keeps the types.
LEMMA SupervisorTypes ==
    ASSUME TypeInv, SupervisorStep \/ \E w \in Worker : Crash(w)
    PROVE  TypeInv'
<1> USE DEF TypeInv, TypeOK
<1>r. ASSUME NEW w \in Worker
      PROVE  RunningOf(w) \subseteq Task
  BY DEF RunningOf
<1>1. ASSUME NEW w \in Worker, Crash(w) PROVE TypeInv'
  <2>1. RowTypes' /\ BookTypes'
    BY <1>1 DEF Crash, RowTypes, BookTypes, rowVars, history
  <2> QED BY <1>1, <2>1, DieTypes DEF Crash
<1>2. ASSUME NEW w \in Worker, Respawn(w) PROVE TypeInv'
  <2>1. RowTypes' /\ BookTypes'
    BY <1>2 DEF Respawn, RowTypes, BookTypes, rowVars, history
  <2>2. ProcTypes' /\ LoopShape'
    BY <1>2 DEF Respawn, Up, ProcTypes, LoopShape
  <2> QED BY <2>1, <2>2
<1>3. ASSUME NEW w \in Worker, RecoverStale(w) PROVE TypeInv'
  <2>1. RowTypes'
    BY <1>3, <1>r DEF RecoverStale, ReleaseRows, RowTypes, With, Owned
  <2>2. seized' \subseteq Task
    BY <1>3, <1>r DEF RecoverStale, BookTypes
  <2>3. ProcTypes' /\ BookTypes' /\ LoopShape'
    BY <1>3, <2>2 DEF RecoverStale, ProcTypes, BookTypes, LoopShape, procVars
  <2> QED BY <2>1, <2>3
<1>4. ASSUME NEW w \in Worker, RecoverAgent(w) PROVE TypeInv'
  <2>1. RowTypes' /\ BookTypes'
    BY <1>4, <1>r DEF RecoverAgent, ReleaseRows, RowTypes, BookTypes, With,
                      Owned, history
  <2> QED BY <1>4, <2>1, DieTypes DEF RecoverAgent
<1>5. ASSUME NEW w \in Worker, RecoverAgentKillFails(w) PROVE TypeInv'
  <2>1. RowTypes'
    BY <1>5, <1>r DEF RecoverAgentKillFails, ReleaseRows, RowTypes, With, Owned
  <2>2. ProcTypes' /\ BookTypes' /\ LoopShape'
    BY <1>5, <1>r DEF RecoverAgentKillFails, ProcTypes, BookTypes, LoopShape
  <2> QED BY <2>1, <2>2
<1>6. CASE BootSweep
  <2>1. RowTypes'
    BY <1>6 DEF BootSweep, RowTypes, With
  <2>2. ProcTypes' /\ BookTypes' /\ LoopShape'
    BY <1>6 DEF BootSweep, ProcTypes, BookTypes, LoopShape, procVars, history
  <2> QED BY <2>1, <2>2
<1> QED BY <1>1, <1>2, <1>3, <1>4, <1>5, <1>6 DEF SupervisorStep

\* Counting a retry keeps the counters natural numbers.
LEMMA RetryCounted ==
    ASSUME RowTypes, NEW S \in SUBSET Task
    PROVE  Counted(S) \in [Task -> Nat]
<1>1. \A t \in Task : retries[t] \in Nat /\ retries[t] + 1 \in Nat
  BY DEF RowTypes
<1> QED BY <1>1 DEF Counted

\* A step of the operator or a helper keeps the types.
LEMMA OperatorTypes ==
    ASSUME TypeInv, OperatorStep
    PROVE  TypeInv'
<1> USE DEF TypeInv, TypeOK
<1>1. ASSUME UNCHANGED procVars PROVE ProcTypes' /\ LoopShape'
  BY <1>1 DEF procVars, ProcTypes, LoopShape
<1>2. ASSUME NEW t \in Task, Post(t) PROVE TypeInv'
  <2>1. RowTypes' /\ BookTypes'
    BY <1>2 DEF Post, RowTypes, BookTypes, With, Owned, history
  <2> QED BY <1>1, <1>2, <2>1 DEF Post
<1>3. ASSUME NEW t \in Task, AskHuman(t) PROVE TypeInv'
  <2>1. RowTypes' /\ BookTypes'
    BY <1>3 DEF AskHuman, RowTypes, BookTypes, With, history
  <2> QED BY <1>1, <1>3, <2>1 DEF AskHuman
<1>4. ASSUME NEW t \in Task, Respond(t) PROVE TypeInv'
  <2>1. RowTypes' /\ BookTypes'
    BY <1>4 DEF Respond, RowTypes, BookTypes, With, history
  <2> QED BY <1>1, <1>4, <2>1 DEF Respond
<1>5. ASSUME NEW t \in Task, Unqueue(t) PROVE TypeInv'
  <2>1. RowTypes' /\ BookTypes'
    BY <1>5 DEF Unqueue, RowTypes, BookTypes, With, Commanded, history
  <2> QED BY <1>1, <1>5, <2>1 DEF Unqueue
<1>6. ASSUME NEW h \in Helpers, Decide(h) PROVE TypeInv'
  <2>1. RowTypes' /\ BookTypes'
    BY <1>6 DEF Decide, RowTypes, BookTypes, Commanded, rowVars, history
  <2> QED BY <1>1, <1>6, <2>1 DEF Decide
<1>7. ASSUME NEW h \in Helpers, Reopen(h) PROVE TypeInv'
  <2>1. intent[h] \subseteq Task
    BY <1>7 DEF BookTypes
  <2>2. Counted(intent[h]) \in [Task -> Nat]
    BY <2>1, RetryCounted
  <2>3. RowTypes'
    BY <1>7, <2>2 DEF Reopen, RowTypes, With, Owned
  <2>4. BookTypes'
    BY <1>7, <2>1 DEF Reopen, BookTypes
  <2> QED BY <1>1, <1>7, <2>3, <2>4 DEF Reopen
<1>8. CASE Cancel
  <2>1. RowTypes' /\ BookTypes'
    BY <1>8 DEF Cancel, RowTypes, BookTypes, With, history
  <2> QED BY <1>1, <1>8, <2>1 DEF Cancel
<1>9. CASE Resume
  <2>1. intent["resume"] \subseteq Task /\ Ready \subseteq Task
    BY DEF Ready, BookTypes
  <2>2. RowTypes'
    BY <1>9, <2>1 DEF Resume, RowTypes, With, Owned
  <2>3. BookTypes'
    BY <1>9, <2>1 DEF Resume, BookTypes
  <2> QED BY <1>1, <1>9, <2>2, <2>3 DEF Resume
<1>10. CASE ResumePromotes
  <2>1. RowTypes' /\ BookTypes' /\ LoopShape'
    BY <1>10 DEF ResumePromotes, RowTypes, BookTypes, LoopShape, Commanded,
                 rowVars, history
  <2>2. Effect(Promotion) \in Scans
    BY EffectRows DEF DagEvents
  <2>3. ProcTypes'
    BY <1>10, <2>2 DEF ResumePromotes, ProcTypes
  <2> QED BY <2>1, <2>3
<1> QED BY <1>2, <1>3, <1>4, <1>5, <1>6, <1>7, <1>8, <1>9, <1>10
        DEF OperatorStep

\* The types hold initially.
LEMMA TypeInit == Init => TypeInv
BY DEF Init, TypeInv, TypeOK, RowTypes, ProcTypes, BookTypes, LoopShape,
       NoScan, Scans

\* No step breaks the types.
LEMMA TypeStep == TypeInv /\ [Next]_vars => TypeInv'
<1> SUFFICES ASSUME TypeInv, [Next]_vars PROVE TypeInv'
  OBVIOUS
<1>1. CASE Next
  BY <1>1, WorkerTypes, DagTypes, SupervisorTypes, OperatorTypes
     DEF Next, DagThread
<1>2. CASE UNCHANGED vars
  BY <1>2 DEF vars, TypeInv, TypeOK, RowTypes, ProcTypes, BookTypes, LoopShape
<1> QED BY <1>1, <1>2

\* Every variable of the queue keeps its type: every status is one that
\* db_tasks.py writes, and a commit always has a task to write.
THEOREM TypeCorrect == Spec => []TypeOK
<1>1. TypeInv => TypeOK
  BY DEF TypeInv
<1> QED BY <1>1, TypeInit, TypeStep, PTL DEF Spec

-----------------------------------------------------------------------------
(***************************************************************************)
(* What every step does.                                                   *)
(***************************************************************************)

\* w's UPDATE takes the claimable row t.
Takes(w, t) ==
    /\ status[t] = "PENDING" /\ owner[t] \in {w, None}
    /\ status' = [u \in Task |-> IF u = t THEN "RUNNING" ELSE status[u]]
    /\ owner' = [u \in Task |-> IF u = t THEN w ELSE owner[u]]
    /\ gate[t] = "posted" => t \in slipped'
    /\ slipped \subseteq slipped'

\* The claim's UPDATE, spelt out row by row.
LEMMA TakesRow ==
    ASSUME NEW w \in Worker, NEW t \in ClaimPool(w),
           status' = With({t}, "RUNNING"),
           owner' = Owned({t}, w),
           slipped' = IF gate[t] = "posted" THEN slipped \cup {t} ELSE slipped
    PROVE  t \in Task /\ Takes(w, t)
<1>1. t \in Task /\ status[t] = "PENDING" /\ owner[t] \in {w, None}
  BY DEF ClaimPool, Claimable
<1>2. /\ status' = [u \in Task |-> IF u = t THEN "RUNNING" ELSE status[u]]
      /\ owner' = [u \in Task |-> IF u = t THEN w ELSE owner[u]]
  BY DEF With, Owned
<1>3. (gate[t] = "posted" => t \in slipped') /\ slipped \subseteq slipped'
  OBVIOUS
<1> QED BY <1>1, <1>2, <1>3 DEF Takes

\* A claim takes one row, and the worker executes that row or another RUNNING
\* row of its own.
LEMMA ClaimStep ==
    ASSUME NEW w \in Worker, Claim(w)
    PROVE  \E t \in Task, r \in Task :
              /\ Takes(w, t)
              /\ r = t \/ (status[r] = "RUNNING" /\ owner[r] = w)
              /\ cur' = [cur EXCEPT ![w] = r]
<1>1. PICK t \in ClaimPool(w) : \E r \in Fetched(w, t) :
          /\ status' = With({t}, "RUNNING")
          /\ owner' = Owned({t}, w)
          /\ cur' = [cur EXCEPT ![w] = r]
          /\ slipped' = IF gate[t] = "posted" THEN slipped \cup {t} ELSE slipped
  BY DEF Claim
<1>2. PICK r \in Fetched(w, t) : cur' = [cur EXCEPT ![w] = r]
  BY <1>1
<1>3. t \in Task /\ Takes(w, t)
  BY <1>1, TakesRow
<1>4. r \in Task /\ (r = t \/ (status[r] = "RUNNING" /\ owner[r] = w))
  BY <1>3 DEF Fetched, RunningOf
<1> QED BY <1>2, <1>3, <1>4

\* The second round of a batch takes a row or finds none.
LEMMA ClaimSecondStep ==
    ASSUME NEW w \in Worker, ClaimSecond(w)
    PROVE  \/ status' = status /\ owner' = owner /\ slipped' = slipped
           \/ \E t \in Task : Takes(w, t)
<1>1. \/ status' = status /\ owner' = owner /\ slipped' = slipped
      \/ \E t \in ClaimPool(w) :
            /\ status' = With({t}, "RUNNING")
            /\ owner' = Owned({t}, w)
            /\ slipped' = IF gate[t] = "posted" THEN slipped \cup {t}
                                                ELSE slipped
  BY DEF ClaimSecond
<1> QED BY <1>1, TakesRow

\* The rows of w after they were released.
LEMMA ReleaseStep ==
    ASSUME NEW w \in Worker, ReleaseRows(w)
    PROVE  \A t \in Task :
              LET released == status[t] = "RUNNING" /\ owner[t] = w
              IN  /\ status'[t] = IF released THEN "PENDING" ELSE status[t]
                  /\ owner'[t] = IF released THEN None ELSE owner[t]
BY DEF ReleaseRows, RunningOf, With, Owned

\* A row that was inserted stays, and the histories only grow.
Grows ==
    /\ \A t \in Task : status[t] # "ABSENT" => status'[t] # "ABSENT"
    /\ completed \subseteq completed'
    /\ fit \subseteq fit'
    /\ reopened \subseteq reopened'
    /\ seized \subseteq seized'
    /\ slipped \subseteq slipped'

\* Worker steps, DAG steps and crashes only add to the histories.
LEMMA WorkerGrows ==
    ASSUME TypeInv, NEW w \in Worker, WorkerStep(w) \/ DagStep(w) \/ Crash(w)
    PROVE  Grows
<1> USE DEF Grows
<1>t. ASSUME NEW t \in Task, Takes(w, t)
      PROVE  /\ \A u \in Task : status[u] # "ABSENT" => status'[u] # "ABSENT"
             /\ slipped \subseteq slipped'
  BY <1>t DEF Takes
<1>1. CASE Claim(w)
  BY <1>1, <1>t, ClaimStep DEF Claim
<1>2. CASE ClaimSecond(w)
  BY <1>2, <1>t, ClaimSecondStep DEF ClaimSecond
<1>3. CASE Complete(w) \/ Fail(w) \/ DagScan(w) \/ DagLost(w) \/ Crash(w)
  BY <1>3 DEF Complete, Fail, DagScan, DagLost, Crash, rowVars, history
<1>4. CASE CommitComplete(w)
  BY <1>4 DEF CommitComplete, With
<1>5. CASE CommitFail(w)
  BY <1>5 DEF CommitFail, With, history
<1>6. CASE PutBack(w)
  BY <1>6 DEF PutBack, With, history
<1> QED BY <1>1, <1>2, <1>3, <1>4, <1>5, <1>6 DEF WorkerStep, DagStep

\* So does the write of a DAG event.
LEMMA ApplyGrows ==
    ASSUME TypeInv, NEW w \in Scanner, DagApply(w)
    PROVE  Grows
<1>1. scan[w].to # "ABSENT"
  BY DEF TypeInv, TypeOK, ProcTypes, Scans
<1> QED BY <1>1 DEF DagApply, With, history, Grows

\* So do the supervisor's steps.
LEMMA SupervisorGrows ==
    ASSUME TypeInv, SupervisorStep
    PROVE  Grows
<1> USE DEF Grows
<1>r. ASSUME NEW w \in Worker, ReleaseRows(w)
      PROVE  \A t \in Task : status[t] # "ABSENT" => status'[t] # "ABSENT"
  BY <1>r DEF ReleaseRows, With
<1>1. ASSUME NEW w \in Worker, Respawn(w) PROVE Grows
  BY <1>1 DEF Respawn, rowVars, history
<1>2. ASSUME NEW w \in Worker, RecoverStale(w) PROVE Grows
  BY <1>2, <1>r DEF RecoverStale
<1>3. ASSUME NEW w \in Worker, RecoverAgent(w) PROVE Grows
  BY <1>3, <1>r DEF RecoverAgent, history
<1>4. ASSUME NEW w \in Worker, RecoverAgentKillFails(w) PROVE Grows
  BY <1>4, <1>r DEF RecoverAgentKillFails
<1>5. CASE BootSweep
  BY <1>5 DEF BootSweep, With, history
<1> QED BY <1>1, <1>2, <1>3, <1>4, <1>5 DEF SupervisorStep

\* So do the operator's steps.
LEMMA OperatorGrows ==
    ASSUME TypeInv, OperatorStep
    PROVE  Grows
<1> USE DEF Grows
<1>1. ASSUME NEW t \in Task, Post(t) \/ AskHuman(t) \/ Respond(t) \/ Unqueue(t)
      PROVE  Grows
  BY <1>1 DEF Post, AskHuman, Respond, Unqueue, With, history
<1>2. ASSUME NEW h \in Helpers, Decide(h) PROVE Grows
  BY <1>2 DEF Decide, rowVars, history
<1>3. ASSUME NEW h \in Helpers, Reopen(h) PROVE Grows
  BY <1>3 DEF Reopen, With
<1>4. CASE Cancel
  BY <1>4 DEF Cancel, With, history
<1>5. CASE Resume
  BY <1>5 DEF Resume, With
<1>6. CASE ResumePromotes
  BY <1>6 DEF ResumePromotes, rowVars, history
<1> QED BY <1>1, <1>2, <1>3, <1>4, <1>5, <1>6 DEF OperatorStep

\* So does every step.
LEMMA StepGrows ==
    ASSUME TypeInv, [Next]_vars
    PROVE  Grows
<1>1. CASE Next
  BY <1>1, WorkerGrows, ApplyGrows, SupervisorGrows, OperatorGrows DEF Next
<1>2. CASE UNCHANGED vars
  BY <1>2 DEF vars, Grows
<1> QED BY <1>1, <1>2

-----------------------------------------------------------------------------
(***************************************************************************)
(* One executor per task.  A row's assigned_to names the one worker that   *)
(* may be executing it, for as long as nobody reopened or seized it; every *)
(* claim, release and reset keeps that link.                               *)
(***************************************************************************)
Excused(t) == t \in reopened \/ t \in seized

OwnedByExecutor ==
    \A w \in Worker : cur[w] # None =>
        status[cur[w]] # "ABSENT" /\ (owner[cur[w]] = w \/ Excused(cur[w]))

\* Enough for a step: what is executed afterwards was executed before, by the
\* same worker, and its row changes hands only with an excuse.
LEMMA ExecutorKept ==
    ASSUME TypeInv, TypeInv', OwnedByExecutor, Grows,
           \A w \in Worker : cur'[w] \in {cur[w], None},
           \A t \in Task, w \in Worker :
               owner[t] = w /\ cur'[w] = t /\ status[t] # "ABSENT"
                   => owner'[t] = w \/ Excused(t)'
    PROVE  OwnedByExecutor'
<1> SUFFICES ASSUME NEW w \in Worker, cur'[w] # None
             PROVE  /\ status'[cur'[w]] # "ABSENT"
                    /\ owner'[cur'[w]] = w \/ Excused(cur[w])'
  BY DEF OwnedByExecutor, Excused
<1>1. cur'[w] = cur[w] /\ cur[w] \in Task
  BY DEF TypeInv, TypeOK, ProcTypes
<1>2. status[cur[w]] # "ABSENT" /\ (owner[cur[w]] = w \/ Excused(cur[w]))
  BY <1>1 DEF OwnedByExecutor
<1>3. status'[cur[w]] # "ABSENT" /\ (Excused(cur[w]) => Excused(cur[w])')
  BY <1>1, <1>2 DEF Grows, Excused
<1> QED BY <1>1, <1>2, <1>3 DEF Excused

\* A worker's step keeps the link between row and executor.
LEMMA WorkerExecutor ==
    ASSUME TypeInv, TypeInv', OwnedByExecutor, Grows,
           NEW w \in Worker, WorkerStep(w)
    PROVE  OwnedByExecutor'
<1> USE DEF TypeInv, TypeOK, ProcTypes, RowTypes
<1>1. CASE Claim(w)
  <2>1. PICK t \in Task, r \in Task :
            /\ Takes(w, t)
            /\ r = t \/ (status[r] = "RUNNING" /\ owner[r] = w)
            /\ cur' = [cur EXCEPT ![w] = r]
    BY <1>1, ClaimStep
  <2>2. owner'[r] = w /\ status'[r] # "ABSENT"
    BY <2>1 DEF Takes
  <2>3. ASSUME NEW v \in Worker, v # w, cur[v] # None
        PROVE  status'[cur[v]] # "ABSENT" /\ (owner'[cur[v]] = v \/ Excused(cur[v])')
    BY <2>1, <2>3 DEF OwnedByExecutor, Takes, Grows, Excused
  <2> QED BY <2>1, <2>2, <2>3 DEF OwnedByExecutor, Excused
<1>2. CASE ClaimSecond(w)
  <2>1. cur' = cur
    BY <1>2 DEF ClaimSecond
  <2>2. ASSUME NEW t \in Task, NEW v \in Worker, owner[t] = v
        PROVE  owner'[t] = v
    <3>1. CASE owner' = owner
      BY <2>2, <3>1
    <3>2. ASSUME NEW u \in Task, Takes(w, u) PROVE owner'[t] = v
      BY <2>2, <3>2 DEF Takes
    <3> QED BY <1>2, <3>1, <3>2, ClaimSecondStep
  <2> QED BY <2>1, <2>2, ExecutorKept
<1>3. CASE Complete(w) \/ Fail(w)
  BY <1>3, ExecutorKept DEF Complete, Fail, rowVars
<1>4. CASE CommitComplete(w) \/ CommitFail(w)
  BY <1>4, ExecutorKept DEF CommitComplete, CommitFail
<1>5. CASE PutBack(w)
  <2>1. cur' = [cur EXCEPT ![w] = None]
    BY <1>5 DEF PutBack
  <2>2. ASSUME NEW t \in Task, NEW v \in Worker, owner[t] = v, cur'[v] = t
        PROVE  owner'[t] = v \/ Excused(t)
    <3>1. v # w /\ cur[v] = t
      BY <2>1, <2>2
    <3>2. CASE cur[w] = t
      BY <2>2, <3>1, <3>2 DEF OwnedByExecutor
    <3>3. CASE cur[w] # t
      BY <1>5, <2>2, <3>3 DEF PutBack, Owned
    <3> QED BY <3>2, <3>3
  <2>3. \A t \in Task : Excused(t) => Excused(t)'
    BY DEF Grows, Excused
  <2> QED BY <2>1, <2>2, <2>3, ExecutorKept
<1> QED BY <1>1, <1>2, <1>3, <1>4, <1>5 DEF WorkerStep

\* A DAG thread writes no assigned_to.
LEMMA DagExecutor ==
    ASSUME TypeInv, TypeInv', OwnedByExecutor, Grows,
           NEW w \in Scanner, DagThread(w)
    PROVE  OwnedByExecutor'
BY ExecutorKept DEF DagThread, DagStep, DagScan, DagApply, DagLost, rowVars

\* A released row has lost its executor, or is seized.
LEMMA SupervisorExecutor ==
    ASSUME TypeInv, TypeInv', OwnedByExecutor, Grows,
           SupervisorStep \/ \E w \in Worker : Crash(w)
    PROVE  OwnedByExecutor'
<1> USE DEF TypeInv, TypeOK, ProcTypes, RowTypes
<1>1. ASSUME NEW w \in Worker, Crash(w) PROVE OwnedByExecutor'
  BY <1>1, ExecutorKept DEF Crash, Die, rowVars
<1>2. ASSUME NEW w \in Worker, Respawn(w) PROVE OwnedByExecutor'
  BY <1>2, ExecutorKept DEF Respawn, rowVars
<1>r. ASSUME NEW w \in Worker, ReleaseRows(w),
             NEW t \in Task, NEW v \in Worker, owner[t] = v
      PROVE  owner'[t] = v \/ (v = w /\ t \in RunningOf(w))
  BY <1>r DEF ReleaseRows, Owned, RunningOf
<1>3. ASSUME NEW w \in Worker, RecoverStale(w) PROVE OwnedByExecutor'
  <2>1. cur' = cur /\ ReleaseRows(w)
    BY <1>3 DEF RecoverStale, procVars
  <2>2. Up(w) => RunningOf(w) \subseteq seized'
    BY <1>3 DEF RecoverStale
  <2>3. ~Up(w) => cur[w] = None
    BY DEF Up, LoopShape
  <2>4. ASSUME NEW t \in Task, NEW v \in Worker, owner[t] = v, cur'[v] = t
        PROVE  owner'[t] = v \/ Excused(t)'
    BY <1>r, <2>1, <2>2, <2>3, <2>4 DEF Excused
  <2> QED BY <2>1, <2>4, ExecutorKept
<1>4. ASSUME NEW w \in Worker, RecoverAgent(w) PROVE OwnedByExecutor'
  <2>1. cur' = [cur EXCEPT ![w] = None] /\ ReleaseRows(w)
    BY <1>4 DEF RecoverAgent, Die
  <2>2. ASSUME NEW t \in Task, NEW v \in Worker, owner[t] = v, cur'[v] = t
        PROVE  owner'[t] = v
    BY <1>r, <2>1, <2>2
  <2> QED BY <2>1, <2>2, ExecutorKept
<1>5. ASSUME NEW w \in Worker, RecoverAgentKillFails(w) PROVE OwnedByExecutor'
  <2>1. cur' = cur /\ ReleaseRows(w) /\ RunningOf(w) \subseteq seized'
    BY <1>5 DEF RecoverAgentKillFails
  <2>2. ASSUME NEW t \in Task, NEW v \in Worker, owner[t] = v
        PROVE  owner'[t] = v \/ Excused(t)'
    BY <1>r, <2>1, <2>2 DEF Excused
  <2> QED BY <2>1, <2>2, ExecutorKept
<1>6. CASE BootSweep
  BY <1>6, ExecutorKept DEF BootSweep, procVars
<1> QED BY <1>1, <1>2, <1>3, <1>4, <1>5, <1>6 DEF SupervisorStep

\* A row the operator unassigns is reopened.
LEMMA OperatorExecutor ==
    ASSUME TypeInv, TypeInv', OwnedByExecutor, Grows, OperatorStep
    PROVE  OwnedByExecutor'
<1> USE DEF TypeInv, TypeOK, ProcTypes, RowTypes
<1>1. ASSUME NEW t \in Task, Post(t) PROVE OwnedByExecutor'
  BY <1>1, ExecutorKept DEF Post, Owned, procVars
<1>2. ASSUME NEW t \in Task, AskHuman(t) \/ Respond(t) \/ Unqueue(t)
      PROVE  OwnedByExecutor'
  BY <1>2, ExecutorKept DEF AskHuman, Respond, Unqueue, procVars
<1>3. ASSUME NEW h \in Helpers, Decide(h) PROVE OwnedByExecutor'
  BY <1>3, ExecutorKept DEF Decide, rowVars, procVars
<1>4. ASSUME NEW h \in Helpers, Reopen(h) PROVE OwnedByExecutor'
  BY <1>4, ExecutorKept DEF Reopen, Owned, procVars, Excused
<1>5. CASE Cancel
  BY <1>5, ExecutorKept DEF Cancel, procVars
<1>6. CASE Resume
  BY <1>6, ExecutorKept DEF Resume, Owned, procVars, Excused
<1>7. CASE ResumePromotes
  BY <1>7, ExecutorKept DEF ResumePromotes, rowVars
<1> QED BY <1>1, <1>2, <1>3, <1>4, <1>5, <1>6, <1>7 DEF OperatorStep

\* No task is executed by two workers at once, unless its FAILED row was put
\* back or its row was taken from a worker that was not killed: crashes,
\* respawns, stale recovery and late DAG writes never duplicate an execution.
THEOREM OneExecutor == Spec => []UniqueExecutor
<1> DEFINE Inv == TypeInv /\ OwnedByExecutor
<1>1. Init => Inv
  BY TypeInit DEF Init, OwnedByExecutor
<1>2. Inv /\ [Next]_vars => Inv'
  <2> SUFFICES ASSUME Inv, [Next]_vars PROVE Inv'
    OBVIOUS
  <2>1. TypeInv' /\ Grows
    BY TypeStep, StepGrows
  <2>2. CASE Next
    BY <2>1, <2>2, WorkerExecutor, DagExecutor, SupervisorExecutor,
       OperatorExecutor DEF Next, DagThread
  <2>3. CASE UNCHANGED vars
    BY <2>1, <2>3 DEF vars, OwnedByExecutor, Excused
  <2> QED BY <2>1, <2>2, <2>3
<1>3. Inv => UniqueExecutor
  BY DEF OwnedByExecutor, UniqueExecutor, Excused
<1> QED BY <1>1, <1>2, <1>3, PTL DEF Spec

-----------------------------------------------------------------------------
(***************************************************************************)
(* Dependencies first.  A row that is or may become runnable has earned    *)
(* it: its dependencies have been DONE with what its conditions ask, or it *)
(* was put back from FAILED.  The DAG thread's stale reading keeps that,   *)
(* because the histories only grow.                                        *)
(***************************************************************************)
Earned(t) == Satisfied(t) \/ t \in reopened

RowsEarned ==
    \A t \in Task :
        status[t] \in {"PENDING", "RUNNING", "WAITING_HUMAN"} => Earned(t)
ExecutionsEarned == \A w \in Worker : cur[w] # None => Earned(cur[w])
ScansEarned ==
    \A w \in Scanner :
        scan[w].to = "PENDING" => \A t \in scan[w].rows : Earned(t)
DoneRecorded ==
    /\ \A t \in Task : status[t] = "DONE" => t \in completed
    /\ matched \subseteq fit
ProposalsFree == \A t \in Task : gate[t] = "posted" => Deps[t] = {}

OrderInv ==
    /\ RowsEarned /\ ExecutionsEarned /\ ScansEarned
    /\ DoneRecorded /\ ProposalsFree

\* What was earned stays earned.
LEMMA EarnedKept ==
    ASSUME Grows, NEW t \in Task, Earned(t)
    PROVE  Earned(t)'
BY DEF Grows, Earned, Satisfied

\* A task without dependencies has earned its run.
LEMMA FreeEarned ==
    ASSUME NEW t \in Task, Deps[t] = {}
    PROVE  Earned(t) /\ Earned(t)'
BY DEF Earned, Satisfied

\* The rows a promotion finds ready have earned it.
LEMMA ReadyEarned ==
    ASSUME DoneRecorded, NEW t \in Ready
    PROVE  t \in Task /\ Earned(t)
<1>1. t \in Task /\ Deps[t] \subseteq Task
  BY DEF Ready
<1>2. ASSUME NEW d \in Deps[t]
      PROVE  d \in completed /\ (<<d, t>> \in Cond => d \in fit)
  BY <1>1 DEF Ready, DoneRecorded
<1> QED BY <1>1, <1>2 DEF Earned, Satisfied

\* A worker only executes and puts back rows that have earned it.
LEMMA WorkerOrder ==
    ASSUME TypeInv, TypeInv', OrderInv, Grows, NEW w \in Worker, WorkerStep(w)
    PROVE  OrderInv'
<1> USE EarnedKept DEF TypeInv, TypeOK, ProcTypes, RowTypes, OrderInv
<1>t. ASSUME NEW t \in Task, Takes(w, t), UNCHANGED <<completed, matched, fit>>
      PROVE  RowsEarned' /\ DoneRecorded'
  BY <1>t DEF Takes, RowsEarned, DoneRecorded
<1>s. ASSUME UNCHANGED scan PROVE ScansEarned'
  BY <1>s DEF ScansEarned, Scans
<1>g. ASSUME UNCHANGED gate PROVE ProposalsFree'
  BY <1>g DEF ProposalsFree
<1>1. CASE Claim(w)
  <2>1. PICK t \in Task, r \in Task :
            /\ Takes(w, t)
            /\ r = t \/ (status[r] = "RUNNING" /\ owner[r] = w)
            /\ cur' = [cur EXCEPT ![w] = r]
    BY <1>1, ClaimStep
  <2>2. RowsEarned' /\ DoneRecorded'
    BY <1>1, <1>t, <2>1 DEF Claim
  <2>3. Earned(r)
    BY <2>1 DEF Takes, RowsEarned
  <2>4. ExecutionsEarned'
    BY <2>1, <2>3 DEF ExecutionsEarned
  <2> QED BY <1>1, <1>s, <1>g, <2>2, <2>4 DEF Claim
<1>2. CASE ClaimSecond(w)
  <2>1. RowsEarned' /\ DoneRecorded'
    <3>1. CASE status' = status
      BY <1>2, <3>1 DEF ClaimSecond, RowsEarned, DoneRecorded
    <3> QED BY <1>2, <1>t, <3>1, ClaimSecondStep DEF ClaimSecond
  <2>2. ExecutionsEarned'
    BY <1>2 DEF ClaimSecond, ExecutionsEarned
  <2> QED BY <1>2, <1>s, <1>g, <2>1, <2>2 DEF ClaimSecond
<1>3. CASE Complete(w) \/ Fail(w)
  <2>1. UNCHANGED <<status, matched, completed, fit, cur, scan, gate>>
    BY <1>3 DEF Complete, Fail, rowVars, history
  <2>2. RowsEarned' /\ DoneRecorded' /\ ExecutionsEarned'
    BY <2>1 DEF RowsEarned, DoneRecorded, ExecutionsEarned
  <2> QED BY <1>s, <1>g, <2>1, <2>2
<1>4. CASE CommitComplete(w)
  <2>1. DoneRecorded'
    BY <1>4 DEF CommitComplete, DoneRecorded, With
  <2>2. RowsEarned' /\ ExecutionsEarned'
    BY <1>4 DEF CommitComplete, RowsEarned, ExecutionsEarned, With
  <2> QED BY <1>4, <1>s, <1>g, <2>1, <2>2 DEF CommitComplete
<1>5. CASE CommitFail(w)
  <2>1. RowsEarned' /\ DoneRecorded' /\ ExecutionsEarned'
    BY <1>5 DEF CommitFail, RowsEarned, DoneRecorded, ExecutionsEarned, With,
                history
  <2> QED BY <1>5, <1>s, <1>g, <2>1 DEF CommitFail
<1>6. CASE PutBack(w)
  <2>1. cur[w] \in Task /\ Earned(cur[w])
    BY <1>6 DEF PutBack, LoopShape, ExecutionsEarned
  <2>2. RowsEarned'
    BY <1>6, <2>1 DEF PutBack, RowsEarned, With
  <2>3. DoneRecorded'
    BY <1>6 DEF PutBack, DoneRecorded, With, history
  <2>4. ExecutionsEarned'
    BY <1>6 DEF PutBack, ExecutionsEarned
  <2> QED BY <1>6, <1>s, <1>g, <2>2, <2>3, <2>4 DEF PutBack
<1> QED BY <1>1, <1>2, <1>3, <1>4, <1>5, <1>6 DEF WorkerStep

\* A promotion, however late, writes rows that have earned it.
LEMMA DagOrder ==
    ASSUME TypeInv, TypeInv', OrderInv, Grows, NEW w \in Scanner, DagThread(w)
    PROVE  OrderInv'
<1> USE EarnedKept DEF TypeInv, TypeOK, ProcTypes, RowTypes, OrderInv
<1>1. ASSUME UNCHANGED status, UNCHANGED <<cur, matched, completed, fit, gate>>
      PROVE  RowsEarned' /\ ExecutionsEarned' /\ DoneRecorded' /\ ProposalsFree'
  BY <1>1 DEF RowsEarned, ExecutionsEarned, DoneRecorded, ProposalsFree
<1>s. ASSUME scan' = [scan EXCEPT ![w] = NoScan] PROVE ScansEarned'
  <2> SUFFICES ASSUME NEW v \in Scanner, scan'[v].to = "PENDING",
                      NEW t \in scan'[v].rows
               PROVE  Earned(t)'
    BY DEF ScansEarned
  <2>1. scan'[v] = scan[v] /\ t \in Task
    BY <1>s DEF NoScan, Scans
  <2> QED BY <2>1 DEF ScansEarned
<1>2. CASE w \in Worker /\ DagScan(w)
  <2>1. PICK e \in dagq[w] :
            scan' = [scan EXCEPT ![w] =
                        IF Effect(e).rows = {} THEN NoScan ELSE Effect(e)]
    BY <1>2 DEF DagScan
  <2>2. Effect(e).to = "PENDING" => Effect(e).rows = Ready
    BY DEF Effect
  <2>3. \A t \in Ready : t \in Task /\ Earned(t)
    BY ReadyEarned
  <2>4. NoScan.rows = {}
    BY DEF NoScan
  <2>5. ScansEarned'
    <3> SUFFICES ASSUME NEW v \in Scanner, scan'[v].to = "PENDING",
                        NEW t \in scan'[v].rows
                 PROVE  Earned(t)'
      BY DEF ScansEarned
    <3>1. t \in Task
      BY DEF Scans
    <3>2. CASE v # w
      BY <2>1, <3>1, <3>2 DEF ScansEarned
    <3>3. CASE v = w
      BY <2>1, <2>2, <2>3, <2>4, <3>3
    <3> QED BY <3>2, <3>3
  <2> QED BY <1>1, <1>2, <2>5 DEF DagScan, rowVars, history
<1>3. CASE DagApply(w)
  <2>1. scan[w].to \in {"PENDING", "FAILED"} /\ scan[w].rows \subseteq Task
    BY DEF Scans
  <2>2. RowsEarned'
    BY <1>3, <2>1 DEF DagApply, RowsEarned, ScansEarned, With
  <2>3. DoneRecorded'
    BY <1>3, <2>1 DEF DagApply, DoneRecorded, With, history
  <2>4. ScansEarned'
    BY <1>3, <1>s DEF DagApply
  <2>5. ExecutionsEarned' /\ ProposalsFree'
    BY <1>3 DEF DagApply, ExecutionsEarned, ProposalsFree
  <2> QED BY <2>2, <2>3, <2>4, <2>5
<1>4. CASE w \in Worker /\ DagLost(w)
  <2>1. ScansEarned'
    BY <1>4, <1>s DEF DagLost
  <2> QED BY <1>1, <1>4, <2>1 DEF DagLost, rowVars, history
<1> QED BY <1>2, <1>3, <1>4 DEF DagThread, DagStep


\* Recovery releases rows that were running.
LEMMA SupervisorOrder ==
    ASSUME TypeInv, TypeInv', OrderInv, Grows,
           SupervisorStep \/ \E w \in Worker : Crash(w)
    PROVE  OrderInv'
<1> USE EarnedKept DEF TypeInv, TypeOK, ProcTypes, RowTypes, OrderInv
<1>s. ASSUME UNCHANGED <<scan, gate>> PROVE ScansEarned' /\ ProposalsFree'
  BY <1>s DEF ScansEarned, Scans, ProposalsFree
<1>d. ASSUME NEW w \in Worker, Die(w)
      PROVE  ExecutionsEarned' /\ ScansEarned'
  <2>1. ExecutionsEarned'
    BY <1>d DEF Die, ExecutionsEarned
  <2>2. ASSUME NEW v \in Scanner, NEW t \in scan'[v].rows
        PROVE  scan'[v] = scan[v] /\ t \in Task
    BY <1>d, <2>2 DEF Die, NoScan, Scans
  <2> QED BY <2>1, <2>2 DEF ScansEarned
<1>r. ASSUME NEW w \in Worker, ReleaseRows(w),
             UNCHANGED <<matched, completed, fit>>
      PROVE  RowsEarned' /\ DoneRecorded'
  BY <1>r DEF ReleaseRows, RunningOf, With, RowsEarned, DoneRecorded
<1>1. ASSUME NEW w \in Worker, Crash(w) PROVE OrderInv'
  <2>1. RowsEarned' /\ DoneRecorded' /\ ProposalsFree'
    BY <1>1 DEF Crash, RowsEarned, DoneRecorded, ProposalsFree, rowVars, history
  <2> QED BY <1>1, <1>d, <2>1 DEF Crash
<1>2. ASSUME NEW w \in Worker, Respawn(w) PROVE OrderInv'
  <2>1. RowsEarned' /\ DoneRecorded' /\ ExecutionsEarned'
    BY <1>2 DEF Respawn, RowsEarned, DoneRecorded, ExecutionsEarned, rowVars,
                history
  <2> QED BY <1>2, <1>s, <2>1 DEF Respawn
<1>3. ASSUME NEW w \in Worker, RecoverStale(w) PROVE OrderInv'
  <2>1. RowsEarned' /\ DoneRecorded'
    BY <1>3, <1>r DEF RecoverStale
  <2>2. ExecutionsEarned'
    BY <1>3 DEF RecoverStale, ExecutionsEarned, procVars
  <2> QED BY <1>3, <1>s, <2>1, <2>2 DEF RecoverStale, procVars
<1>4. ASSUME NEW w \in Worker, RecoverAgent(w) PROVE OrderInv'
  <2>1. RowsEarned' /\ DoneRecorded'
    BY <1>4, <1>r DEF RecoverAgent, history
  <2>2. ProposalsFree'
    BY <1>4 DEF RecoverAgent, ProposalsFree
  <2> QED BY <1>4, <1>d, <2>1, <2>2 DEF RecoverAgent
<1>5. ASSUME NEW w \in Worker, RecoverAgentKillFails(w) PROVE OrderInv'
  <2>1. RowsEarned' /\ DoneRecorded'
    BY <1>5, <1>r DEF RecoverAgentKillFails
  <2>2. ExecutionsEarned'
    BY <1>5 DEF RecoverAgentKillFails, ExecutionsEarned
  <2> QED BY <1>5, <1>s, <2>1, <2>2 DEF RecoverAgentKillFails
<1>6. CASE BootSweep
  <2>1. RowsEarned' /\ DoneRecorded'
    BY <1>6 DEF BootSweep, RowsEarned, DoneRecorded, With, history
  <2>2. ExecutionsEarned'
    BY <1>6 DEF BootSweep, ExecutionsEarned, procVars
  <2> QED BY <1>6, <1>s, <2>1, <2>2 DEF BootSweep, procVars
<1> QED BY <1>1, <1>2, <1>3, <1>4, <1>5, <1>6 DEF SupervisorStep

\* The operator's steps reopen rows, or write earned ones.
LEMMA OperatorOrder ==
    ASSUME TypeInv, TypeInv', OrderInv, Grows, OperatorStep
    PROVE  OrderInv'
<1> USE EarnedKept DEF TypeInv, TypeOK, ProcTypes, RowTypes, OrderInv
<1>p. ASSUME UNCHANGED procVars PROVE ExecutionsEarned' /\ ScansEarned'
  BY <1>p DEF procVars, ExecutionsEarned, ScansEarned, Scans
<1>1. ASSUME NEW t \in Task, Post(t) PROVE OrderInv'
  <2>1. RowsEarned'
    BY <1>1, FreeEarned DEF Post, RowsEarned, With
  <2>2. DoneRecorded'
    BY <1>1 DEF Post, DoneRecorded, With, history
  <2>3. ProposalsFree'
    BY <1>1 DEF Post, ProposalsFree, BookTypes
  <2> QED BY <1>1, <1>p, <2>1, <2>2, <2>3 DEF Post
<1>2. ASSUME NEW t \in Task, AskHuman(t) PROVE OrderInv'
  <2>1. Deps[t] = {}
    BY <1>2 DEF AskHuman, ProposalsFree
  <2>2. RowsEarned'
    BY <1>2, <2>1, FreeEarned DEF AskHuman, RowsEarned, With
  <2>3. DoneRecorded' /\ ProposalsFree'
    BY <1>2 DEF AskHuman, DoneRecorded, ProposalsFree, BookTypes, With, history
  <2> QED BY <1>2, <1>p, <2>2, <2>3 DEF AskHuman
<1>3. ASSUME NEW t \in Task, Respond(t) PROVE OrderInv'
  <2>1. RowsEarned'
    BY <1>3 DEF Respond, RowsEarned, With
  <2>2. DoneRecorded' /\ ProposalsFree'
    BY <1>3 DEF Respond, DoneRecorded, ProposalsFree, BookTypes, With, history
  <2> QED BY <1>3, <1>p, <2>1, <2>2 DEF Respond
<1>4. ASSUME NEW t \in Task, Unqueue(t) PROVE OrderInv'
  <2>1. RowsEarned' /\ DoneRecorded' /\ ProposalsFree'
    BY <1>4 DEF Unqueue, RowsEarned, DoneRecorded, ProposalsFree, With, history
  <2> QED BY <1>4, <1>p, <2>1 DEF Unqueue
<1>5. ASSUME NEW h \in Helpers, Decide(h) PROVE OrderInv'
  <2>1. RowsEarned' /\ DoneRecorded' /\ ProposalsFree'
    BY <1>5 DEF Decide, RowsEarned, DoneRecorded, ProposalsFree, rowVars, history
  <2> QED BY <1>5, <1>p, <2>1 DEF Decide
<1>6. ASSUME NEW h \in Helpers, Reopen(h) PROVE OrderInv'
  <2>1. \A t \in intent[h] : Earned(t)'
    BY <1>6 DEF Reopen, Earned
  <2>2. RowsEarned'
    BY <1>6, <2>1 DEF Reopen, RowsEarned, With
  <2>3. DoneRecorded' /\ ProposalsFree'
    BY <1>6 DEF Reopen, DoneRecorded, ProposalsFree, With
  <2> QED BY <1>6, <1>p, <2>2, <2>3 DEF Reopen
<1>7. CASE Cancel
  <2>1. RowsEarned' /\ DoneRecorded' /\ ProposalsFree'
    BY <1>7 DEF Cancel, RowsEarned, DoneRecorded, ProposalsFree, With, history
  <2> QED BY <1>7, <1>p, <2>1 DEF Cancel
<1>8. CASE Resume
  <2>1. \A t \in intent["resume"] : Earned(t)'
    BY <1>8 DEF Resume, Earned
  <2>2. \A t \in Ready : t \in Task /\ Earned(t)
    BY ReadyEarned
  <2>3. PICK S \in SUBSET Ready : status' = With(intent["resume"] \cup S, "PENDING")
    BY <1>8 DEF Resume
  <2>4. RowsEarned'
    BY <2>1, <2>2, <2>3 DEF RowsEarned, With
  <2>5. DoneRecorded' /\ ProposalsFree'
    BY <1>8, <2>3 DEF Resume, DoneRecorded, ProposalsFree, With
  <2> QED BY <1>8, <1>p, <2>4, <2>5 DEF Resume
<1>9. CASE ResumePromotes
  <2>1. RowsEarned' /\ DoneRecorded' /\ ProposalsFree' /\ ExecutionsEarned'
    BY <1>9 DEF ResumePromotes, RowsEarned, DoneRecorded, ProposalsFree,
                ExecutionsEarned, rowVars, history
  <2>2. Effect(Promotion).rows = Ready
    BY DEF Effect
  <2>3. \A t \in Ready : t \in Task /\ Earned(t)
    BY ReadyEarned
  <2>4. scan' = [scan EXCEPT ![None] = Effect(Promotion)]
    BY <1>9 DEF ResumePromotes
  <2>5. ScansEarned'
    <3> SUFFICES ASSUME NEW v \in Scanner, scan'[v].to = "PENDING",
                        NEW t \in scan'[v].rows
                 PROVE  Earned(t)'
      BY DEF ScansEarned
    <3>1. t \in Task
      BY DEF Scans
    <3>2. CASE v # None
      BY <2>4, <3>1, <3>2 DEF ScansEarned
    <3>3. CASE v = None
      BY <2>2, <2>3, <2>4, <3>3
    <3> QED BY <3>2, <3>3
  <2> QED BY <2>1, <2>5
<1> QED BY <1>1, <1>2, <1>3, <1>4, <1>5, <1>6, <1>7, <1>8, <1>9 DEF OperatorStep

\* No step breaks the order.
LEMMA OrderStep == TypeInv /\ OrderInv /\ [Next]_vars => OrderInv'
<1> SUFFICES ASSUME TypeInv, OrderInv, [Next]_vars PROVE OrderInv'
  OBVIOUS
<1>1. TypeInv' /\ Grows
  BY TypeStep, StepGrows
<1>2. CASE Next
  BY <1>1, <1>2, WorkerOrder, DagOrder, SupervisorOrder, OperatorOrder
     DEF Next, DagThread
<1>3. CASE UNCHANGED vars
  BY <1>3 DEF vars, OrderInv, RowsEarned, ExecutionsEarned, ScansEarned,
              DoneRecorded, ProposalsFree, Earned, Satisfied
<1> QED BY <1>2, <1>3

\* The order holds initially.
LEMMA OrderInit == Init => OrderInv
BY DEF Init, OrderInv, RowsEarned, ExecutionsEarned, ScansEarned, DoneRecorded,
       ProposalsFree, NoScan

\* Whatever the interleaving of commits, DAG threads, crashes and sweeps, a task
\* is executed only after all its dependencies have been DONE with the results
\* its conditions ask for, or because it was put back from FAILED.
THEOREM DependenciesRespected == Spec => []DependenciesFirst
<1> DEFINE Inv == TypeInv /\ OrderInv
<1>1. Init => Inv
  BY TypeInit, OrderInit
<1>2. Inv /\ [Next]_vars => Inv'
  BY TypeStep, OrderStep
<1>3. Inv => DependenciesFirst
  BY DEF OrderInv, ExecutionsEarned, Earned, DependenciesFirst
<1> QED BY <1>1, <1>2, <1>3, PTL DEF Spec

-----------------------------------------------------------------------------
(***************************************************************************)
(* Approval first.  Until the operator has answered, a proposal can only   *)
(* be in a status that nobody executes from, unless it slipped through the *)
(* gap between its INSERT and its UPDATE or was put back from FAILED.      *)
(***************************************************************************)
Waived(t) == gate[t] = "answered" \/ t \in slipped \/ t \in reopened

Held ==
    \A t \in Gated : ~Waived(t) =>
        /\ gate[t] = "open" => status[t] = "ABSENT"
        /\ gate[t] = "posted" => status[t] \in {"PENDING", "FAILED"}
        /\ gate[t] = "asked" => status[t] \in {"WAITING_HUMAN", "FAILED"}
ExecutionsWaived ==
    \A w \in Worker : cur[w] # None /\ cur[w] \in Gated => Waived(cur[w])
WaitersDepend == \A t \in Task : status[t] = "WAITING" => Deps[t] # {}
ScansDepend == \A w \in Scanner : \A t \in scan[w].rows : Deps[t] # {}
GateAfterPost ==
    /\ \A t \in Task : status[t] = "ABSENT" => gate[t] = "open"
    /\ \A t \in intent["cancel"] : status[t] # "ABSENT"

GateInv ==
    /\ Held /\ ExecutionsWaived
    /\ WaitersDepend /\ ScansDepend /\ GateAfterPost

\* The gate of one task is untouched, or answered.
LEMMA WaivedKept ==
    ASSUME Grows, NEW t, Waived(t), gate'[t] \in {gate[t], "answered"}
    PROVE  Waived(t)'
BY DEF Grows, Waived

\* Nobody holds a proposal whose gate is closed.
LEMMA RunnableWaived ==
    ASSUME TypeInv, Held, NEW t \in Gated,
           status[t] \in {"RUNNING", "DONE"}
    PROVE  Waived(t)
<1>1. t \in Task /\ gate[t] \in Gates
  BY DEF TypeInv, TypeOK, BookTypes
<1>2. CASE gate[t] = "answered"
  BY <1>2 DEF Waived
<1>3. CASE gate[t] # "answered"
  BY <1>1, <1>3 DEF Held
<1> QED BY <1>2, <1>3

\* A worker's step keeps closed gates closed.
LEMMA WorkerGate ==
    ASSUME TypeInv, TypeInv', GateInv, Grows, NEW w \in Worker, WorkerStep(w)
    PROVE  GateInv'
<1> USE DEF TypeInv, TypeOK, ProcTypes, RowTypes, BookTypes, GateInv
<1>g. gate' = gate /\ intent' = intent /\ scan' = scan
  BY DEF WorkerStep, Claim, ClaimSecond, Complete, Fail, CommitComplete,
         CommitFail, PutBack
<1>w. \A t \in Task : Waived(t) => Waived(t)'
  BY <1>g, WaivedKept
<1>s. ScansDepend' /\ GateAfterPost'
  BY <1>g DEF ScansDepend, GateAfterPost, Grows
<1>t. ASSUME NEW t \in Task, Takes(w, t)
      PROVE  Held' /\ WaitersDepend' /\ (t \in Gated => Waived(t)')
  <2>1. t \in Gated => Waived(t)'
    BY <1>g, <1>t, <1>w DEF Takes, Held, Waived
  <2>2. Held'
    BY <1>g, <1>w, <1>t, <2>1 DEF Takes, Held
  <2>3. WaitersDepend'
    BY <1>t DEF Takes, WaitersDepend
  <2> QED BY <2>1, <2>2, <2>3
<1>1. CASE Claim(w)
  <2>1. PICK t \in Task, r \in Task :
            /\ Takes(w, t)
            /\ r = t \/ (status[r] = "RUNNING" /\ owner[r] = w)
            /\ cur' = [cur EXCEPT ![w] = r]
    BY <1>1, ClaimStep
  <2>2. r \in Gated => Waived(r)'
    BY <1>t, <1>w, <2>1, RunnableWaived
  <2>3. ExecutionsWaived'
    BY <1>w, <2>1, <2>2 DEF ExecutionsWaived
  <2> QED BY <1>s, <1>t, <2>1, <2>3
<1>2. CASE ClaimSecond(w)
  <2>1. ExecutionsWaived'
    BY <1>2, <1>w DEF ClaimSecond, ExecutionsWaived
  <2>2. Held' /\ WaitersDepend'
    <3>1. CASE status' = status
      BY <1>g, <1>w, <3>1 DEF Held, WaitersDepend
    <3> QED BY <1>2, <1>t, <3>1, ClaimSecondStep
  <2> QED BY <1>s, <2>1, <2>2
<1>3. CASE Complete(w) \/ Fail(w)
  <2>1. UNCHANGED <<status, cur>>
    BY <1>3 DEF Complete, Fail, rowVars
  <2>2. Held' /\ WaitersDepend' /\ ExecutionsWaived'
    BY <1>g, <1>w, <2>1 DEF Held, WaitersDepend, ExecutionsWaived
  <2> QED BY <1>s, <2>2
<1>4. CASE CommitComplete(w) \/ CommitFail(w) \/ PutBack(w)
  <2>1. cur[w] \in Task /\ (cur[w] \in Gated => Waived(cur[w]))
    BY <1>4 DEF CommitComplete, CommitFail, PutBack, LoopShape, ExecutionsWaived
  <2>2. PICK s \in {"DONE", "FAILED", "PENDING"} : status' = With({cur[w]}, s)
    BY <1>4 DEF CommitComplete, CommitFail, PutBack
  <2>3. cur' = [cur EXCEPT ![w] = None]
    BY <1>4 DEF CommitComplete, CommitFail, PutBack
  <2>4. Held'
    BY <1>g, <1>w, <2>1, <2>2 DEF Held, With
  <2>5. WaitersDepend'
    BY <2>2 DEF WaitersDepend, With
  <2>6. ExecutionsWaived'
    BY <1>w, <2>3 DEF ExecutionsWaived
  <2> QED BY <1>s, <2>4, <2>5, <2>6
<1> QED BY <1>1, <1>2, <1>3, <1>4 DEF WorkerStep

\* A DAG thread writes tasks with dependencies, so no proposal.
LEMMA DagGate ==
    ASSUME TypeInv, TypeInv', GateInv, Grows, NEW w \in Scanner, DagThread(w)
    PROVE  GateInv'
<1> USE DEF TypeInv, TypeOK, ProcTypes, RowTypes, BookTypes, GateInv
<1>g. gate' = gate /\ intent' = intent /\ cur' = cur
  BY DEF DagThread, DagStep, DagScan, DagApply, DagLost
<1>w. \A t \in Task : Waived(t) => Waived(t)'
  BY <1>g, WaivedKept
<1>s. GateAfterPost' /\ ExecutionsWaived'
  BY <1>g, <1>w DEF GateAfterPost, ExecutionsWaived, Grows
<1>n. NoScan.rows = {}
  BY DEF NoScan
<1>1. CASE w \in Worker /\ DagScan(w)
  <2>1. Held' /\ WaitersDepend'
    BY <1>1, <1>g, <1>w DEF DagScan, Held, WaitersDepend, rowVars
  <2>2. PICK e \in dagq[w] :
            scan' = [scan EXCEPT ![w] =
                        IF Effect(e).rows = {} THEN NoScan ELSE Effect(e)]
    BY <1>1 DEF DagScan
  <2>3. \A t \in Effect(e).rows : t \in Task /\ Deps[t] # {}
    BY DEF Effect, Ready, Dependents, WaitersDepend
  <2>4. ScansDepend'
    BY <1>n, <2>2, <2>3 DEF ScansDepend
  <2> QED BY <1>s, <2>1, <2>4
<1>2. CASE DagApply(w)
  <2>1. \A t \in scan[w].rows : t \in Task /\ t \notin Gated
    BY DEF ScansDepend, Scans
  <2>2. scan[w].to \in {"PENDING", "FAILED"}
    BY DEF Scans
  <2>3. status' = With(scan[w].rows, scan[w].to)
        /\ scan' = [scan EXCEPT ![w] = NoScan]
    BY <1>2 DEF DagApply
  <2>4. Held'
    BY <1>g, <1>w, <2>1, <2>3 DEF Held, With
  <2>5. WaitersDepend'
    BY <2>2, <2>3 DEF WaitersDepend, With
  <2>6. ScansDepend'
    BY <1>n, <2>3 DEF ScansDepend
  <2> QED BY <1>s, <2>4, <2>5, <2>6
<1>3. CASE w \in Worker /\ DagLost(w)
  <2>1. Held' /\ WaitersDepend'
    BY <1>3, <1>g, <1>w DEF DagLost, Held, WaitersDepend, rowVars
  <2>2. ScansDepend'
    BY <1>3, <1>n DEF DagLost, ScansDepend
  <2> QED BY <1>s, <2>1, <2>2
<1> QED BY <1>1, <1>2, <1>3 DEF DagThread, DagStep


\* Recovery writes rows that were running.
LEMMA SupervisorGate ==
    ASSUME TypeInv, TypeInv', GateInv, Grows,
           SupervisorStep \/ \E w \in Worker : Crash(w)
    PROVE  GateInv'
<1> USE DEF TypeInv, TypeOK, ProcTypes, RowTypes, BookTypes, GateInv
<1>g. gate' = gate /\ intent'["cancel"] = intent["cancel"]
  BY DEF SupervisorStep, Crash, Respawn, RecoverStale, RecoverAgent,
         RecoverAgentKillFails, BootSweep
<1>w. \A t \in Task : Waived(t) => Waived(t)'
  BY <1>g, WaivedKept
<1>a. GateAfterPost'
  BY <1>g DEF GateAfterPost, Grows
<1>p. ASSUME UNCHANGED <<cur, scan>> PROVE ExecutionsWaived' /\ ScansDepend'
  BY <1>p, <1>w DEF ExecutionsWaived, ScansDepend
<1>d. ASSUME NEW w \in Worker, Die(w) PROVE ExecutionsWaived' /\ ScansDepend'
  <2>1. ExecutionsWaived'
    BY <1>d, <1>w DEF Die, ExecutionsWaived
  <2>2. ScansDepend'
    BY <1>d DEF Die, NoScan, ScansDepend
  <2> QED BY <2>1, <2>2
<1>r. ASSUME NEW S \in SUBSET {t \in Task : status[t] = "RUNNING"},
             NEW s \in {"PENDING", "FAILED"}, status' = With(S, s)
      PROVE  Held' /\ WaitersDepend'
  <2>1. \A t \in S : t \in Gated => Waived(t)'
    BY <1>w, RunnableWaived
  <2>2. Held'
    BY <1>g, <1>r, <1>w, <2>1 DEF Held, With
  <2>3. WaitersDepend'
    BY <1>r DEF WaitersDepend, With
  <2> QED BY <2>2, <2>3
<1>u. ASSUME NEW w \in Worker
      PROVE  RunningOf(w) \in SUBSET {t \in Task : status[t] = "RUNNING"}
  BY DEF RunningOf
<1>1. ASSUME NEW w \in Worker, Crash(w) PROVE GateInv'
  <2>1. Held' /\ WaitersDepend'
    BY <1>1, <1>g, <1>w DEF Crash, Held, WaitersDepend, rowVars
  <2> QED BY <1>1, <1>a, <1>d, <2>1 DEF Crash
<1>2. ASSUME NEW w \in Worker, Respawn(w) PROVE GateInv'
  <2>1. Held' /\ WaitersDepend'
    BY <1>2, <1>g, <1>w DEF Respawn, Held, WaitersDepend, rowVars
  <2> QED BY <1>2, <1>a, <1>p, <2>1 DEF Respawn
<1>3. ASSUME NEW w \in Worker, RecoverStale(w) PROVE GateInv'
  BY <1>3, <1>a, <1>p, <1>r, <1>u DEF RecoverStale, ReleaseRows, procVars
<1>4. ASSUME NEW w \in Worker, RecoverAgent(w) PROVE GateInv'
  BY <1>4, <1>a, <1>d, <1>r, <1>u DEF RecoverAgent, ReleaseRows
<1>5. ASSUME NEW w \in Worker, RecoverAgentKillFails(w) PROVE GateInv'
  BY <1>5, <1>a, <1>p, <1>r, <1>u DEF RecoverAgentKillFails, ReleaseRows
<1>6. CASE BootSweep
  BY <1>6, <1>a, <1>p, <1>r DEF BootSweep, procVars
<1> QED BY <1>1, <1>2, <1>3, <1>4, <1>5, <1>6 DEF SupervisorStep

\* The operator's steps open a gate, or reopen a row.
LEMMA OperatorGate ==
    ASSUME TypeInv, TypeInv', GateInv, Grows, OperatorStep
    PROVE  GateInv'
<1> USE DEF TypeInv, TypeOK, ProcTypes, RowTypes, BookTypes, GateInv
<1>0. cur' = cur
  BY DEF OperatorStep, Post, AskHuman, Respond, Unqueue, Decide, Reopen, Cancel,
         Resume, ResumePromotes, procVars
<1>s. ScansDepend'
  <2>1. CASE scan' = scan
    BY <2>1 DEF ScansDepend
  <2>2. CASE ResumePromotes
    <3>1. Effect(Promotion).rows = Ready
      BY DEF Effect
    <3>2. \A t \in Ready : Deps[t] # {}
      BY DEF Ready, WaitersDepend
    <3>3. scan' = [scan EXCEPT ![None] = Effect(Promotion)]
      BY <2>2 DEF ResumePromotes
    <3> QED BY <3>1, <3>2, <3>3 DEF ScansDepend
  <2> QED BY <2>1, <2>2 DEF OperatorStep, Post, AskHuman, Respond, Unqueue,
                            Decide, Reopen, Cancel, Resume, procVars
<1>1. ASSUME NEW t \in Task, Post(t) PROVE GateInv'
  <2>1. \A w \in Worker : cur[w] = t /\ t \in Gated => Waived(t)'
    BY <1>1, WaivedKept DEF Post, ExecutionsWaived, GateAfterPost, Waived, Grows
  <2>2. ExecutionsWaived'
    <3>1. ASSUME NEW u \in Task, u # t PROVE gate'[u] = gate[u]
      BY <1>1, <3>1 DEF Post
    <3>2. ASSUME NEW u \in Task, u # t, Waived(u) PROVE Waived(u)'
      BY <3>1, <3>2 DEF Waived, Grows
    <3>3. ASSUME NEW w \in Worker, cur[w] # None, cur[w] \in Gated
          PROVE  Waived(cur[w])'
      <4>1. CASE cur[w] = t
        BY <1>0, <2>1, <3>3, <4>1 DEF Waived
      <4>2. CASE cur[w] # t
        BY <1>0, <3>2, <3>3, <4>2 DEF ExecutionsWaived, Waived
      <4> QED BY <4>1, <4>2
    <3> QED BY <1>0, <3>3 DEF ExecutionsWaived
  <2>3. Held'
    BY <1>1 DEF Post, Held, With, Waived, Grows
  <2>4. WaitersDepend'
    BY <1>1 DEF Post, WaitersDepend, With
  <2>5. GateAfterPost'
    BY <1>1 DEF Post, GateAfterPost, With
  <2> QED BY <1>s, <2>2, <2>3, <2>4, <2>5
<1>2. ASSUME NEW t \in Task, AskHuman(t) PROVE GateInv'
  <2>1. ExecutionsWaived'
    BY <1>0, <1>2 DEF AskHuman, ExecutionsWaived, Waived, Grows
  <2>2. Held'
    BY <1>2 DEF AskHuman, Held, With, Waived, Grows
  <2>3. WaitersDepend'
    BY <1>2 DEF AskHuman, WaitersDepend, With
  <2>4. GateAfterPost'
    BY <1>2 DEF AskHuman, GateAfterPost, With
  <2> QED BY <1>s, <2>1, <2>2, <2>3, <2>4
<1>3. ASSUME NEW t \in Task, Respond(t) PROVE GateInv'
  <2>1. ExecutionsWaived'
    BY <1>0, <1>3 DEF Respond, ExecutionsWaived, Waived, Grows
  <2>2. Held'
    BY <1>3 DEF Respond, Held, With, Waived, Grows
  <2>3. WaitersDepend'
    BY <1>3 DEF Respond, WaitersDepend, With
  <2>4. GateAfterPost'
    BY <1>3 DEF Respond, GateAfterPost, With
  <2> QED BY <1>s, <2>1, <2>2, <2>3, <2>4
<1>w. ASSUME gate' = gate PROVE \A t \in Task : Waived(t) => Waived(t)'
  BY <1>w, WaivedKept
<1>e. ASSUME gate' = gate PROVE ExecutionsWaived'
  BY <1>0, <1>e, <1>w DEF ExecutionsWaived
<1>4. ASSUME NEW t \in Task, Unqueue(t) PROVE GateInv'
  <2>1. Held'
    BY <1>4, <1>w DEF Unqueue, Held, With
  <2>2. WaitersDepend' /\ GateAfterPost'
    BY <1>4 DEF Unqueue, WaitersDepend, GateAfterPost, With
  <2> QED BY <1>4, <1>s, <1>e, <2>1, <2>2 DEF Unqueue
<1>5. ASSUME NEW h \in Helpers, Decide(h) PROVE GateInv'
  <2>1. Held' /\ WaitersDepend'
    BY <1>5, <1>w DEF Decide, Held, WaitersDepend, rowVars
  <2>2. GateAfterPost'
    BY <1>5 DEF Decide, MayAct, GateAfterPost, rowVars
  <2> QED BY <1>5, <1>s, <1>e, <2>1, <2>2 DEF Decide
<1>6. ASSUME NEW h \in Helpers, Reopen(h) PROVE GateInv'
  <2>1. \A t \in intent[h] : Waived(t)'
    BY <1>6 DEF Reopen, Waived
  <2>2. Held'
    BY <1>6, <1>w, <2>1 DEF Reopen, Held, With
  <2>3. WaitersDepend'
    BY <1>6 DEF Reopen, WaitersDepend, With
  <2>4. GateAfterPost'
    BY <1>6 DEF Reopen, GateAfterPost, With
  <2> QED BY <1>6, <1>s, <1>e, <2>2, <2>3, <2>4 DEF Reopen
<1>7. CASE Cancel
  <2>1. Held'
    BY <1>7, <1>w DEF Cancel, Held, GateAfterPost, With
  <2>2. WaitersDepend' /\ GateAfterPost'
    BY <1>7 DEF Cancel, WaitersDepend, GateAfterPost, With
  <2> QED BY <1>7, <1>s, <1>e, <2>1, <2>2 DEF Cancel
<1>8. CASE Resume
  <2>1. PICK S \in SUBSET Ready :
            status' = With(intent["resume"] \cup S, "PENDING")
    BY <1>8 DEF Resume
  <2>g. gate' = gate /\ intent'["cancel"] = intent["cancel"]
    BY <1>8 DEF Resume
  <2>2. \A t \in intent["resume"] : Waived(t)'
    BY <1>8 DEF Resume, Waived
  <2>3. \A t \in Ready : t \in Task /\ t \notin Gated
    BY DEF Ready, WaitersDepend
  <2>4. Held'
    BY <1>w, <2>g, <2>1, <2>2, <2>3 DEF Held, With
  <2>5. WaitersDepend' /\ GateAfterPost'
    BY <2>g, <2>1 DEF WaitersDepend, GateAfterPost, With
  <2> QED BY <1>s, <1>e, <2>g, <2>4, <2>5
<1>9. CASE ResumePromotes
  <2>1. Held' /\ WaitersDepend' /\ GateAfterPost'
    BY <1>9, <1>w DEF ResumePromotes, Held, WaitersDepend, GateAfterPost,
                      rowVars
  <2> QED BY <1>9, <1>s, <1>e, <2>1 DEF ResumePromotes
<1> QED BY <1>1, <1>2, <1>3, <1>4, <1>5, <1>6, <1>7, <1>8, <1>9 DEF OperatorStep

\* No step breaks the gates.
LEMMA GateStep == TypeInv /\ GateInv /\ [Next]_vars => GateInv'
<1> SUFFICES ASSUME TypeInv, GateInv, [Next]_vars PROVE GateInv'
  OBVIOUS
<1>1. TypeInv' /\ Grows
  BY TypeStep, StepGrows
<1>2. CASE Next
  BY <1>1, <1>2, WorkerGate, DagGate, SupervisorGate, OperatorGate
     DEF Next, DagThread
<1>3. CASE UNCHANGED vars
  BY <1>3 DEF vars, GateInv, Held, ExecutionsWaived, WaitersDepend, ScansDepend,
              GateAfterPost, Waived
<1> QED BY <1>2, <1>3

\* The gates hold initially.
LEMMA GateInit == Init => GateInv
BY DEF Init, GateInv, Held, ExecutionsWaived, WaitersDepend, ScansDepend,
       GateAfterPost, NoScan

\* A proposal that nobody has approved is executed only when a worker took it
\* before its gate was closed, or when it was put back from FAILED.
THEOREM ApprovalRespected == Spec => []ApprovedFirst
<1> DEFINE Inv == TypeInv /\ GateInv
<1>1. Init => Inv
  BY TypeInit, GateInit
<1>2. Inv /\ [Next]_vars => Inv'
  BY TypeStep, GateStep
<1>3. Inv => ApprovedFirst
  BY DEF GateInv, ExecutionsWaived, Waived, ApprovedFirst
<1> QED BY <1>1, <1>2, <1>3, PTL DEF Spec
-----------------------------------------------------------------------------
(***************************************************************************)
(* The queue implements Dispatch.  A claim is a Start, because the two     *)
(* invariants above hold after it; a commit of complete_task is a Finish;  *)
(* what ends an execution otherwise is an Abandon; every other step leaves *)
(* the executions alone, and at most gives licences.                       *)
(***************************************************************************)
DispatchInv == TypeInv /\ OrderInv /\ OwnedByExecutor

\* A step that changes no execution gives licences, or none.
LEMMA LicenseStep ==
    ASSUME TypeInv', Grows, UNCHANGED <<cur, completed, fit>>
    PROVE  Promise!License
<1>1. reopened \subseteq reopened' /\ seized \subseteq seized'
  BY DEF Grows
<1>2. reopened' \subseteq Task /\ seized' \subseteq Task
  BY DEF TypeInv, TypeOK, BookTypes
<1> QED BY <1>1, <1>2 DEF Promise!License

\* A step after which w executes nothing, and has completed nothing.
LEMMA AbandonStep ==
    ASSUME TypeInv, TypeInv', Grows, NEW w \in Worker,
           cur' = [cur EXCEPT ![w] = None],
           UNCHANGED <<completed, fit, reopened, seized>>
    PROVE  Promise!Next
<1>1. CASE cur[w] = None
  <2>1. cur' = cur
    BY <1>1 DEF TypeInv, TypeOK, ProcTypes
  <2> QED BY <2>1, LicenseStep DEF Promise!Next
<1>2. CASE cur[w] # None
  <2>1. Promise!Abandon(w)
    BY <1>2 DEF Promise!Abandon
  <2> QED BY <2>1 DEF Promise!Next
<1> QED BY <1>1, <1>2

\* A claim starts a task that is nobody else's, or licensed, and ready.
LEMMA StartStep ==
    ASSUME TypeInv, TypeInv', OrderInv', OwnedByExecutor',
           NEW w \in Worker, Claim(w)
    PROVE  Promise!Next
<1> USE DEF TypeInv, TypeOK, ProcTypes
<1>1. PICK t \in Task, r \in Task :
            /\ Takes(w, t)
            /\ r = t \/ (status[r] = "RUNNING" /\ owner[r] = w)
            /\ cur' = [cur EXCEPT ![w] = r]
  BY ClaimStep
<1>2. cur[w] = None /\ r # None /\ cur'[w] = r
  BY <1>1 DEF Claim, LoopShape
<1>3. UNCHANGED <<completed, fit, reopened, seized>>
  BY DEF Claim
<1>4. ASSUME NEW v \in Worker, cur[v] = r
      PROVE  r \in reopened \cup seized
  <2>1. v # w /\ cur'[v] = r
    BY <1>1, <1>2, <1>4
  <2>2. owner'[r] = v \/ Excused(r)'
    BY <2>1 DEF OwnedByExecutor
  <2>3. owner'[r] = w \/ Excused(r)'
    BY <1>2 DEF OwnedByExecutor
  <2> QED BY <1>3, <2>1, <2>2, <2>3 DEF Excused
<1>5. Promise!Alone(r) \/ r \in reopened \cup seized
  BY <1>4 DEF Promise!Alone
<1>6. Earned(r)'
  BY <1>2 DEF OrderInv, ExecutionsEarned
<1>7. Promise!Ready(r) \/ r \in reopened
  BY <1>3, <1>6 DEF Promise!Ready, Earned, Satisfied
<1>8. Promise!Start(w, r)
  BY <1>1, <1>2, <1>3, <1>5, <1>7 DEF Promise!Start
<1> QED BY <1>8 DEF Promise!Next

\* A worker's step starts, finishes or abandons a task, or changes nothing that
\* Dispatch sees.
LEMMA WorkerDispatch ==
    ASSUME TypeInv, TypeInv', OrderInv', OwnedByExecutor', Grows,
           NEW w \in Worker, WorkerStep(w)
    PROVE  Promise!Next
<1>1. CASE Claim(w)
  BY <1>1, StartStep
<1>2. CASE ClaimSecond(w) \/ Complete(w) \/ Fail(w)
  <2>1. UNCHANGED <<cur, completed, fit>>
    BY <1>2 DEF ClaimSecond, Complete, Fail, history
  <2> QED BY <2>1, LicenseStep DEF Promise!Next
<1>3. CASE CommitComplete(w)
  <2>1. cur[w] # None
    BY <1>3 DEF CommitComplete, TypeInv, LoopShape
  <2>2. UNCHANGED <<reopened, seized>>
    BY <1>3 DEF CommitComplete
  <2>3. /\ completed' = completed \cup {cur[w]}
        /\ cur' = [cur EXCEPT ![w] = None]
        /\ fit' \in {fit, fit \cup {cur[w]}}
    BY <1>3 DEF CommitComplete
  <2>4. Promise!Finish(w)
    BY <2>1, <2>2, <2>3 DEF Promise!Finish
  <2> QED BY <2>4 DEF Promise!Next
<1>4. CASE CommitFail(w) \/ PutBack(w)
  <2>1. /\ cur' = [cur EXCEPT ![w] = None]
        /\ UNCHANGED <<completed, fit, reopened, seized>>
    BY <1>4 DEF CommitFail, PutBack, history
  <2> QED BY <2>1, AbandonStep
<1> QED BY <1>1, <1>2, <1>3, <1>4 DEF WorkerStep

\* A crash and a kill abandon a task; no other step of a supervisor, an operator
\* or a DAG thread touches an execution.
LEMMA OtherDispatch ==
    ASSUME TypeInv, TypeInv', Grows,
           \/ \E w \in Worker : Crash(w)
           \/ \E w \in Scanner : DagThread(w)
           \/ SupervisorStep
           \/ OperatorStep
    PROVE  Promise!Next
<1>1. ASSUME NEW w \in Worker, Crash(w) \/ RecoverAgent(w) PROVE Promise!Next
  <2>1. /\ cur' = [cur EXCEPT ![w] = None]
        /\ UNCHANGED <<completed, fit, reopened, seized>>
    BY <1>1 DEF Crash, RecoverAgent, Die, history
  <2> QED BY <2>1, AbandonStep
<1>2. ASSUME UNCHANGED <<cur, completed, fit>> PROVE Promise!Next
  BY <1>2, LicenseStep DEF Promise!Next
<1>3. ASSUME NEW w \in Scanner, DagThread(w) PROVE Promise!Next
  BY <1>2, <1>3 DEF DagThread, DagStep, DagScan, DagApply, DagLost, history
<1>4. CASE SupervisorStep
  BY <1>1, <1>2, <1>4 DEF SupervisorStep, Respawn, RecoverStale,
     RecoverAgentKillFails, BootSweep, procVars, history
<1>5. CASE OperatorStep
  BY <1>2, <1>5 DEF OperatorStep, Decide, Reopen, Cancel, Resume,
     ResumePromotes, Post, AskHuman, Respond, Unqueue, procVars, history
<1> QED BY <1>1, <1>3, <1>4, <1>5

\* The tasks table, its workers, DAG threads, sweeps and operators implement
\* Dispatch, for every number of tasks and workers and every dependency graph.
THEOREM QueueImplementsDispatch == Spec => ImplementsDispatch
<1>1. Init => DispatchInv
  BY TypeInit, OrderInit DEF DispatchInv, Init, OwnedByExecutor
<1>2. Init => Promise!Init
  BY DEF Init, Promise!Init
<1>3. DispatchInv /\ [Next]_vars => DispatchInv' /\ [Promise!Next]_(Promise!vars)
  <2> SUFFICES ASSUME DispatchInv, [Next]_vars
               PROVE  DispatchInv' /\ [Promise!Next]_(Promise!vars)
    OBVIOUS
  <2>1. TypeInv' /\ Grows /\ OrderInv'
    BY TypeStep, StepGrows, OrderStep DEF DispatchInv
  <2>2. OwnedByExecutor'
    <3>1. CASE Next
      BY <2>1, <3>1, WorkerExecutor, DagExecutor, SupervisorExecutor,
         OperatorExecutor DEF Next, DagThread, DispatchInv
    <3>2. CASE UNCHANGED vars
      BY <2>1, <3>2 DEF vars, OwnedByExecutor, Excused, DispatchInv
    <3> QED BY <3>1, <3>2
  <2>3. CASE Next
    BY <2>1, <2>2, <2>3, WorkerDispatch, OtherDispatch
       DEF Next, DagThread, DispatchInv
  <2>4. CASE UNCHANGED vars
    BY <2>1, <2>2, <2>4 DEF vars, Promise!vars, DispatchInv
  <2> QED BY <2>1, <2>2, <2>3, <2>4 DEF DispatchInv
<1> QED BY <1>1, <1>2, <1>3, PTL DEF Spec, ImplementsDispatch, Promise!Spec

-----------------------------------------------------------------------------
(***************************************************************************)
(* Rows left behind.  A step that starts no row, hands none over, and lets *)
(* go of a row only by ending it or its worker, strands none; only the     *)
(* claims and a respawn are not of this kind.                              *)
(***************************************************************************)
LeavesNone ==
    /\ \A t \in Task : status'[t] = "RUNNING" =>
        /\ status[t] = "RUNNING" /\ owner'[t] = owner[t]
        /\ owner[t] \in Worker /\ cur[owner[t]] = t =>
                cur'[owner[t]] = t \/ pc'[owner[t]] = "down"
    /\ \A w \in Worker : pc[w] = "down" => pc'[w] = "down"

LEMMA LeavesNoneStranded ==
    ASSUME LeavesNone, NEW t \in Task, Stranded(t)'
    PROVE  Stranded(t)
  BY DEF LeavesNone, Stranded, Up

\* A worker that executes its row ends it in the step that lets go of it.
LEMMA WorkerLeavesNone ==
    ASSUME TypeInv, NEW w \in Worker,
           WorkerStep(w) /\ ~Claim(w) /\ ~ClaimSecond(w)
    PROVE  LeavesNone
<1> USE DEF TypeInv, TypeOK, RowTypes, ProcTypes
<1>1. CASE Complete(w) \/ Fail(w)
  BY <1>1 DEF Complete, Fail, rowVars, LeavesNone
<1>2. CASE CommitComplete(w)
  BY <1>2 DEF CommitComplete, With, LeavesNone
<1>3. CASE CommitFail(w)
  BY <1>3 DEF CommitFail, With, LeavesNone
<1>4. CASE PutBack(w)
  BY <1>4 DEF PutBack, With, Owned, LeavesNone
<1> QED BY <1>1, <1>2, <1>3, <1>4 DEF WorkerStep

LEMMA OtherLeavesNone ==
    ASSUME TypeInv,
           \/ \E w \in Worker : Crash(w)
           \/ \E w \in Scanner : DagThread(w)
           \/ SupervisorStep /\ ~\E w \in Worker : Respawn(w)
           \/ OperatorStep
    PROVE  LeavesNone
<1> USE DEF TypeInv, TypeOK, RowTypes, ProcTypes
<1>1. ASSUME NEW w \in Worker, Crash(w) PROVE LeavesNone
  BY <1>1 DEF Crash, Die, rowVars, LeavesNone
<1>2. ASSUME NEW w \in Scanner, DagApply(w) PROVE LeavesNone
  <2>1. scan[w].to # "RUNNING"
    BY DEF Scans
  <2> QED BY <1>2, <2>1 DEF DagApply, With, LeavesNone
<1>3. ASSUME UNCHANGED <<status, owner, pc, cur>> PROVE LeavesNone
  BY <1>3 DEF LeavesNone
<1>4. ASSUME NEW w \in Worker, DagStep(w) PROVE LeavesNone
  BY <1>3, <1>4 DEF DagStep, DagScan, DagLost, rowVars
<1>5. ASSUME NEW w \in Worker, ReleaseRows(w),
             \/ pc' = pc /\ cur' = cur
             \/ pc' = [pc EXCEPT ![w] = "down"] /\ cur' = [cur EXCEPT ![w] = None]
      PROVE  LeavesNone
  BY <1>5, ReleaseStep DEF LeavesNone
<1>6. CASE SupervisorStep /\ ~\E w \in Worker : Respawn(w)
  <2>1. CASE BootSweep
    BY <2>1 DEF BootSweep, With, procVars, LeavesNone
  <2>2. ASSUME NEW w \in Worker,
               RecoverStale(w) \/ RecoverAgent(w) \/ RecoverAgentKillFails(w)
        PROVE  LeavesNone
    BY <1>5, <2>2
       DEF RecoverStale, RecoverAgent, RecoverAgentKillFails, Die, procVars
  <2> QED BY <1>6, <2>1, <2>2 DEF SupervisorStep
<1>7. CASE OperatorStep
  <2>1. ASSUME NEW S, NEW s \in {"PENDING", "FAILED", "WAITING", "WAITING_HUMAN"},
               status' = With(S, s), UNCHANGED <<pc, cur>>,
               \A t \in Task \ S : owner'[t] = owner[t]
        PROVE  LeavesNone
    BY <2>1 DEF With, LeavesNone
  <2>2. ASSUME NEW t \in Task, Post(t) \/ AskHuman(t) \/ Respond(t) \/ Unqueue(t)
        PROVE  LeavesNone
    BY <2>1, <2>2 DEF Post, AskHuman, Respond, Unqueue, Owned, procVars
  <2>3. ASSUME NEW h \in Helpers, Decide(h) PROVE LeavesNone
    BY <1>3, <2>3 DEF Decide, rowVars, procVars
  <2>4. ASSUME NEW h \in Helpers, Reopen(h) PROVE LeavesNone
    BY <2>1, <2>4 DEF Reopen, Owned, procVars
  <2>5. CASE Cancel
    <3>1. status' = With(intent["cancel"], "FAILED")
      BY <2>5 DEF Cancel
    <3>2. UNCHANGED <<owner, pc, cur>>
      BY <2>5 DEF Cancel, procVars
    <3> QED BY <2>1, <3>1, <3>2
  <2>6. CASE Resume
    <3> DEFINE failed == intent["resume"]
               promoted == {t \in Ready : Deps[t] \cap failed = {}}
    <3>1. /\ status' = With(failed \cup promoted, "PENDING")
          /\ owner' = Owned(failed, None)
      BY <2>6 DEF Resume
    <3>2. UNCHANGED <<pc, cur>>
      BY <2>6 DEF Resume, procVars
    <3>3. \A t \in Task \ (failed \cup promoted) : owner'[t] = owner[t]
      BY <3>1 DEF Owned
    <3> HIDE DEF failed, promoted
    <3> QED BY <2>1, <3>1, <3>2, <3>3
  <2>7. CASE ResumePromotes
    BY <1>3, <2>7 DEF ResumePromotes, rowVars
  <2> QED BY <1>7, <2>2, <2>3, <2>4, <2>5, <2>6, <2>7 DEF OperatorStep
<1> QED BY <1>1, <1>2, <1>4, <1>6, <1>7 DEF DagThread

\* A claim strands the row it takes if it fetches another one; the worker was
\* idle, so that other row was behind it already.
LEMMA ClaimStrands ==
    ASSUME TypeInv, NEW w \in Worker, Claim(w), NEW t \in Task,
           Stranded(t)', ~Stranded(t)
    PROVE  /\ pc[w] = "idle" /\ owner'[t] = w /\ cur'[w] \in Task
           /\ Stranded(cur'[w])
<1> USE DEF TypeInv, TypeOK, RowTypes, ProcTypes
<1>1. pc[w] = "idle" /\ cur[w] = None
  BY DEF Claim, LoopShape
<1>2. PICK c \in Task, r \in Task :
          /\ Takes(w, c)
          /\ r = c \/ (status[r] = "RUNNING" /\ owner[r] = w)
          /\ cur' = [cur EXCEPT ![w] = r]
  BY ClaimStep
<1>3. cur'[w] = r /\ \A v \in Worker \ {w} : cur'[v] = cur[v]
  BY <1>2
<1>4. \A v \in Worker : pc[v] = "down" => pc'[v] = "down"
  BY <1>1 DEF Claim
<1>5. t = c
  <2> SUFFICES ASSUME t # c PROVE FALSE
    OBVIOUS
  <2>1. status'[t] = status[t] /\ owner'[t] = owner[t]
    BY <1>2 DEF Takes
  <2> QED BY <1>1, <1>3, <1>4, <2>1 DEF Stranded, Up
<1>6. owner'[t] = w /\ r # t
  BY <1>2, <1>3, <1>5 DEF Takes, Stranded
<1>7. Stranded(r)
  BY <1>1, <1>2, <1>5, <1>6 DEF Stranded, Up
<1> QED BY <1>1, <1>3, <1>6, <1>7

\* The second claim of a batch strands no row but its own.
LEMMA ClaimSecondStrands ==
    ASSUME TypeInv, NEW w \in Worker, ClaimSecond(w), NEW t \in Task,
           Stranded(t)', ~Stranded(t)
    PROVE  pc[w] = "batch" /\ owner'[t] = w
<1> USE DEF TypeInv, TypeOK, RowTypes, ProcTypes
<1>1. pc[w] = "batch" /\ cur' = cur /\ pc' = [pc EXCEPT ![w] = "run"]
  BY DEF ClaimSecond
<1>2. (status' = status /\ owner' = owner) \/ \E c \in Task : Takes(w, c)
  BY ClaimSecondStep
<1>3. CASE status' = status /\ owner' = owner
  BY <1>1, <1>3 DEF Stranded, Up
<1>4. ASSUME NEW c \in Task, Takes(w, c) PROVE owner'[t] = w
  <2>1. CASE t = c
    BY <1>4, <2>1 DEF Takes
  <2>2. CASE t # c
    <3>1. status'[t] = status[t] /\ owner'[t] = owner[t]
      BY <1>4, <2>2 DEF Takes
    <3> QED BY <1>1, <3>1 DEF Stranded, Up
  <2> QED BY <2>1, <2>2
<1> QED BY <1>1, <1>2, <1>3, <1>4

\* A respawn strands the rows of the worker that was dead.
LEMMA RespawnStrands ==
    ASSUME TypeInv, NEW w \in Worker, Respawn(w), NEW t \in Task,
           Stranded(t)', ~Stranded(t)
    PROVE  pc[w] = "down" /\ owner'[t] = w
  BY DEF TypeInv, TypeOK, RowTypes, ProcTypes, Respawn, rowVars, Stranded, Up

LEMMA StrandingStep ==
    ASSUME TypeInv, [Next]_vars, NEW t \in Task, Stranded(t)', ~Stranded(t)
    PROVE  \E w \in Worker :
              /\ owner'[t] = w
              /\ \/ ClaimSecond(w) /\ pc[w] = "batch"
                 \/ Respawn(w) /\ pc[w] = "down"
                 \/ /\ Claim(w) /\ pc[w] = "idle"
                    /\ cur'[w] \in Task /\ Stranded(cur'[w])
<1>1. ~LeavesNone
  BY LeavesNoneStranded
<1>2. ~UNCHANGED vars
  BY DEF vars, Stranded, Up
<1>3. PICK w \in Worker : Claim(w) \/ ClaimSecond(w) \/ Respawn(w)
  BY <1>1, <1>2, WorkerLeavesNone, OtherLeavesNone DEF Next, DagThread, SupervisorStep
<1> QED BY <1>3, ClaimStrands, ClaimSecondStrands, RespawnStrands

\* Rows are left RUNNING behind a live owner in three ways and no other, for
\* every number of tasks and workers and whatever the sweeps and operators do.
THEOREM StrandingWays == Spec => StrandedOnlyBy
<1>1. TypeInv /\ [Next]_vars =>
        [\A t \in Task : Stranded(t)' /\ ~Stranded(t) =>
            /\ owner'[t] \in Worker
            /\ \/ pc[owner'[t]] \in {"batch", "down"}
               \/ pc[owner'[t]] = "idle" /\ Stranded(cur'[owner'[t]])]_vars
  BY StrandingStep
<1> QED BY <1>1, TypeInit, TypeStep, PTL DEF Spec, StrandedOnlyBy

NoBatch == \A w \in Worker : pc[w] # "batch"

\* Only a claim that finds the queue deep leads to a batch.
LEMMA BatchStep ==
    ASSUME TypeInv, NoBatch, [Next]_vars, QueueDepth <= BatchDepth, QueueDepth \in Nat
    PROVE  NoBatch'
<1> USE DEF NoBatch
<1>1. ASSUME NEW w \in Worker, NEW p \in Places \ {"batch"},
             pc' = [pc EXCEPT ![w] = p]
      PROVE  NoBatch'
  BY <1>1 DEF TypeInv, TypeOK, ProcTypes
<1>2. ASSUME pc' = pc PROVE NoBatch'
  BY <1>2
<1>3. ASSUME NEW w \in Worker, WorkerStep(w) \/ DagStep(w) \/ Crash(w)
      PROVE  NoBatch'
  <2>1. CASE Claim(w)
    <3>1. ~(QueueDepth > BatchDepth)
      OBVIOUS
    <3>2. pc' = [pc EXCEPT ![w] = IF QueueDepth > BatchDepth THEN "batch" ELSE "run"]
      BY <2>1 DEF Claim
    <3>3. pc' = [pc EXCEPT ![w] = "run"]
      BY <3>1, <3>2, Zenon
    <3> QED BY <1>1, <3>3
  <2>2. CASE WorkerStep(w) /\ ~Claim(w)
    BY <1>1, <2>2 DEF WorkerStep, ClaimSecond, Complete, Fail, CommitComplete,
                      CommitFail, PutBack
  <2>3. CASE DagStep(w) \/ Crash(w)
    BY <1>1, <1>2, <2>3 DEF DagStep, DagScan, DagLost, Crash, Die
  <2> QED BY <1>3, <2>1, <2>2, <2>3
<1>4. CASE SupervisorStep
  <2>1. ASSUME NEW w \in Worker, Respawn(w) \/ RecoverAgent(w) PROVE NoBatch'
    BY <1>1, <2>1 DEF Respawn, RecoverAgent, Die
  <2> QED BY <1>2, <1>4, <2>1
          DEF SupervisorStep, RecoverStale, RecoverAgentKillFails, BootSweep, procVars
<1>5. CASE OperatorStep
  BY <1>2, <1>5 DEF OperatorStep, Decide, Reopen, Cancel, Resume, ResumePromotes,
                    Post, AskHuman, Respond, Unqueue, procVars
<1>6. ASSUME NEW w \in Scanner, DagApply(w) PROVE NoBatch'
  BY <1>2, <1>6 DEF DagApply
<1>7. CASE UNCHANGED vars
  BY <1>2, <1>7 DEF vars
<1> QED BY <1>3, <1>4, <1>5, <1>6, <1>7 DEF Next

\* Without respawns, and with no more tasks than the depth at which a worker
\* claims two, every RUNNING row is being executed or will be found.
THEOREM NothingStranded ==
    ASSUME "respawn" \notin Env, IsFiniteSet(Task), Cardinality(Task) <= BatchDepth
    PROVE  Spec => []NoStrandedRow
<1> DEFINE Inv == TypeInv /\ NoBatch /\ NoStrandedRow
<1>1. Init => Inv
  BY TypeInit DEF Init, NoBatch, NoStrandedRow, Stranded
<1>2. Inv /\ [Next]_vars => Inv'
  <2> SUFFICES ASSUME Inv, [Next]_vars PROVE Inv'
    OBVIOUS
  <2>1. TypeInv'
    BY TypeStep
  <2>2. QueueDepth <= BatchDepth /\ QueueDepth \in Nat
    <3>1. {t \in Task : status[t] = "PENDING"} \subseteq Task
      OBVIOUS
    <3>2. /\ QueueDepth <= Cardinality(Task)
          /\ QueueDepth \in Nat /\ Cardinality(Task) \in Nat
      BY <3>1, FS_Subset, FS_CardinalityType DEF QueueDepth
    <3> QED BY <3>2
  <2>3. NoBatch'
    BY <2>2, BatchStep
  <2>4. NoStrandedRow'
    <3> SUFFICES ASSUME NEW t \in Task, Stranded(t)' PROVE FALSE
      BY DEF NoStrandedRow
    <3>1. \A w \in Worker : ~Respawn(w)
      BY DEF Respawn
    <3> QED BY <3>1, StrandingStep DEF NoStrandedRow, NoBatch
  <2> QED BY <2>1, <2>3, <2>4
<1> QED BY <1>1, <1>2, PTL DEF Spec

-----------------------------------------------------------------------------
(***************************************************************************)
(* Completed rows.  A task that is DONE while somebody executes it has had *)
(* a second executor, so it is excused; its own executor therefore never   *)
(* undoes it.                                                              *)
(***************************************************************************)
DoneElsewhere ==
    \A w \in Worker : cur[w] # None /\ status[cur[w]] = "DONE" => Excused(cur[w])

\* Enough for a step that completes nothing and starts nothing.
LEMMA DoneElsewhereKept ==
    ASSUME TypeInv, DoneElsewhere, Grows,
           \A w \in Worker : cur'[w] \in {cur[w], None},
           \A t \in Task : status'[t] = "DONE" => status[t] = "DONE"
    PROVE  DoneElsewhere'
<1> SUFFICES ASSUME NEW w \in Worker, cur'[w] # None, status'[cur'[w]] = "DONE"
             PROVE  Excused(cur[w])'
  BY DEF DoneElsewhere, Excused
<1>1. cur'[w] = cur[w] /\ cur[w] \in Task
  BY DEF TypeInv, TypeOK, ProcTypes
<1>2. Excused(cur[w])
  BY <1>1 DEF DoneElsewhere
<1> QED BY <1>2 DEF Grows, Excused

LEMMA WorkerDoneElsewhere ==
    ASSUME TypeInv, DoneElsewhere, OwnedByExecutor, Grows,
           NEW w \in Worker, WorkerStep(w)
    PROVE  DoneElsewhere'
<1> USE DEF TypeInv, TypeOK, ProcTypes, RowTypes
<1>1. CASE Claim(w)
  <2>1. PICK t \in Task, r \in Task :
            /\ Takes(w, t)
            /\ r = t \/ (status[r] = "RUNNING" /\ owner[r] = w)
            /\ cur' = [cur EXCEPT ![w] = r]
    BY <1>1, ClaimStep
  <2>2. status'[r] = "RUNNING"
    BY <2>1 DEF Takes
  <2>3. ASSUME NEW v \in Worker, v # w, cur[v] # None, status'[cur[v]] = "DONE"
        PROVE  Excused(cur[v])'
    <3>1. status[cur[v]] = "DONE"
      BY <2>1, <2>3 DEF Takes
    <3>2. cur'[v] = cur[v]
      BY <2>1, <2>3
    <3> QED BY <2>3, <3>1, <3>2 DEF DoneElsewhere, Grows, Excused
  <2>4. cur'[w] = r /\ \A v \in Worker \ {w} : cur'[v] = cur[v]
    BY <2>1
  <2> SUFFICES ASSUME NEW v \in Worker, cur'[v] # None, status'[cur'[v]] = "DONE"
               PROVE  Excused(cur[v])'
    BY DEF DoneElsewhere, Excused
  <2>5. v # w
    BY <2>2, <2>4
  <2> QED BY <2>3, <2>4, <2>5
<1>2. CASE ClaimSecond(w)
  <2>1. cur' = cur
    BY <1>2 DEF ClaimSecond
  <2>2. ASSUME NEW t \in Task, status'[t] = "DONE" PROVE status[t] = "DONE"
    BY <1>2, <2>2, ClaimSecondStep DEF Takes
  <2> QED BY <2>1, <2>2, DoneElsewhereKept
<1>3. CASE Complete(w) \/ Fail(w)
  BY <1>3, DoneElsewhereKept DEF Complete, Fail, rowVars
<1>4. CASE CommitComplete(w)
  <2>1. /\ cur' = [cur EXCEPT ![w] = None]
        /\ cur[w] \in Task
        /\ status' = With({cur[w]}, "DONE")
    BY <1>4 DEF CommitComplete, LoopShape
  <2>2. ASSUME NEW v \in Worker, v # w, cur[v] # None, status'[cur[v]] = "DONE"
        PROVE  Excused(cur[v])'
    <3>1. CASE cur[v] = cur[w]
      BY <2>1, <2>2, <3>1 DEF OwnedByExecutor, Grows, Excused
    <3>2. CASE cur[v] # cur[w]
      BY <2>1, <2>2, <3>2 DEF With, DoneElsewhere, Grows, Excused
    <3> QED BY <3>1, <3>2
  <2> QED BY <2>1, <2>2 DEF DoneElsewhere, Excused
<1>5. CASE CommitFail(w) \/ PutBack(w)
  <2>1. cur' = [cur EXCEPT ![w] = None]
    BY <1>5 DEF CommitFail, PutBack
  <2>2. ASSUME NEW t \in Task, status'[t] = "DONE" PROVE status[t] = "DONE"
    BY <1>5, <2>2 DEF CommitFail, PutBack, With
  <2> QED BY <2>1, <2>2, DoneElsewhereKept
<1> QED BY <1>1, <1>2, <1>3, <1>4, <1>5 DEF WorkerStep

LEMMA OtherDoneElsewhere ==
    ASSUME TypeInv, DoneElsewhere, Grows,
           \/ \E w \in Worker : Crash(w)
           \/ \E w \in Scanner : DagThread(w)
           \/ SupervisorStep
           \/ OperatorStep
    PROVE  DoneElsewhere'
<1> USE DEF TypeInv, TypeOK, ProcTypes, RowTypes
<1>1. ASSUME NEW w \in Worker, Crash(w) PROVE DoneElsewhere'
  BY <1>1, DoneElsewhereKept DEF Crash, Die, rowVars
<1>2. ASSUME NEW w \in Scanner, DagThread(w) PROVE DoneElsewhere'
  <2>1. cur' = cur
    BY <1>2 DEF DagThread, DagStep, DagScan, DagApply, DagLost
  <2>2. ASSUME NEW t \in Task, status'[t] = "DONE" PROVE status[t] = "DONE"
    <3>1. scan[w].to # "DONE"
      BY DEF Scans
    <3> QED BY <1>2, <2>2, <3>1
            DEF DagThread, DagStep, DagScan, DagApply, DagLost, rowVars, With
  <2> QED BY <2>1, <2>2, DoneElsewhereKept
<1>3. ASSUME \A w \in Worker : cur'[w] \in {cur[w], None},
             \A t \in Task : status'[t] = "DONE" => status[t] = "DONE"
      PROVE  DoneElsewhere'
  BY <1>3, DoneElsewhereKept
<1>4. CASE SupervisorStep
  <2>1. ASSUME NEW w \in Worker,
               \/ Respawn(w) \/ RecoverStale(w)
               \/ RecoverAgent(w) \/ RecoverAgentKillFails(w)
        PROVE  DoneElsewhere'
    BY <1>3, <2>1 DEF Respawn, RecoverStale, RecoverAgent, Die, ReleaseRows,
                      RecoverAgentKillFails, With, rowVars, procVars
  <2>2. CASE BootSweep
    BY <1>3, <2>2 DEF BootSweep, With, procVars
  <2> QED BY <1>4, <2>1, <2>2 DEF SupervisorStep
<1>5. CASE OperatorStep
  <2>1. cur' = cur
    BY <1>5 DEF OperatorStep, Decide, Reopen, Cancel, Resume, ResumePromotes,
                Post, AskHuman, Respond, Unqueue, procVars
  <2>2. ASSUME NEW t \in Task, status'[t] = "DONE" PROVE status[t] = "DONE"
    <3>1. CASE Resume
      <4>1. \E S : status' = With(S, "PENDING")
        BY <3>1 DEF Resume
      <4> QED BY <2>2, <4>1 DEF With
    <3>2. ASSUME NEW h \in Helpers, Decide(h) \/ Reopen(h) \/ Cancel
          PROVE  status[t] = "DONE"
      BY <2>2, <3>2 DEF Decide, Reopen, Cancel, rowVars, With
    <3>3. CASE ResumePromotes
      BY <2>2, <3>3 DEF ResumePromotes, rowVars
    <3>4. ASSUME NEW u \in Task, Post(u) \/ AskHuman(u) \/ Respond(u) \/ Unqueue(u)
          PROVE  status[t] = "DONE"
      BY <2>2, <3>4 DEF Post, AskHuman, Respond, Unqueue, With
    <3> QED BY <1>5, <3>1, <3>2, <3>3, <3>4 DEF OperatorStep
  <2> QED BY <1>3, <2>1, <2>2
<1> QED BY <1>1, <1>2, <1>4, <1>5

\* What a step makes of a row that is DONE.
LEMMA UndoingStep ==
    ASSUME TypeInv, DoneElsewhere, Next, NEW t \in Task,
           status[t] = "DONE", status'[t] # "DONE"
    PROVE  \/ \E w \in Scanner : t \in scan[w].rows
           \/ \E h \in Helpers : t \in intent[h]
           \/ gate[t] = "posted"
           \/ t \in reopened \cup seized
<1> USE DEF TypeInv, TypeOK, ProcTypes, RowTypes
<1>1. ASSUME NEW w \in Worker, WorkerStep(w) PROVE Excused(t)
  <2>1. ~\E u \in Task : Takes(w, u)
    BY DEF Takes
  <2>2. ~Claim(w) /\ ~ClaimSecond(w)
    BY <2>1, ClaimStep, ClaimSecondStep
  <2>3. ~Complete(w) /\ ~Fail(w) /\ ~CommitComplete(w)
    BY DEF Complete, Fail, CommitComplete, rowVars, With
  <2>4. CASE CommitFail(w) \/ PutBack(w)
    <3>1. cur[w] = t
      BY <2>4 DEF CommitFail, PutBack, With
    <3>2. t # None
      OBVIOUS
    <3> QED BY <3>1, <3>2 DEF DoneElsewhere
  <2> QED BY <1>1, <2>2, <2>3, <2>4 DEF WorkerStep
<1>2. ASSUME NEW w \in Worker PROVE ~DagStep(w) /\ ~Crash(w)
  BY DEF DagStep, DagScan, DagLost, Crash, rowVars
<1>3. ASSUME NEW w \in Scanner, DagApply(w) PROVE t \in scan[w].rows
  BY <1>3 DEF DagApply, With
<1>4. ~SupervisorStep
  <2>1. ASSUME NEW w \in Worker PROVE ~ReleaseRows(w)
    BY ReleaseStep
  <2>2. ~BootSweep
    BY DEF BootSweep, With
  <2> QED BY <2>1, <2>2 DEF SupervisorStep, Respawn, RecoverStale, RecoverAgent,
                            RecoverAgentKillFails, rowVars
<1>5. CASE OperatorStep
  <2>1. ASSUME NEW h \in Helpers, Decide(h) \/ Reopen(h) PROVE t \in intent[h]
    BY <2>1 DEF Decide, Reopen, rowVars, With
  <2>2. ASSUME Cancel PROVE t \in intent["cancel"]
    BY <2>2 DEF Cancel, With
  <2>3. ASSUME Resume PROVE t \in intent["resume"]
    BY <2>3 DEF Resume, Ready, With
  <2>4. ~ResumePromotes
    BY DEF ResumePromotes, rowVars
  <2>5. ASSUME NEW u \in Task, Post(u) \/ AskHuman(u) \/ Respond(u) \/ Unqueue(u)
        PROVE  gate[t] = "posted"
    BY <2>5 DEF Post, AskHuman, Respond, Unqueue, With
  <2> QED BY <1>5, <2>1, <2>2, <2>3, <2>4, <2>5 DEF OperatorStep
<1> QED BY <1>1, <1>2, <1>3, <1>4, <1>5 DEF Next, Excused

\* A task that is DONE is undone by late writes and shared executions alone, for
\* every number of tasks and workers and whatever dies, fails or is swept.
THEOREM CompletedStays == Spec => UndoneOnlyBy
<1> DEFINE Inv == TypeInv /\ OwnedByExecutor /\ DoneElsewhere
<1>1. Init => Inv
  BY TypeInit DEF Init, OwnedByExecutor, DoneElsewhere
<1>2. Inv /\ [Next]_vars => Inv'
  <2> SUFFICES ASSUME Inv, [Next]_vars PROVE Inv'
    OBVIOUS
  <2>1. TypeInv' /\ Grows
    BY TypeStep, StepGrows
  <2>2. CASE Next
    <3>1. OwnedByExecutor'
      BY <2>1, <2>2, WorkerExecutor, DagExecutor, SupervisorExecutor,
         OperatorExecutor DEF Next, DagThread
    <3>2. DoneElsewhere'
      BY <2>1, <2>2, WorkerDoneElsewhere, OtherDoneElsewhere DEF Next, DagThread
    <3> QED BY <2>1, <3>1, <3>2
  <2>3. CASE UNCHANGED vars
    BY <2>1, <2>3 DEF vars, OwnedByExecutor, DoneElsewhere, Excused
  <2> QED BY <2>2, <2>3
<1>3. Inv /\ [Next]_vars =>
        [\A t \in Task : status[t] = "DONE" /\ status'[t] # "DONE" =>
            \/ \E w \in Scanner : t \in scan[w].rows
            \/ \E h \in Helpers : t \in intent[h]
            \/ gate[t] = "posted"
            \/ t \in reopened \cup seized]_vars
  BY UndoingStep
<1> QED BY <1>1, <1>2, <1>3, PTL DEF Spec, UndoneOnlyBy

-----------------------------------------------------------------------------
(***************************************************************************)
(* Without licences.  A row is put back from FAILED only by a retry, a     *)
(* requeue or a resume, and taken from a live worker only after a kill     *)
(* that failed.  In a fleet where these do not happen, what the docs say   *)
(* of the queue holds as they say it.                                      *)
(***************************************************************************)
NothingReopened ==
    reopened = {} /\ \A h \in {"requeue", "retry", "resume"} : intent[h] = {}

NothingSeized == seized = {} /\ lostpid = {}

LEMMA ReopenedStep ==
    ASSUME TypeInv, {"requeue", "retry", "resume"} \cap Env = {},
           NothingReopened, [Next]_vars
    PROVE  NothingReopened'
<1> USE DEF TypeInv, TypeOK, BookTypes, NothingReopened
<1>1. ASSUME NEW w \in Worker, WorkerStep(w) \/ DagStep(w) \/ Crash(w)
      PROVE  NothingReopened'
  BY <1>1 DEF WorkerStep, Claim, ClaimSecond, Complete, Fail, CommitComplete,
              CommitFail, PutBack, DagStep, DagScan, DagLost, Crash, history
<1>2. ASSUME NEW w \in Scanner, DagApply(w) PROVE NothingReopened'
  BY <1>2 DEF DagApply, history
<1>3. CASE SupervisorStep
  BY <1>3 DEF SupervisorStep, Respawn, RecoverStale, RecoverAgent,
              RecoverAgentKillFails, BootSweep, history
<1>4. CASE OperatorStep
  <2>1. ASSUME NEW h \in Helpers, Decide(h) PROVE NothingReopened'
    BY <2>1 DEF Decide, history
  <2>2. ASSUME NEW h \in Helpers PROVE ~Reopen(h)
    BY <2>2 DEF Reopen
  <2>3. ~Resume
    BY DEF Resume
  <2>4. CASE Cancel \/ ResumePromotes
    BY <2>4 DEF Cancel, ResumePromotes, history
  <2>5. ASSUME NEW t \in Task, Post(t) \/ AskHuman(t) \/ Respond(t) \/ Unqueue(t)
        PROVE  NothingReopened'
    BY <2>5 DEF Post, AskHuman, Respond, Unqueue, history
  <2> QED BY <1>4, <2>1, <2>2, <2>3, <2>4, <2>5 DEF OperatorStep
<1>5. CASE UNCHANGED vars
  BY <1>5 DEF vars
<1> QED BY <1>1, <1>2, <1>3, <1>4, <1>5 DEF Next

LEMMA SeizedStep ==
    ASSUME TypeInv, "killfail" \notin Env, NothingSeized, [Next]_vars
    PROVE  NothingSeized'
<1> USE DEF TypeInv, TypeOK, NothingSeized
<1>1. ASSUME NEW w \in Worker, WorkerStep(w) \/ DagStep(w) \/ Crash(w)
      PROVE  NothingSeized'
  BY <1>1 DEF WorkerStep, Claim, ClaimSecond, Complete, Fail, CommitComplete,
              CommitFail, PutBack, DagStep, DagScan, DagLost, Crash, Die, history
<1>2. ASSUME NEW w \in Scanner, DagApply(w) PROVE NothingSeized'
  BY <1>2 DEF DagApply, history
<1>3. CASE SupervisorStep
  BY <1>3 DEF SupervisorStep, Respawn, RecoverStale, RecoverAgent, Die,
              RecoverAgentKillFails, BootSweep, procVars, history
<1>4. CASE OperatorStep
  BY <1>4 DEF OperatorStep, Decide, Reopen, Cancel, Resume, ResumePromotes,
              Post, AskHuman, Respond, Unqueue, procVars, history
<1>5. CASE UNCHANGED vars
  BY <1>5 DEF vars
<1> QED BY <1>1, <1>2, <1>3, <1>4, <1>5 DEF Next

LEMMA NeverReopened ==
    ASSUME {"requeue", "retry", "resume"} \cap Env = {}
    PROVE  Spec => []NothingReopened
<1>1. Init => NothingReopened
  BY DEF Init, NothingReopened, Helpers
<1>2. TypeInv /\ NothingReopened /\ [Next]_vars => NothingReopened'
  BY ReopenedStep
<1> QED BY <1>1, <1>2, TypeInit, TypeStep, PTL DEF Spec

LEMMA NeverSeized ==
    ASSUME "killfail" \notin Env
    PROVE  Spec => []NothingSeized
<1>1. Init => NothingSeized
  BY DEF Init, NothingSeized
<1>2. TypeInv /\ NothingSeized /\ [Next]_vars => NothingSeized'
  BY SeizedStep
<1> QED BY <1>1, <1>2, TypeInit, TypeStep, PTL DEF Spec

\* post_task's docstring, as it is: where nothing is put back from FAILED, what a
\* task depends on completes first, whatever else fails, dies or comes late.
THEOREM MustCompleteFirstHolds ==
    ASSUME {"requeue", "retry", "resume"} \cap Env = {}
    PROVE  Spec => []MustCompleteFirst
<1>1. DependenciesFirst /\ NothingReopened => MustCompleteFirst
  BY DEF DependenciesFirst, NothingReopened, MustCompleteFirst
<1> QED BY <1>1, DependenciesRespected, NeverReopened, PTL

\* Where moreover no kill fails, the workers execute different tasks: crashes,
\* respawns, sweeps, batches and cancels alone never duplicate an execution.
THEOREM ExecutorsApart ==
    ASSUME {"requeue", "retry", "resume", "killfail"} \cap Env = {}
    PROVE  Spec => [](\A v, w \in Worker :
                          v # w /\ cur[v] = cur[w] => cur[w] = None)
<1>1. UniqueExecutor /\ NothingReopened /\ NothingSeized =>
        \A v, w \in Worker : v # w /\ cur[v] = cur[w] => cur[w] = None
  BY DEF UniqueExecutor, NothingReopened, NothingSeized
<1>2. Spec => []NothingReopened
  BY NeverReopened
<1>3. Spec => []NothingSeized
  BY NeverSeized
<1> QED BY <1>1, <1>2, <1>3, OneExecutor, PTL
=============================================================================
