----------------------------- MODULE Experiment -----------------------------
(***************************************************************************)
(* The experiments of BigEd's ExperimentFramework (fleet/experiment.py):   *)
(* a row of ml_experiments with a status, the run of the skill that        *)
(* proposed it (ml_train_suite, autoresearch_trial), the operator who      *)
(* answers proposals, and the row "gpu_experiment" of the locks table.     *)
(*                                                                         *)
(* _acquire_gpu_lock writes its time with a "T" and reads it with a blank: *)
(* no row it finds can be parsed, so every row is replaced, whatever its   *)
(* age.  approve and reject read the status and write it later by id.      *)
(***************************************************************************)
EXTENDS Naturals, FiniteSets

CONSTANTS
    Exp,        \* experiments
    NoExp,      \* no row, no experiment
    Answerer,   \* requests of operators: approve or reject one experiment
    ExpEnv      \* the optional events of an instance

ExpEvents == {"hot", "kill", "dbfail"}

ASSUME ExpAssumption ==
    /\ NoExp \notin Exp
    /\ ExpEnv \subseteq ExpEvents

VARIABLES
    stat,       \* status column, "none" before the INSERT
    auto,       \* auto_approved column
    gpu,        \* holder of the row "gpu_experiment", NoExp without a row
    at,         \* where the run of the experiment is
    answer,     \* what each request has read and is about to write
    cut,        \* history: runs that a kill or a failed write has cut short
    replaced    \* history: runs whose row another run has replaced

expVars == <<stat, auto, gpu, at, answer, cut, replaced>>

Statuses == {"none", "PROPOSED", "APPROVED", "RUNNING", "EVALUATING",
             "DEPLOYED", "ROLLED_BACK", "REJECTED"}

Places == {"absent", "proposed", "approved", "locked", "training",
           "evaluating", "releasing", "ended"}

\* Between taking the row and giving it back.
OnGpu(e) == at[e] \in {"locked", "training", "evaluating", "releasing"}

NoAnswer == [exp |-> NoExp, say |-> "none"]
Answers == [exp : Exp, say : {"APPROVED", "REJECTED"}] \cup {NoAnswer}

ExpInit ==
    /\ stat = [e \in Exp |-> "none"]
    /\ auto = [e \in Exp |-> FALSE]
    /\ gpu = NoExp
    /\ at = [e \in Exp |-> "absent"]
    /\ answer = [o \in Answerer |-> NoAnswer]
    /\ cut = {}
    /\ replaced = {}

-----------------------------------------------------------------------------
Status(e, s) == stat' = [stat EXCEPT ![e] = s]
Goto(e, place) == at' = [at EXCEPT ![e] = place]

\* propose: the configuration and the time window decide whether it is
\* approved at once.
Propose(e) ==
    /\ at[e] = "absent"
    /\ \E yes \in BOOLEAN :
        /\ auto' = [auto EXCEPT ![e] = yes]
        /\ Status(e, IF yes THEN "APPROVED" ELSE "PROPOSED")
    /\ Goto(e, "proposed")
    /\ UNCHANGED <<gpu, answer, cut, replaced>>

\* run reads the status; anything but APPROVED ends it with an exception.
Check(e) ==
    /\ at[e] = "proposed"
    /\ Goto(e, IF stat[e] = "APPROVED" THEN "approved" ELSE "ended")
    /\ UNCHANGED <<stat, auto, gpu, answer, cut, replaced>>

\* Too hot, too little VRAM, or the lock's write gives up: the run returns and
\* the experiment stays as it is.
Blocked(e) ==
    /\ at[e] = "approved"
    /\ ExpEnv \cap {"hot", "dbfail"} # {}
    /\ Goto(e, "ended")
    /\ UNCHANGED <<stat, auto, gpu, answer, cut, replaced>>

\* INSERT OR REPLACE of the lock's row.
TakeGpu(e) ==
    /\ at[e] = "approved"
    /\ gpu' = e
    /\ replaced' = replaced \cup {f \in Exp : f = gpu /\ OnGpu(f)}
    /\ Goto(e, "locked")
    /\ UNCHANGED <<stat, auto, answer, cut>>

\* The status RUNNING is written; eval_before and the training follow.
Begin(e) ==
    /\ at[e] = "locked"
    /\ Status(e, "RUNNING")
    /\ Goto(e, "training")
    /\ UNCHANGED <<auto, gpu, answer, cut, replaced>>

\* Mutant: a failed training leaves the status alone.
TrainFailsQuietly(e) ==
    /\ at[e] = "training"
    /\ Goto(e, "releasing")
    /\ UNCHANGED <<stat, auto, gpu, answer, cut, replaced>>

TrainFails(e) ==
    /\ at[e] = "training"
    /\ Status(e, "ROLLED_BACK")
    /\ Goto(e, "releasing")
    /\ UNCHANGED <<auto, gpu, answer, cut, replaced>>

Evaluate(e) ==
    /\ at[e] = "training"
    /\ Status(e, "EVALUATING")
    /\ Goto(e, "evaluating")
    /\ UNCHANGED <<auto, gpu, answer, cut, replaced>>

\* Mutant: the gate writes a status that the framework does not know.
VerdictsUnlisted(e) == {"ROLLED_BACK", "INCONCLUSIVE"} \cup
                       (IF auto[e] THEN {"DEPLOYED"} ELSE {})

\* What _deploy_gate may decide: worse metrics roll back, better ones deploy an
\* experiment that was approved automatically, and all else goes to the operator.
Verdicts(e) == {"ROLLED_BACK", "PROPOSED"} \cup
               (IF auto[e] THEN {"DEPLOYED"} ELSE {})

DeployGate(e) ==
    /\ at[e] = "evaluating"
    /\ \E v \in Verdicts(e) : Status(e, v)
    /\ Goto(e, "releasing")
    /\ UNCHANGED <<auto, gpu, answer, cut, replaced>>

\* A write of status, metrics or artifact gives up: its exception leaves run
\* through the finally block.
WriteFails(e) ==
    /\ "dbfail" \in ExpEnv
    /\ at[e] \in {"locked", "training", "evaluating"}
    /\ cut' = cut \cup {e}
    /\ Goto(e, "releasing")
    /\ UNCHANGED <<stat, auto, gpu, answer, replaced>>

\* Mutant: the row is deleted by its name alone.
ReleaseByName(e) ==
    /\ at[e] = "releasing"
    /\ gpu' = NoExp
    /\ replaced' = replaced \ {e}
    /\ Goto(e, "ended")
    /\ UNCHANGED <<stat, auto, answer, cut>>

\* _release_gpu_lock: DELETE by name and holder; a failure is swallowed.
Release(e) ==
    /\ at[e] = "releasing"
    /\ \/ gpu' = IF gpu = e THEN NoExp ELSE gpu
       \/ "dbfail" \in ExpEnv /\ gpu' = gpu
    /\ replaced' = replaced \ {e}
    /\ Goto(e, "ended")
    /\ UNCHANGED <<stat, auto, answer, cut>>

\* The process of the run is killed: row and status stay as they are.
KillRun(e) ==
    /\ "kill" \in ExpEnv
    /\ at[e] \notin {"absent", "ended"}
    /\ cut' = cut \cup {e}
    /\ replaced' = replaced \ {e}
    /\ Goto(e, "ended")
    /\ UNCHANGED <<stat, auto, gpu, answer>>

\* Mutant: an experiment may be answered whatever its status.
ReadAnyProposal(o) ==
    /\ answer[o] = NoAnswer
    /\ \E e \in Exp, s \in {"APPROVED", "REJECTED"} :
        /\ stat[e] # "none"
        /\ answer' = [answer EXCEPT ![o] = [exp |-> e, say |-> s]]
    /\ UNCHANGED <<stat, auto, gpu, at, cut, replaced>>

\* approve and reject up to their test of the status.
ReadProposal(o) ==
    /\ answer[o] = NoAnswer
    /\ \E e \in Exp, s \in {"APPROVED", "REJECTED"} :
        /\ stat[e] = "PROPOSED"
        /\ answer' = [answer EXCEPT ![o] = [exp |-> e, say |-> s]]
    /\ UNCHANGED <<stat, auto, gpu, at, cut, replaced>>

\* Their UPDATE by id.
WriteAnswer(o) ==
    /\ answer[o] # NoAnswer
    /\ Status(answer[o].exp, answer[o].say)
    /\ answer' = [answer EXCEPT ![o] = NoAnswer]
    /\ UNCHANGED <<auto, gpu, at, cut, replaced>>

ExpStep(e) ==
    \/ Propose(e) \/ Check(e) \/ Blocked(e) \/ TakeGpu(e) \/ Begin(e)
    \/ TrainFails(e) \/ Evaluate(e) \/ DeployGate(e) \/ WriteFails(e)
    \/ Release(e) \/ KillRun(e)

ExpNext ==
    \/ \E e \in Exp : ExpStep(e)
    \/ \E o \in Answerer : ReadProposal(o) \/ WriteAnswer(o)

ExpSpec == ExpInit /\ [][ExpNext]_expVars

-----------------------------------------------------------------------------
\* Types, and: only a run on the GPU can have had its row replaced.
ExpTypeOK ==
    /\ stat \in [Exp -> Statuses]
    /\ auto \in [Exp -> BOOLEAN]
    /\ gpu \in Exp \cup {NoExp}
    /\ at \in [Exp -> Places]
    /\ answer \in [Answerer -> Answers]
    /\ cut \subseteq Exp
    /\ replaced \subseteq Exp
    /\ \A e \in replaced : OnGpu(e)

\* The row names the run that took the GPU last, as long as that run is on it:
\* neither the end nor the failure of a run it has displaced takes its row away.
\* So two runs are on the GPU together only when one displaced the other, and
\* never is a run that nobody displaced invisible to who reads the row.
RowOfLatest ==
    \A e \in Exp : OnGpu(e) /\ e \notin replaced => gpu = e

\* A record says RUNNING or EVALUATING only while its run goes on or because it
\* was cut short; and no operator, however late the answer, disturbs the record
\* of a run that was approved automatically.
RecordMatchesRun ==
    \A e \in Exp :
        /\ stat[e] \in {"RUNNING", "EVALUATING"} /\ e \notin cut
            => at[e] \in {"training", "evaluating"}
        /\ auto[e] /\ at[e] = "training" => stat[e] = "RUNNING"
        /\ auto[e] /\ at[e] = "evaluating" => stat[e] = "EVALUATING"

\* What is deployed was approved automatically and stays deployed, whatever
\* answers to proposals, read however long ago, are still to be written.
DeployedForGood ==
    [][\A e \in Exp :
        /\ stat'[e] = "DEPLOYED" => auto[e]
        /\ stat[e] = "DEPLOYED" => stat'[e] = "DEPLOYED"]_expVars
=============================================================================
