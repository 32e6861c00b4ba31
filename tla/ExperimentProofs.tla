-------------------------- MODULE ExperimentProofs --------------------------
(***************************************************************************)
(* Proofs about Experiment, for any set of experiments and requests.       *)
(***************************************************************************)
EXTENDS Experiment, TLAPS

\* The record of an automatic approval before its run begins; and what is
\* deployed has left the GPU's part of run.
AutoUndisturbed ==
    \A e \in Exp :
        /\ at[e] = "absent" => stat[e] = "none" /\ ~auto[e]
        /\ auto[e] /\ at[e] \in {"proposed", "approved", "locked"}
            => stat[e] = "APPROVED"
        /\ stat[e] = "DEPLOYED" => auto[e] /\ at[e] \in {"releasing", "ended"}

\* An answer under way was read when the record said PROPOSED: for an automatic
\* approval that is after its gate, which then did not deploy it.
AnswersLate ==
    \A o \in Answerer : answer[o] # NoAnswer =>
        /\ at[answer[o].exp] # "absent"
        /\ auto[answer[o].exp] =>
            /\ at[answer[o].exp] \in {"releasing", "ended"}
            /\ stat[answer[o].exp] # "DEPLOYED"

ExpInv ==
    /\ ExpTypeOK /\ RowOfLatest /\ RecordMatchesRun
    /\ AutoUndisturbed /\ AnswersLate

-----------------------------------------------------------------------------
LEMMA ExpInitInv == ExpInit => ExpInv
  BY DEF ExpInit, ExpInv, ExpTypeOK, RowOfLatest, RecordMatchesRun,
         AutoUndisturbed, AnswersLate, OnGpu, Statuses, Places, Answers,
         NoAnswer

LEMMA AnswerFields ==
    ASSUME ExpTypeOK, NEW o \in Answerer, answer[o] # NoAnswer
    PROVE  answer[o].exp \in Exp /\ answer[o].say \in {"APPROVED", "REJECTED"}
  BY DEF ExpTypeOK, Answers

LEMMA ProposeKeeps ==
    ASSUME ExpAssumption, ExpInv, NEW e \in Exp, Propose(e)
    PROVE  ExpInv'
<1> USE DEF ExpInv
<1>1. ExpTypeOK'
  BY DEF Propose, Goto, Status, ExpTypeOK, Statuses, Places, OnGpu
<1>2. RowOfLatest'
  BY DEF Propose, Goto, RowOfLatest, OnGpu
<1>3. RecordMatchesRun'
  BY DEF Propose, Goto, Status, RecordMatchesRun
<1>4. AutoUndisturbed'
  BY DEF Propose, Goto, Status, ExpTypeOK, AutoUndisturbed
<1>5. AnswersLate'
  BY AnswerFields DEF Propose, Goto, Status, AnswersLate
<1> QED  BY <1>1, <1>2, <1>3, <1>4, <1>5

LEMMA CheckKeeps ==
    ASSUME ExpAssumption, ExpInv, NEW e \in Exp, Check(e)
    PROVE  ExpInv'
<1> USE DEF ExpInv
<1>1. ExpTypeOK'
  BY DEF Check, Goto, ExpTypeOK, Places, OnGpu
<1>2. RowOfLatest'
  BY DEF Check, Goto, RowOfLatest, OnGpu
<1>3. RecordMatchesRun'
  BY DEF Check, Goto, RecordMatchesRun
<1>4. AutoUndisturbed'
  BY DEF Check, Goto, AutoUndisturbed
<1>5. AnswersLate'
  BY AnswerFields DEF Check, Goto, AnswersLate
<1> QED  BY <1>1, <1>2, <1>3, <1>4, <1>5

LEMMA BlockedKeeps ==
    ASSUME ExpAssumption, ExpInv, NEW e \in Exp, Blocked(e)
    PROVE  ExpInv'
<1> USE DEF ExpInv
<1>1. ExpTypeOK'
  BY DEF Blocked, Goto, ExpTypeOK, Places, OnGpu
<1>2. RowOfLatest'
  BY DEF Blocked, Goto, RowOfLatest, OnGpu
<1>3. RecordMatchesRun'
  BY DEF Blocked, Goto, RecordMatchesRun
<1>4. AutoUndisturbed'
  BY DEF Blocked, Goto, AutoUndisturbed
<1>5. AnswersLate'
  BY AnswerFields DEF Blocked, Goto, AnswersLate
<1> QED  BY <1>1, <1>2, <1>3, <1>4, <1>5

LEMMA TakeGpuKeeps ==
    ASSUME ExpAssumption, ExpInv, NEW e \in Exp, TakeGpu(e)
    PROVE  ExpInv'
<1> USE DEF ExpInv
<1>1. ExpTypeOK'
  BY DEF TakeGpu, Goto, ExpTypeOK, Places, OnGpu
<1>2. RowOfLatest'
  BY DEF TakeGpu, Goto, RowOfLatest, OnGpu
<1>3. RecordMatchesRun'
  BY DEF TakeGpu, Goto, RecordMatchesRun
<1>4. AutoUndisturbed'
  BY DEF TakeGpu, Goto, AutoUndisturbed
<1>5. AnswersLate'
  BY AnswerFields DEF TakeGpu, Goto, AnswersLate
<1> QED  BY <1>1, <1>2, <1>3, <1>4, <1>5

LEMMA BeginKeeps ==
    ASSUME ExpAssumption, ExpInv, NEW e \in Exp, Begin(e)
    PROVE  ExpInv'
<1> USE DEF ExpInv
<1>1. ExpTypeOK'
  BY DEF Begin, Goto, Status, ExpTypeOK, Statuses, Places, OnGpu
<1>2. RowOfLatest'
  BY DEF Begin, Goto, RowOfLatest, OnGpu
<1>3. RecordMatchesRun'
  BY DEF Begin, Goto, Status, ExpTypeOK, RecordMatchesRun
<1>4. AutoUndisturbed'
  BY DEF Begin, Goto, Status, ExpTypeOK, AutoUndisturbed
<1>5. AnswersLate'
  BY AnswerFields DEF Begin, Goto, Status, AnswersLate
<1> QED  BY <1>1, <1>2, <1>3, <1>4, <1>5

LEMMA TrainFailsKeeps ==
    ASSUME ExpAssumption, ExpInv, NEW e \in Exp, TrainFails(e)
    PROVE  ExpInv'
<1> USE DEF ExpInv
<1>1. ExpTypeOK'
  BY DEF TrainFails, Goto, Status, ExpTypeOK, Statuses, Places, OnGpu
<1>2. RowOfLatest'
  BY DEF TrainFails, Goto, RowOfLatest, OnGpu
<1>3. RecordMatchesRun'
  BY DEF TrainFails, Goto, Status, ExpTypeOK, RecordMatchesRun
<1>4. AutoUndisturbed'
  BY DEF TrainFails, Goto, Status, AutoUndisturbed
<1>5. AnswersLate'
  BY AnswerFields DEF TrainFails, Goto, Status, AnswersLate
<1> QED  BY <1>1, <1>2, <1>3, <1>4, <1>5

LEMMA EvaluateKeeps ==
    ASSUME ExpAssumption, ExpInv, NEW e \in Exp, Evaluate(e)
    PROVE  ExpInv'
<1> USE DEF ExpInv
<1>1. ExpTypeOK'
  BY DEF Evaluate, Goto, Status, ExpTypeOK, Statuses, Places, OnGpu
<1>2. RowOfLatest'
  BY DEF Evaluate, Goto, RowOfLatest, OnGpu
<1>3. RecordMatchesRun'
  BY DEF Evaluate, Goto, Status, ExpTypeOK, RecordMatchesRun
<1>4. AutoUndisturbed'
  BY DEF Evaluate, Goto, Status, AutoUndisturbed
<1>5. AnswersLate'
  BY AnswerFields DEF Evaluate, Goto, Status, AnswersLate
<1> QED  BY <1>1, <1>2, <1>3, <1>4, <1>5

LEMMA DeployGateKeeps ==
    ASSUME ExpAssumption, ExpInv, NEW e \in Exp, DeployGate(e)
    PROVE  ExpInv'
<1> USE DEF ExpInv
<1>1. ExpTypeOK'
  BY DEF DeployGate, Goto, Status, Verdicts, ExpTypeOK, Statuses, Places, OnGpu
<1>2. RowOfLatest'
  BY DEF DeployGate, Goto, RowOfLatest, OnGpu
<1>3. RecordMatchesRun'
  BY DEF DeployGate, Goto, Status, Verdicts, ExpTypeOK, RecordMatchesRun
<1>4. AutoUndisturbed'
  BY DEF DeployGate, Goto, Status, Verdicts, ExpTypeOK, AutoUndisturbed
<1>5. AnswersLate'
  BY AnswerFields DEF DeployGate, Goto, Status, AnswersLate
<1> QED  BY <1>1, <1>2, <1>3, <1>4, <1>5

LEMMA WriteFailsKeeps ==
    ASSUME ExpAssumption, ExpInv, NEW e \in Exp, WriteFails(e)
    PROVE  ExpInv'
<1> USE DEF ExpInv
<1>1. ExpTypeOK'
  BY DEF WriteFails, Goto, ExpTypeOK, Places, OnGpu
<1>2. RowOfLatest'
  BY DEF WriteFails, Goto, RowOfLatest, OnGpu
<1>3. RecordMatchesRun'
  BY DEF WriteFails, Goto, RecordMatchesRun
<1>4. AutoUndisturbed'
  BY DEF WriteFails, Goto, AutoUndisturbed
<1>5. AnswersLate'
  BY AnswerFields DEF WriteFails, Goto, AnswersLate
<1> QED  BY <1>1, <1>2, <1>3, <1>4, <1>5

LEMMA ReleaseKeeps ==
    ASSUME ExpAssumption, ExpInv, NEW e \in Exp, Release(e)
    PROVE  ExpInv'
<1> USE DEF ExpInv
<1>1. ExpTypeOK'
  BY DEF Release, Goto, ExpTypeOK, Places, OnGpu
<1>2. RowOfLatest'
  BY DEF Release, Goto, ExpTypeOK, RowOfLatest, OnGpu
<1>3. RecordMatchesRun'
  BY DEF Release, Goto, RecordMatchesRun
<1>4. AutoUndisturbed'
  BY DEF Release, Goto, AutoUndisturbed
<1>5. AnswersLate'
  BY AnswerFields DEF Release, Goto, AnswersLate
<1> QED  BY <1>1, <1>2, <1>3, <1>4, <1>5

LEMMA KillRunKeeps ==
    ASSUME ExpAssumption, ExpInv, NEW e \in Exp, KillRun(e)
    PROVE  ExpInv'
<1> USE DEF ExpInv
<1>1. ExpTypeOK'
  BY DEF KillRun, Goto, ExpTypeOK, Places, OnGpu
<1>2. RowOfLatest'
  BY DEF KillRun, Goto, ExpTypeOK, RowOfLatest, OnGpu
<1>3. RecordMatchesRun'
  BY DEF KillRun, Goto, RecordMatchesRun
<1>4. AutoUndisturbed'
  BY DEF KillRun, Goto, AutoUndisturbed
<1>5. AnswersLate'
  BY AnswerFields DEF KillRun, Goto, AnswersLate
<1> QED  BY <1>1, <1>2, <1>3, <1>4, <1>5

LEMMA ReadProposalKeeps ==
    ASSUME ExpAssumption, ExpInv, NEW o \in Answerer, ReadProposal(o)
    PROVE  ExpInv'
<1> USE DEF ExpInv
<1>1. ExpTypeOK'
  BY DEF ReadProposal, ExpTypeOK, OnGpu, Answers
<1>2. RowOfLatest'
  BY DEF ReadProposal, RowOfLatest, OnGpu
<1>3. RecordMatchesRun'
  BY DEF ReadProposal, RecordMatchesRun
<1>4. AutoUndisturbed'
  BY DEF ReadProposal, AutoUndisturbed
<1>5. AnswersLate'
  <2>1. PICK f \in Exp, s \in {"APPROVED", "REJECTED"} :
          /\ stat[f] = "PROPOSED"
          /\ answer' = [answer EXCEPT ![o] = [exp |-> f, say |-> s]]
    BY DEF ReadProposal
  <2>2. at[f] # "absent"
    BY <2>1 DEF AutoUndisturbed
  <2>3. auto[f] => at[f] \in {"releasing", "ended"}
    BY <2>1, <2>2 DEF AutoUndisturbed, RecordMatchesRun, ExpTypeOK, Places
  <2>4. \A p \in Answerer \ {o} : answer'[p] = answer[p]
    BY <2>1 DEF ExpTypeOK
  <2>5. answer'[o].exp = f
    BY <2>1 DEF ExpTypeOK
  <2>6. UNCHANGED <<stat, auto, at>>
    BY DEF ReadProposal
  <2> QED  BY <2>1, <2>2, <2>3, <2>4, <2>5, <2>6 DEF AnswersLate
<1> QED  BY <1>1, <1>2, <1>3, <1>4, <1>5

LEMMA WriteAnswerKeeps ==
    ASSUME ExpAssumption, ExpInv, NEW o \in Answerer, WriteAnswer(o)
    PROVE  ExpInv'
<1> USE DEF ExpInv
<1>1. ExpTypeOK'
  BY AnswerFields DEF WriteAnswer, Status, ExpTypeOK, Statuses, OnGpu, Answers
<1>2. RowOfLatest'
  BY DEF WriteAnswer, RowOfLatest, OnGpu
<1>3. RecordMatchesRun'
  BY AnswerFields DEF WriteAnswer, Status, RecordMatchesRun, AnswersLate
<1>4. AutoUndisturbed'
  BY AnswerFields DEF WriteAnswer, Status, AutoUndisturbed, AnswersLate
<1>5. AnswersLate'
  BY AnswerFields DEF WriteAnswer, Status, AnswersLate, NoAnswer
<1> QED  BY <1>1, <1>2, <1>3, <1>4, <1>5

LEMMA ExpStutterKeeps ==
    ASSUME ExpInv, UNCHANGED expVars PROVE ExpInv'
  BY DEF ExpInv, ExpTypeOK, RowOfLatest, RecordMatchesRun, AutoUndisturbed,
         AnswersLate, OnGpu, expVars

LEMMA ExpNextKeeps ==
    ASSUME ExpAssumption, ExpInv, [ExpNext]_expVars PROVE ExpInv'
<1>1. CASE \E e \in Exp : ExpStep(e)
  <2>1. PICK e \in Exp : ExpStep(e)
    BY <1>1
  <2> QED
    BY <2>1, ProposeKeeps, CheckKeeps, BlockedKeeps, TakeGpuKeeps, BeginKeeps,
         TrainFailsKeeps, EvaluateKeeps, DeployGateKeeps, WriteFailsKeeps,
         ReleaseKeeps, KillRunKeeps
    DEF ExpStep
<1>2. CASE \E o \in Answerer : ReadProposal(o) \/ WriteAnswer(o)
  BY <1>2, ReadProposalKeeps, WriteAnswerKeeps
<1>3. CASE UNCHANGED expVars
  BY <1>3, ExpStutterKeeps
<1> QED  BY <1>1, <1>2, <1>3 DEF ExpNext

\* The invariant of every behaviour.
THEOREM ExpInvariant == ExpSpec => []ExpInv
<1>1. ExpInv /\ [ExpNext]_expVars => ExpInv'
  BY ExpNextKeeps, ExpAssumption
<1> QED  BY ExpInitInv, <1>1, PTL DEF ExpSpec

\* Types, for any number of experiments.
THEOREM ExpTypeCorrect == ExpSpec => []ExpTypeOK
<1>1. ExpInv => ExpTypeOK
  BY DEF ExpInv
<1> QED  BY ExpInvariant, <1>1, PTL

\* The row of the locks table names the run that took the GPU last.
THEOREM LatestHasRow == ExpSpec => []RowOfLatest
<1>1. ExpInv => RowOfLatest
  BY DEF ExpInv
<1> QED  BY ExpInvariant, <1>1, PTL

\* A record that says RUNNING or EVALUATING has its run, unless that was cut
\* short; late answers do not reach automatic approvals.
THEOREM RecordsMatch == ExpSpec => []RecordMatchesRun
<1>1. ExpInv => RecordMatchesRun
  BY DEF ExpInv
<1> QED  BY ExpInvariant, <1>1, PTL

LEMMA DeployedStep ==
    ASSUME ExpAssumption, ExpInv, [ExpNext]_expVars, NEW e \in Exp
    PROVE  /\ stat'[e] = "DEPLOYED" => auto[e]
           /\ stat[e] = "DEPLOYED" => stat'[e] = "DEPLOYED"
<1> USE DEF ExpInv, ExpTypeOK, AutoUndisturbed
<1>1. CASE UNCHANGED expVars
  BY <1>1 DEF expVars
<1>2. CASE \E f \in Exp : ExpStep(f)
  <2>1. PICK f \in Exp : ExpStep(f)
    BY <1>2
  <2>2. CASE Propose(f)
    BY <2>2 DEF Propose, Status
  <2>3. CASE Begin(f) \/ TrainFails(f) \/ Evaluate(f)
    BY <2>3 DEF Begin, TrainFails, Evaluate, Status
  <2>4. CASE DeployGate(f)
    BY <2>4 DEF DeployGate, Verdicts, Status
  <2>5. CASE UNCHANGED stat
    BY <2>5
  <2> QED
    BY <2>1, <2>2, <2>3, <2>4, <2>5
    DEF ExpStep, Check, Blocked, TakeGpu, WriteFails, Release, KillRun
<1>3. CASE \E o \in Answerer : ReadProposal(o) \/ WriteAnswer(o)
  <2>1. PICK o \in Answerer : ReadProposal(o) \/ WriteAnswer(o)
    BY <1>3
  <2>2. CASE ReadProposal(o)
    BY <2>2 DEF ReadProposal
  <2>3. CASE WriteAnswer(o)
    <3>1. answer[o].exp \in Exp /\ answer[o].say \in {"APPROVED", "REJECTED"}
      BY <2>3, AnswerFields DEF WriteAnswer
    <3>2. stat[answer[o].exp] # "DEPLOYED"
      BY <2>3, <3>1 DEF WriteAnswer, AnswersLate
    <3> QED  BY <2>3, <3>1, <3>2 DEF WriteAnswer, Status
  <2> QED  BY <2>1, <2>2, <2>3
<1> QED  BY <1>1, <1>2, <1>3 DEF ExpNext

\* Deployed is for good, however late an answer comes.
THEOREM DeployedStays == ExpSpec => DeployedForGood
<1>1. ExpInv /\ [ExpNext]_expVars =>
        [\A e \in Exp :
            /\ stat'[e] = "DEPLOYED" => auto[e]
            /\ stat[e] = "DEPLOYED" => stat'[e] = "DEPLOYED"]_expVars
  BY DeployedStep, ExpAssumption
<1> QED  BY ExpInvariant, <1>1, PTL DEF ExpSpec, DeployedForGood
=============================================================================
