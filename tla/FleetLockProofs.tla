--------------------------- MODULE FleetLockProofs ---------------------------
(***************************************************************************)
(* What holds of FleetLock for every set of runs and skills.               *)
(***************************************************************************)
EXTENDS FleetLock, TLAPS

\* The types hold in every reachable state.
LEMMA TypeStep == ASSUME LockTypeOK, [Next]_vars PROVE LockTypeOK'
<1> USE LockAssumption DEF LockTypeOK, RunPlaces
<1>1. ASSUME NEW r \in Run, Read(r) PROVE LockTypeOK'
  <2>1. PICK s \in Skill, place \in RunPlaces :
            /\ Seen(s, place)
            /\ pc' = [pc EXCEPT ![r] = place]
            /\ skill' = [skill EXCEPT ![r] = s]
    BY <1>1 DEF Read
  <2>2. place # "idle" BY <2>1 DEF Seen
  <2>3. pc[r] = "idle" /\ UNCHANGED <<lock, expired, overtaken, orphaned>>
    BY <1>1 DEF Read
  <2> QED BY <2>1, <2>2, <2>3
<1>2. ASSUME NEW r \in Run, Insert(r) PROVE LockTypeOK'
  BY <1>2 DEF Insert, Leave
<1>3. ASSUME NEW r \in Run, TakeOver(r) PROVE LockTypeOK'
  BY <1>3 DEF TakeOver, Training
<1>4. ASSUME NEW r \in Run, Finish(r) PROVE LockTypeOK'
  BY <1>4 DEF Finish, Leave, Training
<1>5. ASSUME NEW r \in Run, Die(r) PROVE LockTypeOK'
  BY <1>5 DEF Die, Leave
<1>6. CASE Expire BY <1>6 DEF Expire
<1>7. CASE UNCHANGED vars BY <1>7 DEF vars
<1> QED BY <1>1, <1>2, <1>3, <1>4, <1>5, <1>6, <1>7 DEF Next

\* acquire_lock and release_lock keep the row, the runs and the histories of
\* their types; an idle run holds no skill and only training runs lose a row.
THEOREM LockTypeCorrect == Spec => []LockTypeOK
<1>1. Init => LockTypeOK
  BY LockAssumption DEF Init, LockTypeOK, RunPlaces
<1>2. LockTypeOK /\ [Next]_vars => LockTypeOK' BY TypeStep
<1> QED BY <1>1, <1>2, PTL DEF Spec

\* The strengthening: a run that trains has its row, or has lost it in one of
\* the two ways.
RowOfTraining ==
    \A r \in Run : pc[r] = "training" =>
        lock = skill[r] \/ r \in overtaken \cup orphaned

LEMMA RowStep ==
    ASSUME LockTypeOK, RowOfTraining, [Next]_vars PROVE RowOfTraining'
<1> USE LockAssumption DEF LockTypeOK, RunPlaces, RowOfTraining
<1>1. ASSUME NEW r \in Run, Read(r) PROVE RowOfTraining'
  <2>1. PICK s \in Skill, place \in RunPlaces :
            /\ Seen(s, place)
            /\ pc' = [pc EXCEPT ![r] = place]
            /\ skill' = [skill EXCEPT ![r] = s]
    BY <1>1 DEF Read
  <2>2. place = "training" => lock = s BY <2>1 DEF Seen
  <2>3. pc[r] = "idle" /\ UNCHANGED <<lock, expired, overtaken, orphaned>>
    BY <1>1 DEF Read
  <2> QED BY <2>1, <2>2, <2>3
<1>2. ASSUME NEW r \in Run, Insert(r) PROVE RowOfTraining'
  <2>1. CASE lock = None
    BY <1>2, <2>1 DEF Insert, Leave
  <2>2. CASE lock # None
    BY <1>2, <2>2 DEF Insert, Leave
  <2> QED BY <2>1, <2>2
<1>3. ASSUME NEW r \in Run, TakeOver(r) PROVE RowOfTraining'
  BY <1>3 DEF TakeOver, Training
<1>4. ASSUME NEW r \in Run, Finish(r) PROVE RowOfTraining'
  BY <1>4 DEF Finish, Leave, Training
<1>5. ASSUME NEW r \in Run, Die(r) PROVE RowOfTraining'
  BY <1>5 DEF Die, Leave
<1>6. CASE Expire BY <1>6 DEF Expire
<1>7. CASE UNCHANGED vars BY <1>7 DEF vars
<1> QED BY <1>1, <1>2, <1>3, <1>4, <1>5, <1>6, <1>7 DEF Next

\* Trainings of different skills overlap only after one of them lost its row,
\* to a take of an old row or to the release of a run of its own skill.
THEOREM HeldExclusively == Spec => []ExclusiveWhileHeld
<1>1. Init => RowOfTraining BY DEF Init, RowOfTraining
<1>2. LockTypeOK /\ RowOfTraining /\ [Next]_vars => RowOfTraining' BY RowStep
<1>3. RowOfTraining => ExclusiveWhileHeld
  BY DEF RowOfTraining, ExclusiveWhileHeld
<1> QED BY <1>1, <1>2, <1>3, LockTypeCorrect, PTL DEF Spec

\* No row is old and nobody has read an old one.
NoLeaseEnds ==
    /\ ~expired
    /\ \A r \in Run : pc[r] # "stale"
    /\ overtaken = {}

\* Without a lease that ends under it no training is overtaken: the release of
\* a run of the same skill is then the only way to trainings of two skills.
THEOREM ExclusiveUnlessOrphaned ==
    ASSUME "expire" \notin Env
    PROVE  Spec => [](/\ overtaken = {}
                      /\ orphaned = {} => ExclusiveTraining)
<1>1. Init => NoLeaseEnds BY DEF Init, NoLeaseEnds
<1>2. LockTypeOK /\ NoLeaseEnds /\ [Next]_vars => NoLeaseEnds'
  <2> SUFFICES ASSUME LockTypeOK, NoLeaseEnds, [Next]_vars PROVE NoLeaseEnds'
    OBVIOUS
  <2> USE DEF LockTypeOK, NoLeaseEnds
  <2>1. ASSUME NEW r \in Run, Read(r) PROVE NoLeaseEnds'
    <3>1. PICK s \in Skill, place \in RunPlaces :
              /\ Seen(s, place)
              /\ pc' = [pc EXCEPT ![r] = place]
      BY <2>1 DEF Read
    <3>2. place # "stale" BY <3>1 DEF Seen
    <3> QED BY <2>1, <3>1, <3>2 DEF Read
  <2>2. ASSUME NEW r \in Run, Insert(r) PROVE NoLeaseEnds'
    BY <2>2 DEF Insert, Leave
  <2>3. ASSUME NEW r \in Run, TakeOver(r) PROVE NoLeaseEnds'
    BY <2>3 DEF TakeOver
  <2>4. ASSUME NEW r \in Run, Finish(r) PROVE NoLeaseEnds'
    BY <2>4 DEF Finish, Leave
  <2>5. ASSUME NEW r \in Run, Die(r) PROVE NoLeaseEnds'
    BY <2>5 DEF Die, Leave
  <2>6. ~Expire BY "expire" \notin Env DEF Expire
  <2>7. CASE UNCHANGED vars BY <2>7 DEF vars
  <2> QED BY <2>1, <2>2, <2>3, <2>4, <2>5, <2>6, <2>7 DEF Next
<1>3. NoLeaseEnds /\ ExclusiveWhileHeld =>
         /\ overtaken = {}
         /\ orphaned = {} => ExclusiveTraining
  BY DEF NoLeaseEnds, ExclusiveWhileHeld, ExclusiveTraining
<1> QED BY <1>1, <1>2, <1>3, LockTypeCorrect, HeldExclusively, PTL DEF Spec
=============================================================================
