------------------------------ MODULE FleetLock ------------------------------
(***************************************************************************)
(* The named lock "training" of BigEd's fleet database: a row of the locks *)
(* table with a holder and a time (fleet/db.py), taken and released by     *)
(* acquire_lock and release_lock (fleet/db_agents.py) around a run of the  *)
(* skill_train skill.  A run is one thread of one worker; the thread of a  *)
(* run that worker.py has timed out goes on, while its task starts another *)
(* run of the same skill.                                                  *)
(*                                                                         *)
(* acquire_lock SELECTs the row outside any transaction; the transaction   *)
(* opens at its first write and commits after the second SELECT.  So it is *)
(* two steps: what it read, and what it then does about it.                *)
(***************************************************************************)
EXTENDS Naturals, FiniteSets

CONSTANTS
    Run,        \* threads that run skill_train, here or in other processes
    Skill,      \* skills to train; the holder is "skill_train:<skill>"
    None,       \* no row, no skill
    Env         \* the optional events of an instance

LockEvents == {"expire", "die"}

ASSUME LockAssumption ==
    /\ None \notin Skill
    /\ Env \subseteq LockEvents

VARIABLES
    lock,       \* holder column of the row "training", None without a row
    expired,    \* the row is older than timeout_secs
    pc,         \* where each run is
    skill,      \* the skill it trains
    overtaken,  \* history: training, its row deleted by a take of an old row
    orphaned    \* history: training, its row deleted by a run of its skill

vars == <<lock, expired, pc, skill, overtaken, orphaned>>

\* "absent" and "stale": it found no row, or one too old, and will write.
RunPlaces == {"idle", "absent", "stale", "training"}

Training(s) == {r \in Run : pc[r] = "training" /\ skill[r] = s}

Init ==
    /\ lock = None
    /\ expired = FALSE
    /\ pc = [r \in Run |-> "idle"]
    /\ skill = [r \in Run |-> None]
    /\ overtaken = {}
    /\ orphaned = {}

-----------------------------------------------------------------------------
\* What the first SELECT tells a run for skill s.  A fresh row of another
\* holder makes acquire_lock return False: nothing changes.
Seen(s, place) ==
    \/ lock = s /\ place = "training"
    \/ lock = None /\ place = "absent"
    \/ lock \notin {s, None} /\ expired /\ place = "stale"

\* acquire_lock up to the first write.  A row of one's own holder is enough,
\* whatever its age, and its time is not refreshed.
Read(r) ==
    /\ pc[r] = "idle"
    /\ \E s \in Skill, place \in RunPlaces :
        /\ Seen(s, place)
        /\ pc' = [pc EXCEPT ![r] = place]
        /\ skill' = [skill EXCEPT ![r] = s]
    /\ UNCHANGED <<lock, expired, overtaken, orphaned>>

\* The run leaves the lock's protocol: it ended, was refused, or its thread died.
Leave(r) ==
    /\ pc' = [pc EXCEPT ![r] = "idle"]
    /\ skill' = [skill EXCEPT ![r] = None]

\* Mutant: the holder is not read back after INSERT OR IGNORE.
InsertUnchecked(r) ==
    /\ pc[r] = "absent"
    /\ lock' = IF lock = None THEN skill[r] ELSE lock
    /\ pc' = [pc EXCEPT ![r] = "training"]
    /\ UNCHANGED <<expired, skill, overtaken, orphaned>>

\* No row was read: INSERT OR IGNORE, then the holder is read back.
Insert(r) ==
    /\ pc[r] = "absent"
    /\ lock' = IF lock = None THEN skill[r] ELSE lock
    /\ IF lock' = skill[r]
       THEN pc' = [pc EXCEPT ![r] = "training"] /\ UNCHANGED skill
       ELSE Leave(r)
    /\ UNCHANGED <<expired, overtaken, orphaned>>

\* An old row was read: DELETE by name alone, whatever row is there now, then
\* INSERT, in one transaction.
TakeOver(r) ==
    /\ pc[r] = "stale"
    /\ lock' = skill[r]
    /\ expired' = FALSE
    /\ pc' = [pc EXCEPT ![r] = "training"]
    /\ overtaken' = IF lock = skill[r] THEN overtaken
                                       ELSE overtaken \cup Training(lock)
    /\ UNCHANGED <<skill, orphaned>>

\* Mutant: the age of the deleted row outlives it.
FinishKeepsAge(r) ==
    /\ pc[r] = "training"
    /\ lock' = IF lock = skill[r] THEN None ELSE lock
    /\ orphaned' = (IF lock = skill[r] THEN orphaned \cup Training(lock)
                                       ELSE orphaned) \ {r}
    /\ overtaken' = overtaken \ {r}
    /\ Leave(r)
    /\ UNCHANGED expired

\* The end of the run, also by an exception: DELETE by name and holder.
Finish(r) ==
    /\ pc[r] = "training"
    /\ lock' = IF lock = skill[r] THEN None ELSE lock
    /\ expired' = (expired /\ lock # skill[r])
    /\ orphaned' = (IF lock = skill[r] THEN orphaned \cup Training(lock)
                                       ELSE orphaned) \ {r}
    /\ overtaken' = overtaken \ {r}
    /\ Leave(r)

\* The worker process is killed, or the release fails: the row stays.
Die(r) ==
    /\ "die" \in Env
    /\ pc[r] # "idle"
    /\ overtaken' = overtaken \ {r}
    /\ orphaned' = orphaned \ {r}
    /\ Leave(r)
    /\ UNCHANGED <<lock, expired>>

\* timeout_secs pass since the row was inserted.
Expire ==
    /\ "expire" \in Env
    /\ lock # None
    /\ expired' = TRUE
    /\ UNCHANGED <<lock, pc, skill, overtaken, orphaned>>

Next ==
    \/ \E r \in Run : Read(r) \/ Insert(r) \/ TakeOver(r) \/ Finish(r) \/ Die(r)
    \/ Expire

Spec == Init /\ [][Next]_vars

-----------------------------------------------------------------------------
\* Types, and: an idle run has no skill, no row has no age, and only training
\* runs can have lost their row.
LockTypeOK ==
    /\ lock \in Skill \cup {None}
    /\ expired \in BOOLEAN
    /\ expired => lock # None
    /\ pc \in [Run -> RunPlaces]
    /\ skill \in [Run -> Skill \cup {None}]
    /\ \A r \in Run : pc[r] = "idle" <=> skill[r] = None
    /\ \A r \in overtaken \cup orphaned : r \in Run /\ pc[r] = "training"

\* Runs of different skills train at the same time only when one of them lost
\* its row while it trained, in one of two ways: a run that had read an old row
\* deleted it, or a run of the same skill, let in beside it, released it.
ExclusiveWhileHeld ==
    \A r, q \in Run :
        pc[r] = "training" /\ pc[q] = "training" /\ skill[r] # skill[q]
            => {r, q} \cap (overtaken \cup orphaned) # {}

\* skill_train.py: the training lock is exclusive.  At the weakest, trainings of
\* different skills do not overlap.
ExclusiveTraining ==
    \A r, q \in Run :
        pc[r] = "training" /\ pc[q] = "training" => skill[r] = skill[q]
=============================================================================
