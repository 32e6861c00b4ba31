----------------------------- MODULE Federation -----------------------------
(***************************************************************************)
(* Overflow between BigEd fleets: the scheduler of a fleet whose queue is  *)
(* too long posts PENDING tasks to a peer (fleet/scheduler.py,             *)
(* fleet/federation_router.py), where they become new tasks                *)
(* (fleet/event_triggers.py), and marks them FORWARDED at home.            *)
(*                                                                         *)
(* Each fleet has its own table of tasks; the only link between a task and *)
(* its copy is the answer to the request.  Meanwhile workers claim rows,   *)
(* and DAG threads promote rows by id that they read as WAITING            *)
(* (fleet/db_tasks.py, modelled in full in TaskQueue).                     *)
(***************************************************************************)
EXTENDS Naturals, FiniteSets

CONSTANTS
    Fleet,      \* fleets that know each other
    Job,        \* what is asked for, once each
    Row,        \* rows of the tables of all fleets
    NoRow,      \* no row, no fleet, no job
    DagThread,  \* DAG threads
    Limit,      \* rows read in one pass, 5 in scheduler.py
    FedEnv      \* the optional events of an instance

FedEvents == {"lost", "refused", "dbfail", "die", "putback"}

ASSUME FedAssumption ==
    /\ NoRow \notin Fleet \cup Job \cup Row
    /\ Limit \in Nat
    /\ FedEnv \subseteq FedEvents

VARIABLES
    row,        \* status column, "none" before the INSERT
    home,       \* the fleet whose table a row is in
    job,        \* the job it carries
    route,      \* each scheduler's pass: peer, rows to post, row to be marked
    busy,       \* rows that a worker executes
    promoting,  \* the row a DAG thread has read as WAITING
    newest,     \* history: the row of a job that was inserted last
    kept        \* history: rows that stay or run although a peer has them

fedVars == <<row, home, job, route, busy, promoting, newest, kept>>

RowStatuses == {"none", "WAITING", "PENDING", "RUNNING", "DONE", "FORWARDED"}

NoRoute == [peer |-> NoRow, batch |-> {}, sent |-> NoRow]
Routes == [peer : Fleet \cup {NoRow}, batch : SUBSET Row, sent : Row \cup {NoRow}]

FedInit ==
    /\ row = [r \in Row |-> "none"]
    /\ home = [r \in Row |-> NoRow]
    /\ job = [r \in Row |-> NoRow]
    /\ route = [f \in Fleet |-> NoRoute]
    /\ busy = {}
    /\ promoting = [d \in DagThread |-> NoRow]
    /\ newest = [j \in Job |-> NoRow]
    /\ kept = {}

-----------------------------------------------------------------------------
\* AUTOINCREMENT picks the new row.
Fresh == CHOOSE n \in Row : row[n] = "none"

\* post_task: a new row of fleet f.
InsertRow(f, j, s) ==
    LET n == Fresh IN
    /\ \E r \in Row : row[r] = "none"
    /\ row' = [row EXCEPT ![n] = s]
    /\ home' = [home EXCEPT ![n] = f]
    /\ job' = [job EXCEPT ![n] = j]
    /\ newest' = [newest EXCEPT ![j] = n]

\* Somebody asks a fleet for a job; with dependencies its row is WAITING.
Submit(j) ==
    /\ newest[j] = NoRow
    /\ \E f \in Fleet, s \in {"WAITING", "PENDING"} : InsertRow(f, j, s)
    /\ UNCHANGED <<route, busy, promoting, kept>>

\* Mutant: rows learnt from peers are read with one's own.
PendingAnywhere(f) == {r \in Row : row[r] = "PENDING"}

Pending(f) == {r \in Row : home[r] = f /\ row[r] = "PENDING"}

\* A pass of the scheduler: it reads the first PENDING rows, less those of a
\* priority that stays local, and picks a peer.
Select(f) ==
    /\ route[f] = NoRoute
    /\ \E g \in Fleet \ {f}, batch \in SUBSET Pending(f) \ {{}} :
        /\ Cardinality(batch) <= Limit
        /\ route' = [route EXCEPT ![f] = [peer |-> g, batch |-> batch, sent |-> NoRow]]
    /\ UNCHANGED <<row, home, job, busy, promoting, newest, kept>>

\* The scheduler of f is about to post r, as it was when it was read.
Posting(f, r) == route[f].sent = NoRow /\ r \in route[f].batch

\* route_to_peer succeeds: the peer has a row of its own, without the
\* dependencies and the pin of r, and the answer has come.
PostAnswered(f, r) ==
    /\ Posting(f, r)
    /\ InsertRow(route[f].peer, job[r], "PENDING")
    /\ route' = [route EXCEPT ![f].batch = @ \ {r}, ![f].sent = r]
    /\ UNCHANGED <<busy, promoting, kept>>

\* The peer has the task and the answer is lost or late: a failure, which ends
\* the pass.
PostUnanswered(f, r) ==
    /\ "lost" \in FedEnv
    /\ Posting(f, r)
    /\ InsertRow(route[f].peer, job[r], "PENDING")
    /\ route' = [route EXCEPT ![f] = NoRoute]
    /\ kept' = kept \cup {r}
    /\ UNCHANGED <<busy, promoting>>

\* Mutant: any failure of the request is taken for an answer.
PostRefusedForwards(f, r) ==
    /\ "refused" \in FedEnv
    /\ Posting(f, r)
    /\ route' = [route EXCEPT ![f].batch = @ \ {r}, ![f].sent = r]
    /\ UNCHANGED <<row, home, job, busy, promoting, newest, kept>>

\* The peer is not reached or refuses (10 tasks a minute, roles).
PostRefused(f, r) ==
    /\ "refused" \in FedEnv
    /\ Posting(f, r)
    /\ route' = [route EXCEPT ![f] = NoRoute]
    /\ UNCHANGED <<row, home, job, busy, promoting, newest, kept>>

\* The pass goes on with the next row, or ends after the last.
Marked(f) ==
    route' = [route EXCEPT ![f] =
                IF @.batch = {} THEN NoRoute ELSE [@ EXCEPT !.sent = NoRow]]

\* Mutant: the UPDATE is never committed.
MarkUncommitted(f) ==
    /\ route[f].sent # NoRow
    /\ Marked(f)
    /\ UNCHANGED <<row, home, job, busy, promoting, newest, kept>>

\* UPDATE ... SET status='FORWARDED' WHERE id=? AND status='PENDING'.
Mark(f) ==
    LET r == route[f].sent IN
    /\ r # NoRow
    /\ row' = IF row[r] = "PENDING" THEN [row EXCEPT ![r] = "FORWARDED"] ELSE row
    /\ kept' = IF row[r] = "PENDING" /\ r \notin busy THEN kept ELSE kept \cup {r}
    /\ Marked(f)
    /\ UNCHANGED <<home, job, busy, promoting, newest>>

\* The pass is cut short: the UPDATE gives up, or the supervisor dies.
PassEnds(f) ==
    /\ FedEnv \cap {"dbfail", "die"} # {}
    /\ route[f] # NoRoute
    /\ kept' = kept \cup ({route[f].sent} \ {NoRow})
    /\ route' = [route EXCEPT ![f] = NoRoute]
    /\ UNCHANGED <<row, home, job, busy, promoting, newest>>

\* A worker of the row's fleet.  A row that a late promotion makes PENDING while
\* it is executed is still assigned to its worker, so nobody else claims it.
ClaimRow(r) ==
    /\ row[r] = "PENDING"
    /\ r \notin busy
    /\ row' = [row EXCEPT ![r] = "RUNNING"]
    /\ busy' = busy \cup {r}
    /\ UNCHANGED <<home, job, route, promoting, newest, kept>>

\* complete_task and requeue_task write by id, whatever the row says now.
EndRow(r) ==
    /\ r \in busy
    /\ \/ row' = [row EXCEPT ![r] = "DONE"]
       \/ "putback" \in FedEnv /\ row' = [row EXCEPT ![r] = "PENDING"]
    /\ busy' = busy \ {r}
    /\ UNCHANGED <<home, job, route, promoting, newest, kept>>

\* A DAG thread reads a row whose dependencies are met, and makes it PENDING
\* by id; a FORWARDED row comes back that way.
ReadReady(d) ==
    /\ promoting[d] = NoRow
    /\ \E r \in Row :
        /\ row[r] = "WAITING"
        /\ promoting' = [promoting EXCEPT ![d] = r]
    /\ UNCHANGED <<row, home, job, route, busy, newest, kept>>

PromoteRow(d) ==
    LET r == promoting[d] IN
    /\ r # NoRow
    /\ row' = [row EXCEPT ![r] = "PENDING"]
    /\ kept' = IF row[r] = "FORWARDED" THEN kept \cup {r} ELSE kept
    /\ promoting' = [promoting EXCEPT ![d] = NoRow]
    /\ UNCHANGED <<home, job, route, busy, newest>>

FedNext ==
    \/ \E j \in Job : Submit(j)
    \/ \E f \in Fleet : Select(f) \/ Mark(f) \/ PassEnds(f)
    \/ \E f \in Fleet, r \in Row :
        PostAnswered(f, r) \/ PostUnanswered(f, r) \/ PostRefused(f, r)
    \/ \E r \in Row : ClaimRow(r) \/ EndRow(r)
    \/ \E d \in DagThread : ReadReady(d) \/ PromoteRow(d)

FedSpec == FedInit /\ [][FedNext]_fedVars

-----------------------------------------------------------------------------
\* Types, and: a row has a fleet and a job once it is there; a pass posts and
\* marks rows of its own fleet.
FedTypeOK ==
    /\ row \in [Row -> RowStatuses]
    /\ home \in [Row -> Fleet \cup {NoRow}]
    /\ job \in [Row -> Job \cup {NoRow}]
    /\ route \in [Fleet -> Routes]
    /\ busy \subseteq Row
    /\ promoting \in [DagThread -> Row \cup {NoRow}]
    /\ newest \in [Job -> Row \cup {NoRow}]
    /\ kept \subseteq Row
    /\ \A r \in Row : row[r] # "none" => home[r] \in Fleet /\ job[r] \in Job
    /\ \A f \in Fleet, r \in Row :
        r \in route[f].batch \cup {route[f].sent} => home[r] = f

\* Forwarding loses nothing: of every job that was asked for there is, in some
\* fleet, a row that is not FORWARDED, however often fleets pass it on and
\* whatever requests, answers and supervisors are lost.
NoJobLost ==
    \A j \in Job : newest[j] # NoRow =>
        \E r \in Row : job[r] = j /\ row[r] \notin {"none", "FORWARDED"}

\* The row that scheduler f has posted and not yet marked.
InFlight(r) == \E f \in Fleet : route[f].sent = r

Executed(r) == r \in busy \/ row[r] = "DONE"

\* Two rows of one job are executed only when a row stayed although a peer had
\* taken it over (the answer was lost, the mark failed or came too late, a late
\* promotion brought the row back), or when the mark is still to come.
OnceUnlessKept ==
    \A r, q \in Row :
        r # q /\ job[r] = job[q] /\ Executed(r) /\ Executed(q)
            => \E m \in Row : job[m] = job[r] /\ (m \in kept \/ InFlight(m))
=============================================================================
