-------------------------- MODULE FederationProofs --------------------------
(***************************************************************************)
(* Proofs about Federation, for any number of fleets, jobs and rows.       *)
(***************************************************************************)
EXTENDS Federation, TLAPS

\* Nothing refers to a row before it is inserted.
RowsThere ==
    \A r \in Row : row[r] = "none" =>
        /\ r \notin busy \cup kept
        /\ \A d \in DagThread : promoting[d] # r
        /\ \A f \in Fleet : r \notin route[f].batch /\ route[f].sent # r
        /\ \A j \in Job : newest[j] # r

\* A row that is to be posted or marked is not FORWARDED: only its own
\* scheduler forwards it, and that once.
PassRows ==
    \A f \in Fleet, r \in Row :
        /\ r \in route[f].batch =>
            row[r] # "FORWARDED" /\ route[f].sent # r /\ route[f].peer \in Fleet
        /\ route[f].sent = r => row[r] # "FORWARDED"

\* A row that a peer has is not the last one of its job.
NewestStays ==
    /\ \A j \in Job : newest[j] # NoRow =>
        job[newest[j]] = j /\ row[newest[j]] # "none"
    /\ \A r \in Row :
        /\ row[r] # "none" => newest[job[r]] # NoRow
        /\ row[r] = "FORWARDED" => newest[job[r]] # r
        /\ InFlight(r) => newest[job[r]] # r

Live(r) == row[r] \notin {"none", "FORWARDED"} \/ r \in busy

\* Of the rows of a job that may still be executed, and wait for no mark, there
\* is one, unless one of its rows was kept.
OneLive ==
    \A r, q \in Row :
        /\ r # q /\ job[r] = job[q] /\ Live(r) /\ Live(q)
        /\ ~InFlight(r) /\ ~InFlight(q)
        => \E m \in kept : job[m] = job[r]

FedInv == FedTypeOK /\ RowsThere /\ PassRows /\ NewestStays /\ OneLive

-----------------------------------------------------------------------------
LEMMA FedInitInv == FedInit => FedInv
<1> SUFFICES ASSUME FedInit PROVE FedInv
  OBVIOUS
<1> USE DEF FedInit
<1>1. FedTypeOK
  BY FedAssumption DEF FedTypeOK, RowStatuses, Routes, NoRoute
<1>2. RowsThere
  BY FedAssumption DEF RowsThere, NoRoute
<1>3. PassRows
  BY FedAssumption DEF PassRows, NoRoute
<1>4. NewestStays
  BY FedAssumption DEF NewestStays, InFlight, NoRoute
<1>5. OneLive
  BY DEF OneLive, Live
<1> QED  BY <1>1, <1>2, <1>3, <1>4, <1>5 DEF FedInv

\* What an insertion does.
LEMMA Insertion ==
    ASSUME FedInv, NEW f \in Fleet, NEW j \in Job,
           NEW s \in {"WAITING", "PENDING"}, InsertRow(f, j, s)
    PROVE  \E n \in Row :
             /\ row[n] = "none"
             /\ row' = [row EXCEPT ![n] = s]
             /\ home' = [home EXCEPT ![n] = f]
             /\ job' = [job EXCEPT ![n] = j]
             /\ newest' = [newest EXCEPT ![j] = n]
<1>1. Fresh \in Row /\ row[Fresh] = "none"
  BY DEF InsertRow, Fresh
<1> QED  BY <1>1 DEF InsertRow

LEMMA SubmitKeeps ==
    ASSUME FedInv, NEW j \in Job, Submit(j)
    PROVE  FedInv'
<1> USE FedAssumption DEF FedInv, Submit
<1> PICK n \in Row, f \in Fleet, s \in {"WAITING", "PENDING"} :
      /\ row[n] = "none"
      /\ row' = [row EXCEPT ![n] = s]
      /\ home' = [home EXCEPT ![n] = f]
      /\ job' = [job EXCEPT ![n] = j]
      /\ newest' = [newest EXCEPT ![j] = n]
  BY Insertion
<1>1. FedTypeOK'
  <2>1. row' \in [Row -> RowStatuses]
    BY DEF FedTypeOK, RowStatuses
  <2>2. /\ home' \in [Row -> Fleet \cup {NoRow}]
        /\ job' \in [Row -> Job \cup {NoRow}]
        /\ newest' \in [Job -> Row \cup {NoRow}]
    BY DEF FedTypeOK
  <2>3. route' \in [Fleet -> Routes]
    BY DEF FedTypeOK
  <2>4. /\ busy' \subseteq Row
        /\ promoting' \in [DagThread -> Row \cup {NoRow}]
        /\ kept' \subseteq Row
    BY DEF FedTypeOK
  <2>5. \A q \in Row : row'[q] # "none" => home'[q] \in Fleet /\ job'[q] \in Job
    BY DEF FedTypeOK
  <2>6. \A g \in Fleet, q \in Row :
          q \in route'[g].batch \cup {route'[g].sent} => home'[q] = g
    BY DEF FedTypeOK, RowsThere
  <2> QED  BY <2>1, <2>2, <2>3, <2>4, <2>5, <2>6 DEF FedTypeOK
<1>2. RowsThere'
  BY DEF FedTypeOK, RowsThere
<1>3. PassRows'
  BY DEF PassRows
<1>4. NewestStays'
  BY DEF FedTypeOK, NewestStays, InFlight, RowsThere
<1>5. OneLive'
  <2>1. \A q \in Row : row[q] # "none" => job[q] # j
    BY DEF NewestStays
  <2>2. \A q \in Row : Live(q) => row[q] # "none"
    BY DEF Live, RowsThere
  <2>3. \A q \in Row \ {n} : /\ Live(q)' <=> Live(q)
                            /\ job'[q] = job[q]
    BY DEF Live
  <2>4. job'[n] = j /\ n \notin kept
    BY DEF FedTypeOK, RowsThere
  <2>5. \A q \in Row : InFlight(q)' <=> InFlight(q)
    BY DEF InFlight
  <2> QED  BY <2>1, <2>2, <2>3, <2>4, <2>5 DEF OneLive, FedTypeOK
<1> QED  BY <1>1, <1>2, <1>3, <1>4, <1>5

LEMMA SelectKeeps ==
    ASSUME FedInv, NEW f \in Fleet, Select(f)
    PROVE  FedInv'
<1> USE FedAssumption DEF FedInv, Select
<1>1. FedTypeOK'
  BY DEF FedTypeOK, Routes, Pending
<1>2. RowsThere'
  BY DEF RowsThere, Pending
<1>3. PassRows'
  BY DEF PassRows, Pending
<1>4. NewestStays'
  BY DEF NewestStays, InFlight
<1>5. OneLive'
  BY DEF OneLive, Live, InFlight, NoRoute
<1> QED  BY <1>1, <1>2, <1>3, <1>4, <1>5

\* A row that is posted is one of the fleet's own, there, and of some job; the
\* pass has a peer.
LEMMA PostingRow ==
    ASSUME FedInv, NEW f \in Fleet, NEW r \in Row, Posting(f, r)
    PROVE  /\ row[r] \notin {"none", "FORWARDED"}
           /\ job[r] \in Job
           /\ route[f].peer \in Fleet
           /\ home[r] = f
           /\ ~InFlight(r)
<1> USE DEF FedInv, Posting
<1>1. row[r] \notin {"none", "FORWARDED"}
  BY DEF RowsThere, PassRows
<1>2. home[r] = f
  BY DEF FedTypeOK
<1>3. job[r] \in Job
  BY <1>1 DEF FedTypeOK
<1>4. ~InFlight(r)
  BY <1>2, FedAssumption DEF FedTypeOK, InFlight
<1>5. route[f].peer \in Fleet
  BY DEF PassRows
<1> QED  BY <1>1, <1>2, <1>3, <1>4, <1>5

LEMMA PostAnsweredKeeps ==
    ASSUME FedInv, NEW f \in Fleet, NEW r \in Row, PostAnswered(f, r)
    PROVE  FedInv'
<1> USE FedAssumption DEF FedInv, PostAnswered
<1> PICK n \in Row :
      /\ row[n] = "none"
      /\ row' = [row EXCEPT ![n] = "PENDING"]
      /\ home' = [home EXCEPT ![n] = route[f].peer]
      /\ job' = [job EXCEPT ![n] = job[r]]
      /\ newest' = [newest EXCEPT ![job[r]] = n]
  BY Insertion, PostingRow DEF Posting
<1>1. FedTypeOK'
  BY DEF FedTypeOK, Routes, Posting
<1>2. RowsThere'
  BY DEF FedTypeOK, RowsThere, Posting
<1>3. PassRows'
  BY DEF FedTypeOK, PassRows, Posting
<1>4. NewestStays'
  BY DEF FedTypeOK, NewestStays, InFlight, RowsThere, Posting
<1>5. OneLive'
  <2>1. \A q \in Row \ {n} : /\ Live(q)' <=> Live(q)
                            /\ job'[q] = job[q]
    BY DEF Live
  <2>2. job'[n] = job[r] /\ n \notin kept /\ n # r
    BY PostingRow DEF FedTypeOK, RowsThere
  <2>3. \A q \in Row : ~InFlight(q)' => ~InFlight(q) /\ q # r
    BY DEF InFlight, FedTypeOK, Posting
  <2>4. Live(r) /\ ~InFlight(r)
    BY PostingRow DEF Live
  <2>5. \A q \in Row \ {n} :
          job'[q] = job[r] /\ Live(q)' /\ ~InFlight(q)'
            => \E m \in kept : job[m] = job[r]
    BY <2>1, <2>3, <2>4 DEF OneLive
  <2>6. kept' = kept /\ \A m \in kept : job'[m] = job[m]
    BY <2>1, <2>2 DEF FedTypeOK
  <2>7. \A p, q \in Row \ {n} :
          /\ p # q /\ job'[p] = job'[q] /\ Live(p)' /\ Live(q)'
          /\ ~InFlight(p)' /\ ~InFlight(q)'
          => \E m \in kept : job[m] = job'[p]
    BY <2>1, <2>3 DEF OneLive
  <2> QED  BY <2>2, <2>5, <2>6, <2>7 DEF OneLive
<1> QED  BY <1>1, <1>2, <1>3, <1>4, <1>5

LEMMA PostUnansweredKeeps ==
    ASSUME FedInv, NEW f \in Fleet, NEW r \in Row, PostUnanswered(f, r)
    PROVE  FedInv'
<1> USE FedAssumption DEF FedInv, PostUnanswered
<1> PICK n \in Row :
      /\ row[n] = "none"
      /\ row' = [row EXCEPT ![n] = "PENDING"]
      /\ home' = [home EXCEPT ![n] = route[f].peer]
      /\ job' = [job EXCEPT ![n] = job[r]]
      /\ newest' = [newest EXCEPT ![job[r]] = n]
  BY Insertion, PostingRow DEF Posting
<1>1. FedTypeOK'
  <2>1. row' \in [Row -> RowStatuses]
    BY DEF FedTypeOK, RowStatuses
  <2>2. /\ home' \in [Row -> Fleet \cup {NoRow}]
        /\ job' \in [Row -> Job \cup {NoRow}]
        /\ newest' \in [Job -> Row \cup {NoRow}]
    BY PostingRow DEF FedTypeOK
  <2>3. route' \in [Fleet -> Routes]
    BY DEF FedTypeOK, Routes, NoRoute
  <2>4. /\ busy' \subseteq Row
        /\ promoting' \in [DagThread -> Row \cup {NoRow}]
        /\ kept' \subseteq Row
    BY DEF FedTypeOK
  <2>5. \A q \in Row : row'[q] # "none" => home'[q] \in Fleet /\ job'[q] \in Job
    BY PostingRow DEF FedTypeOK
  <2>6. \A g \in Fleet, q \in Row :
          q \in route'[g].batch \cup {route'[g].sent} => home'[q] = g
    BY DEF FedTypeOK, RowsThere, NoRoute
  <2> QED  BY <2>1, <2>2, <2>3, <2>4, <2>5, <2>6 DEF FedTypeOK
<1>2. RowsThere'
  BY DEF FedTypeOK, RowsThere, NoRoute, Posting
<1>3. PassRows'
  BY DEF PassRows, NoRoute
<1>4. NewestStays'
  BY DEF FedTypeOK, NewestStays, InFlight, NoRoute, RowsThere, Posting
<1>5. OneLive'
  BY DEF FedTypeOK, OneLive, Live, InFlight, RowsThere, Posting
<1> QED  BY <1>1, <1>2, <1>3, <1>4, <1>5

LEMMA PostRefusedKeeps ==
    ASSUME FedInv, NEW f \in Fleet, NEW r \in Row, PostRefused(f, r)
    PROVE  FedInv'
<1> USE FedAssumption DEF FedInv, PostRefused
<1>1. FedTypeOK'
  BY DEF FedTypeOK, Routes, NoRoute
<1>2. RowsThere'
  BY DEF RowsThere, NoRoute
<1>3. PassRows'
  BY DEF PassRows, NoRoute
<1>4. NewestStays'
  BY DEF NewestStays, InFlight, NoRoute
<1>5. OneLive'
  BY DEF OneLive, Live, InFlight, Posting
<1> QED  BY <1>1, <1>2, <1>3, <1>4, <1>5

LEMMA MarkKeeps ==
    ASSUME FedInv, NEW f \in Fleet, Mark(f)
    PROVE  FedInv'
<1> USE FedAssumption DEF FedInv, Mark
<1>1. FedTypeOK'
  BY DEF FedTypeOK, RowStatuses, Routes, NoRoute, Marked
<1>2. RowsThere'
  BY DEF RowsThere, NoRoute, Marked
<1>3. PassRows'
  BY DEF FedTypeOK, PassRows, NoRoute, Marked
<1>4. NewestStays'
  BY DEF NewestStays, InFlight, NoRoute, Marked
<1>5. OneLive'
  BY DEF FedTypeOK, OneLive, Live, InFlight, Marked
<1> QED  BY <1>1, <1>2, <1>3, <1>4, <1>5

LEMMA PassEndsKeeps ==
    ASSUME FedInv, NEW f \in Fleet, PassEnds(f)
    PROVE  FedInv'
<1> USE FedAssumption DEF FedInv, PassEnds
<1>1. FedTypeOK'
  BY DEF FedTypeOK, Routes, NoRoute
<1>2. RowsThere'
  BY DEF RowsThere, NoRoute
<1>3. PassRows'
  BY DEF PassRows, NoRoute
<1>4. NewestStays'
  BY DEF NewestStays, InFlight, NoRoute
<1>5. OneLive'
  BY DEF OneLive, Live, InFlight
<1> QED  BY <1>1, <1>2, <1>3, <1>4, <1>5

LEMMA ClaimRowKeeps ==
    ASSUME FedInv, NEW r \in Row, ClaimRow(r)
    PROVE  FedInv'
<1> USE FedAssumption DEF FedInv, ClaimRow
<1>1. FedTypeOK'
  BY DEF FedTypeOK, RowStatuses
<1>2. RowsThere'
  BY DEF RowsThere
<1>3. PassRows'
  BY DEF PassRows
<1>4. NewestStays'
  BY DEF NewestStays, InFlight
<1>5. OneLive'
  BY DEF OneLive, Live, InFlight
<1> QED  BY <1>1, <1>2, <1>3, <1>4, <1>5

LEMMA EndRowKeeps ==
    ASSUME FedInv, NEW r \in Row, EndRow(r)
    PROVE  FedInv'
<1> USE FedAssumption DEF FedInv, EndRow
<1>1. FedTypeOK'
  <2>1. row' \in [Row -> RowStatuses]
    BY DEF FedTypeOK, RowStatuses
  <2>2. /\ home' \in [Row -> Fleet \cup {NoRow}]
        /\ job' \in [Row -> Job \cup {NoRow}]
        /\ newest' \in [Job -> Row \cup {NoRow}]
    BY DEF FedTypeOK
  <2>3. route' \in [Fleet -> Routes]
    BY DEF FedTypeOK
  <2>4. /\ busy' \subseteq Row
        /\ promoting' \in [DagThread -> Row \cup {NoRow}]
        /\ kept' \subseteq Row
    BY DEF FedTypeOK
  <2>5. \A q \in Row : row'[q] # "none" => home'[q] \in Fleet /\ job'[q] \in Job
    BY DEF FedTypeOK, RowsThere
  <2>6. \A g \in Fleet, q \in Row :
          q \in route'[g].batch \cup {route'[g].sent} => home'[q] = g
    BY DEF FedTypeOK
  <2> QED  BY <2>1, <2>2, <2>3, <2>4, <2>5, <2>6 DEF FedTypeOK
<1>2. RowsThere'
  BY DEF FedTypeOK, RowsThere
<1>3. PassRows'
  BY DEF FedTypeOK, PassRows
<1>4. NewestStays'
  BY DEF FedTypeOK, NewestStays, InFlight, RowsThere
<1>5. OneLive'
  BY DEF FedTypeOK, OneLive, Live, InFlight
<1> QED  BY <1>1, <1>2, <1>3, <1>4, <1>5

LEMMA ReadReadyKeeps ==
    ASSUME FedInv, NEW d \in DagThread, ReadReady(d)
    PROVE  FedInv'
<1> USE FedAssumption DEF FedInv, ReadReady
<1>1. FedTypeOK'
  BY DEF FedTypeOK
<1>2. RowsThere'
  BY DEF RowsThere
<1>3. PassRows'
  BY DEF PassRows
<1>4. NewestStays'
  BY DEF NewestStays, InFlight
<1>5. OneLive'
  BY DEF OneLive, Live, InFlight
<1> QED  BY <1>1, <1>2, <1>3, <1>4, <1>5

LEMMA PromoteRowKeeps ==
    ASSUME FedInv, NEW d \in DagThread, PromoteRow(d)
    PROVE  FedInv'
<1> USE FedAssumption DEF FedInv, PromoteRow
<1>1. FedTypeOK'
  <2>1. row' \in [Row -> RowStatuses]
    BY DEF FedTypeOK, RowStatuses
  <2>2. /\ home' \in [Row -> Fleet \cup {NoRow}]
        /\ job' \in [Row -> Job \cup {NoRow}]
        /\ newest' \in [Job -> Row \cup {NoRow}]
    BY DEF FedTypeOK
  <2>3. route' \in [Fleet -> Routes]
    BY DEF FedTypeOK
  <2>4. /\ busy' \subseteq Row
        /\ promoting' \in [DagThread -> Row \cup {NoRow}]
        /\ kept' \subseteq Row
    BY DEF FedTypeOK
  <2>5. \A q \in Row : row'[q] # "none" => home'[q] \in Fleet /\ job'[q] \in Job
    BY DEF FedTypeOK, RowsThere
  <2>6. \A g \in Fleet, q \in Row :
          q \in route'[g].batch \cup {route'[g].sent} => home'[q] = g
    BY DEF FedTypeOK
  <2> QED  BY <2>1, <2>2, <2>3, <2>4, <2>5, <2>6 DEF FedTypeOK
<1>2. RowsThere'
  BY DEF RowsThere
<1>3. PassRows'
  BY DEF PassRows
<1>4. NewestStays'
  BY DEF NewestStays, InFlight, RowsThere
<1>5. OneLive'
  BY DEF OneLive, Live, InFlight, RowsThere
<1> QED  BY <1>1, <1>2, <1>3, <1>4, <1>5

LEMMA FedNextKeeps ==
    ASSUME FedInv, [FedNext]_fedVars PROVE FedInv'
<1>1. CASE \E j \in Job : Submit(j)
  BY <1>1, SubmitKeeps
<1>2. CASE \E f \in Fleet : Select(f) \/ Mark(f) \/ PassEnds(f)
  BY <1>2, SelectKeeps, MarkKeeps, PassEndsKeeps
<1>3. CASE \E f \in Fleet, r \in Row :
             PostAnswered(f, r) \/ PostUnanswered(f, r) \/ PostRefused(f, r)
  BY <1>3, PostAnsweredKeeps, PostUnansweredKeeps, PostRefusedKeeps
<1>4. CASE \E r \in Row : ClaimRow(r) \/ EndRow(r)
  BY <1>4, ClaimRowKeeps, EndRowKeeps
<1>5. CASE \E d \in DagThread : ReadReady(d) \/ PromoteRow(d)
  BY <1>5, ReadReadyKeeps, PromoteRowKeeps
<1>6. CASE UNCHANGED fedVars
  BY <1>6 DEF FedInv, FedTypeOK, RowsThere, PassRows, NewestStays, OneLive,
         Live, InFlight, fedVars
<1> QED  BY <1>1, <1>2, <1>3, <1>4, <1>5, <1>6 DEF FedNext

\* The invariant of every behaviour.
THEOREM FedInvariant == FedSpec => []FedInv
<1>1. FedInv /\ [FedNext]_fedVars => FedInv'
  BY FedNextKeeps
<1> QED  BY FedInitInv, <1>1, PTL DEF FedSpec

\* Types, for any number of fleets, jobs and rows.
THEOREM FedTypeCorrect == FedSpec => []FedTypeOK
<1>1. FedInv => FedTypeOK
  BY DEF FedInv
<1> QED  BY FedInvariant, <1>1, PTL

\* Forwarding loses no job: the row inserted last is never FORWARDED.
THEOREM JobsSurvive == FedSpec => []NoJobLost
<1>1. FedInv => NoJobLost
  <2> SUFFICES ASSUME FedInv, NEW j \in Job, newest[j] # NoRow
               PROVE  \E r \in Row :
                        job[r] = j /\ row[r] \notin {"none", "FORWARDED"}
    BY DEF NoJobLost
  <2>1. newest[j] \in Row
    BY DEF FedInv, FedTypeOK
  <2> WITNESS newest[j] \in Row
  <2> QED  BY <2>1 DEF FedInv, NewestStays
<1> QED  BY FedInvariant, <1>1, PTL

\* Two fleets execute a job only when one of its rows was kept or waits for its
\* mark.
THEOREM ExecutedOnce == FedSpec => []OnceUnlessKept
<1>1. FedInv => OnceUnlessKept
  <2> SUFFICES ASSUME FedInv, NEW r \in Row, NEW q \in Row, r # q,
                      job[r] = job[q], Executed(r), Executed(q)
               PROVE  \E m \in Row :
                        job[m] = job[r] /\ (m \in kept \/ InFlight(m))
    BY DEF OnceUnlessKept
  <2>1. Live(r) /\ Live(q)
    BY DEF Executed, Live
  <2>2. CASE InFlight(r) \/ InFlight(q)
    BY <2>2
  <2>3. CASE ~InFlight(r) /\ ~InFlight(q)
    <3>1. \E m \in kept : job[m] = job[r]
      BY <2>1, <2>3 DEF FedInv, OneLive
    <3>2. kept \subseteq Row
      BY DEF FedInv, FedTypeOK
    <3> QED  BY <3>1, <3>2
  <2> QED  BY <2>2, <2>3
<1> QED  BY FedInvariant, <1>1, PTL

\* A row that was marked while a worker executes it has been recorded as kept.
MarkedWhileBusy == \A r \in busy : row[r] = "FORWARDED" => r \in kept

LEMMA MarkedWhileBusyStep ==
    ASSUME FedTypeOK, MarkedWhileBusy, [FedNext]_fedVars
    PROVE  MarkedWhileBusy'
<1> USE DEF FedTypeOK, MarkedWhileBusy
<1>1. ASSUME NEW f \in Fleet, NEW j \in Job, NEW s \in {"WAITING", "PENDING"},
             InsertRow(f, j, s), busy' = busy, kept \subseteq kept'
      PROVE  MarkedWhileBusy'
  BY <1>1 DEF InsertRow
<1>2. CASE \E j \in Job : Submit(j)
  BY <1>1, <1>2 DEF Submit
<1>3. ASSUME NEW f \in Fleet, Select(f) \/ Mark(f) \/ PassEnds(f)
      PROVE  MarkedWhileBusy'
  BY <1>3 DEF Select, Mark, PassEnds
<1>4. ASSUME NEW f \in Fleet, NEW r \in Row,
             PostAnswered(f, r) \/ PostUnanswered(f, r) \/ PostRefused(f, r)
      PROVE  MarkedWhileBusy'
  <2>1. CASE PostRefused(f, r)
    BY <2>1 DEF PostRefused
  <2>2. CASE PostAnswered(f, r) \/ PostUnanswered(f, r)
    <3>1. /\ \E n \in Row : row' = [row EXCEPT ![n] = "PENDING"]
          /\ busy' = busy /\ kept \subseteq kept'
      BY <2>2 DEF PostAnswered, PostUnanswered, InsertRow, Fresh
    <3> QED BY <3>1
  <2> QED BY <1>4, <2>1, <2>2
<1>5. ASSUME NEW r \in Row, ClaimRow(r) \/ EndRow(r) PROVE MarkedWhileBusy'
  BY <1>5 DEF ClaimRow, EndRow
<1>6. ASSUME NEW d \in DagThread, ReadReady(d) \/ PromoteRow(d)
      PROVE  MarkedWhileBusy'
  BY <1>6 DEF ReadReady, PromoteRow
<1>7. CASE UNCHANGED fedVars
  BY <1>7 DEF fedVars
<1> QED BY <1>2, <1>3, <1>4, <1>5, <1>6, <1>7 DEF FedNext

\* What was passed on stays with the peer: a row that is FORWARDED is written
\* again only by a late promotion or by a worker that had it, and is then among
\* the rows that were kept.
ForwardedForGood ==
    [][\A r \in Row : row[r] = "FORWARDED" /\ row'[r] # "FORWARDED" =>
                        r \in kept']_fedVars

\* The mark of the scheduler is not undone by another pass, a claim or an INSERT.
THEOREM ForwardedStays == FedSpec => ForwardedForGood
<1>1. FedInit => MarkedWhileBusy
  BY DEF FedInit, MarkedWhileBusy
<1>2. FedInv /\ MarkedWhileBusy /\ [FedNext]_fedVars => MarkedWhileBusy'
  BY MarkedWhileBusyStep DEF FedInv
<1>3. FedInv /\ MarkedWhileBusy /\ [FedNext]_fedVars =>
        [\A r \in Row : row[r] = "FORWARDED" /\ row'[r] # "FORWARDED" =>
                          r \in kept']_fedVars
  <2> SUFFICES ASSUME FedTypeOK, MarkedWhileBusy, FedNext, NEW r \in Row,
                      row[r] = "FORWARDED", row'[r] # "FORWARDED"
               PROVE  r \in kept'
    BY DEF FedInv
  <2> USE DEF FedTypeOK, MarkedWhileBusy
  <2>1. ASSUME NEW f \in Fleet, NEW j \in Job, NEW s \in {"WAITING", "PENDING"}
        PROVE  ~InsertRow(f, j, s)
    BY DEF InsertRow, Fresh
  <2>2. ~\E j \in Job : Submit(j)
    BY <2>1 DEF Submit
  <2>3. ASSUME NEW f \in Fleet PROVE ~(Select(f) \/ Mark(f) \/ PassEnds(f))
    BY DEF Select, Mark, PassEnds
  <2>4. ASSUME NEW f \in Fleet, NEW q \in Row
        PROVE  ~(PostAnswered(f, q) \/ PostUnanswered(f, q) \/ PostRefused(f, q))
    BY DEF PostAnswered, PostUnanswered, PostRefused, InsertRow, Fresh
  <2>5. ASSUME NEW q \in Row, ClaimRow(q) \/ EndRow(q) PROVE r \in kept'
    BY <2>5 DEF ClaimRow, EndRow
  <2>6. ASSUME NEW d \in DagThread, ReadReady(d) \/ PromoteRow(d)
        PROVE  r \in kept'
    BY <2>6 DEF ReadReady, PromoteRow
  <2> QED BY <2>2, <2>3, <2>4, <2>5, <2>6 DEF FedNext
<1> QED BY <1>1, <1>2, <1>3, FedInvariant, PTL DEF FedSpec, ForwardedForGood
=============================================================================
