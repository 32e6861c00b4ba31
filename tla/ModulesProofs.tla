---------------------------- MODULE ModulesProofs ----------------------------
(***************************************************************************)
(* Proofs about Modules, for any manifests and any number of requests.     *)
(***************************************************************************)
EXTENDS Modules, SequenceTheorems, TLAPS

-----------------------------------------------------------------------------
\* The search of the resolver.

LEMMA ReachTarget ==
    ASSUME NEW next, NEW t \in DOMAIN next
    PROVE  t \in Reach(t, next)
  BY DEF Reach

LEMMA ReachWithin ==
    ASSUME NEW next, NEW t
    PROVE  Reach(t, next) \subseteq DOMAIN next
  BY DEF Reach

LEMMA ReachClosed ==
    ASSUME NEW N, NEW next \in [N -> SUBSET N], NEW t
    PROVE  ClosedUnder(Reach(t, next), next)
<1> SUFFICES ASSUME NEW m \in Reach(t, next), NEW d \in next[m]
             PROVE  d \in Reach(t, next)
  BY DEF ClosedUnder
<1>1. m \in N /\ d \in N
  BY ReachWithin
<1>2. ASSUME NEW S \in SUBSET N, t \in S, ClosedUnder(S, next)
      PROVE  d \in S
  <2>1. m \in S
    BY <1>2 DEF Reach
  <2> QED  BY <1>2, <2>1 DEF ClosedUnder
<1> QED  BY <1>1, <1>2 DEF Reach

\* What is enabled together leaves nothing that is on without what it requires,
\* whatever the graph of the manifests, also with a profile and with cycles.
THEOREM NeededComplete ==
    ASSUME ModAssumption, NEW t \in Module, NEW on \in SUBSET Module,
           NEW p \in BOOLEAN, Complete(on)
    PROVE  Complete(on \cup Needed(t, on, p))
<1> DEFINE next == [m \in Module |-> Needs(m, p) \ on]
<1>1. next \in [Module -> SUBSET Module]
  BY DEF ModAssumption, Needs
<1>2. ClosedUnder(Visited(t, on, p), next)
  BY <1>1, ReachClosed DEF Visited
<1>3. Visited(t, on, p) \subseteq Module
  BY <1>1, ReachWithin DEF Visited
<1> SUFFICES ASSUME NEW m \in on \cup Needed(t, on, p), NEW d \in Requires[m]
             PROVE  d \in on \cup Needed(t, on, p)
  BY DEF Complete, ClosedUnder
<1>4. CASE m \in on
  BY <1>4 DEF Complete, ClosedUnder
<1>5. CASE m \in Visited(t, on, p)
  <2>1. next[m] \subseteq Visited(t, on, p)
    BY <1>2, <1>5 DEF ClosedUnder
  <2>2. d \in on \/ d \in next[m]
    BY <1>3, <1>5 DEF Needs
  <2> QED  BY <2>1, <2>2 DEF Needed
<1> QED  BY <1>4, <1>5 DEF Needed

\* What is disabled together leaves nothing on that requires a part of it.
THEOREM DependentsComplete ==
    ASSUME ModAssumption, NEW t \in Module, NEW on \in SUBSET Module, Complete(on)
    PROVE  Complete(on \ Dependents(t, on))
<1> DEFINE next == [m \in Module |-> {d \in on : m \in Requires[d]}]
<1>1. next \in [Module -> SUBSET Module]
  OBVIOUS
<1>2. ClosedUnder(Reach(t, next), next)
  BY <1>1, ReachClosed
<1> SUFFICES ASSUME NEW m \in on \ Dependents(t, on), NEW d \in Requires[m]
             PROVE  d \in on \ Dependents(t, on)
  BY DEF Complete, ClosedUnder
<1>3. d \in on
  BY DEF Complete, ClosedUnder
<1>4. m \in next[d]
  BY <1>3
<1>5. d \notin Reach(t, next)
  <2> SUFFICES ASSUME d \in Reach(t, next) PROVE FALSE
    OBVIOUS
  <2>1. m \in Reach(t, next)
    BY <1>2, <1>4 DEF ClosedUnder
  <2> QED  BY <2>1 DEF Dependents
<1> QED  BY <1>3, <1>5 DEF Dependents

LEMMA NeededWithin ==
    ASSUME NEW t, NEW on \in SUBSET Module, NEW p
    PROVE  Needed(t, on, p) \subseteq Module \ on
<1> DEFINE next == [m \in Module |-> Needs(m, p) \ on]
<1>1. DOMAIN next = Module
  OBVIOUS
<1> HIDE DEF next
<1>2. Reach(t, next) \subseteq Module
  BY <1>1, ReachWithin
<1> QED  BY <1>2 DEF Needed, Visited, next

LEMMA DependentsWithin ==
    ASSUME NEW t, NEW on
    PROVE  Dependents(t, on) \subseteq on
  BY DEF Dependents

LEMMA ProposalShape ==
    ASSUME ModAssumption, NEW t \in Module, NEW on \in SUBSET Module,
           NEW p \in BOOLEAN, NEW kind \in {"enable", "install", "disable"}
    PROVE  /\ Proposal(kind, t, on, p) \in Changes
           /\ Proposal(kind, t, on, p).kind = kind
           /\ Proposal(kind, t, on, p).up \cap Proposal(kind, t, on, p).down = {}
           /\ Complete(on) => Complete((on \cup Proposal(kind, t, on, p).up)
                                          \ Proposal(kind, t, on, p).down)
<1>1. Needed(t, on, p) \subseteq Module \ on
  BY NeededWithin
<1>2. Dependents(t, on) \subseteq on
  BY DependentsWithin
<1>3. CASE kind = "disable"
  <2>1. Proposal(kind, t, on, p) =
          [kind |-> "disable", up |-> {}, down |-> Dependents(t, on),
           profile |-> FALSE, goal |-> {}]
    BY <1>3 DEF Proposal
  <2>2. (on \cup {}) \ Dependents(t, on) = on \ Dependents(t, on)
    OBVIOUS
  <2>3. Complete(on) => Complete((on \cup {}) \ Dependents(t, on))
    BY <2>2, DependentsComplete
  <2>4. Proposal(kind, t, on, p) \in Changes
    BY <1>2, <2>1 DEF Changes, Kinds
  <2>5. /\ Proposal(kind, t, on, p).kind = "disable"
        /\ Proposal(kind, t, on, p).up = {}
        /\ Proposal(kind, t, on, p).down = Dependents(t, on)
    BY <2>1
  <2> QED  BY <1>3, <2>3, <2>4, <2>5
<1>4. CASE kind # "disable"
  <2>1. Proposal(kind, t, on, p) =
          [kind |-> kind, up |-> Needed(t, on, p), down |-> {},
           profile |-> p /\ kind = "enable", goal |-> {}]
    BY <1>4 DEF Proposal
  <2>2. (on \cup Needed(t, on, p)) \ {} = on \cup Needed(t, on, p)
    OBVIOUS
  <2>3. Complete(on) => Complete((on \cup Needed(t, on, p)) \ {})
    BY <2>2, NeededComplete
  <2>4. (p /\ kind = "enable") \in BOOLEAN
    OBVIOUS
  <2>5. Proposal(kind, t, on, p) \in Changes
    BY <1>1, <2>1, <2>4 DEF Changes, Kinds
  <2>6. /\ Proposal(kind, t, on, p).kind = kind
        /\ Proposal(kind, t, on, p).up = Needed(t, on, p)
        /\ Proposal(kind, t, on, p).down = {}
    BY <2>1
  <2> QED  BY <2>3, <2>5, <2>6
<1> QED  BY <1>3, <1>4

LEMMA ValidNoClash ==
    ASSUME NEW on \in SUBSET Module, NEW c, Valid(c, on), change[c].kind = "enable",
           change[c].up \subseteq Module
    PROVE  \A m \in change[c].up, n \in on : ~Clash(m, n)
<1> SUFFICES ASSUME NEW m \in change[c].up, NEW n \in on, Clash(m, n) PROVE FALSE
  OBVIOUS
<1> DEFINE next == [k \in Module |-> Needs(k, change[c].profile) \ on]
<1>1. DOMAIN next = Module
  OBVIOUS
<1> HIDE DEF next
<1>2. m \in Reach(m, next)
  BY <1>1, ReachTarget
<1>3. m \in Visited(m, on, change[c].profile)
  BY <1>2 DEF Visited, next
<1>4. Refused(m, on, change[c].profile)
  BY <1>3 DEF Refused
<1> QED  BY <1>4 DEF Valid

-----------------------------------------------------------------------------
\* The types, action by action.

LEMMA EndRequestTypes ==
    ASSUME ModTypeOK, NEW c \in Client, EndRequest(c)
    PROVE  /\ step' \in [Client -> Steps]
           /\ change' \in [Client -> Changes]
           /\ text' \in [Client -> Files]
           /\ \A d \in Client : change'[d].up \cap change'[d].down = {}
<1>1. NoChange \in Changes /\ NoChange.up \cap NoChange.down = {}
  BY DEF NoChange, Changes, Kinds
<1>2. Nothing \in Files
  BY DEF Nothing, Files
<1> QED  BY <1>1, <1>2 DEF ModTypeOK, EndRequest, StepTo, Steps

LEMMA ModTypes ==
    ASSUME ModAssumption, ModTypeOK, [ModNext]_modVars
    PROVE  ModTypeOK'
<1> USE DEF ModTypeOK
<1>1. ASSUME NEW c \in Client, Preview(c) PROVE ModTypeOK'
  <2> PICK t \in Module, p \in BOOLEAN, kind \in {"enable", "install", "disable"},
           on \in SUBSET Module :
        /\ LoadConfig(on)
        /\ change' = [change EXCEPT ![c] = Proposal(kind, t, on, p)]
        /\ fresh' = [fresh EXCEPT ![c] = IF on = file.on THEN {"seen"} ELSE {}]
    BY <1>1 DEF Preview
  <2> DEFINE q == Proposal(kind, t, on, p)
  <2>1. q \in Changes /\ q.up \cap q.down = {}
    BY ProposalShape
  <2> HIDE DEF q
  <2>2. change' = [change EXCEPT ![c] = q]
    BY DEF q
  <2>3. /\ change' \in [Client -> Changes]
        /\ \A d \in Client : change'[d].up \cap change'[d].down = {}
    BY <2>1, <2>2
  <2>4. fresh' \in [Client -> SUBSET {"seen", "checked"}]
    OBVIOUS
  <2>5. step' \in [Client -> Steps] /\ asked' \in 0..MaxRequests
    BY <1>1 DEF Preview, Ask, StepTo, Steps, ModAssumption
  <2> QED  BY <1>1, <2>3, <2>4, <2>5 DEF Preview, LoadConfig
<1>2. ASSUME NEW c \in Client, Validate(c) PROVE ModTypeOK'
  <2> PICK on \in SUBSET Module :
        /\ LoadConfig(on)
        /\ IF Valid(c, on)
           THEN /\ StepTo(c, "validated")
                /\ fresh' = [fresh EXCEPT ![c] =
                                IF on = file.on THEN @ \cup {"checked"} ELSE @]
                /\ UNCHANGED <<change, text>>
           ELSE /\ EndRequest(c)
                /\ fresh' = [fresh EXCEPT ![c] = {}]
    BY <1>2 DEF Validate
  <2>1. CASE Valid(c, on)
    BY <1>2, <2>1 DEF Validate, StepTo, Steps, LoadConfig
  <2>2. CASE ~Valid(c, on)
    BY <1>2, <2>2, EndRequestTypes DEF Validate, LoadConfig
  <2> QED  BY <2>1, <2>2
<1>3. ASSUME NEW c \in Client, Restore(c) PROVE ModTypeOK'
  <2> PICK i \in DOMAIN snaps :
        change' = [change EXCEPT ![c] =
            [kind |-> "rollback", up |-> snaps[i] \ file.on,
             down |-> file.on \ snaps[i], profile |-> FALSE, goal |-> snaps[i]]]
    BY <1>3 DEF Restore
  <2> DEFINE q == [kind |-> "rollback", up |-> snaps[i] \ file.on,
                   down |-> file.on \ snaps[i], profile |-> FALSE, goal |-> snaps[i]]
  <2>1. snaps[i] \in SUBSET Module /\ file.on \in SUBSET Module
    BY DEF Files
  <2>2. q \in Changes /\ q.up \cap q.down = {}
    BY <2>1 DEF Changes, Kinds
  <2> HIDE DEF q
  <2>3. change' = [change EXCEPT ![c] = q]
    BY DEF q
  <2>4. /\ change' \in [Client -> Changes]
        /\ \A d \in Client : change'[d].up \cap change'[d].down = {}
    BY <2>2, <2>3
  <2> QED  BY <1>3, <2>4 DEF Restore, Ask, StepTo, Steps, ModAssumption
<1>4. ASSUME NEW c \in Client, TakeSnapshot(c) PROVE ModTypeOK'
  <2>1. Append(snaps, file.on) \in Seq(SUBSET Module)
    BY DEF Files
  <2> QED  BY <1>4, <2>1 DEF TakeSnapshot, StepTo, Steps
<1>4a. ASSUME NEW c \in Client, Prune(c) PROVE ModTypeOK'
  <2>1. Latest(snaps) \in Seq(SUBSET Module)
    <3>1. CASE Len(snaps) > Keep
      <4>1. /\ Len(snaps) - Keep + 1 \in 1..Len(snaps) + 1
            /\ Len(snaps) \in Nat
        BY <3>1 DEF ModAssumption
      <4> QED  BY <3>1, <4>1, SubSeqProperties DEF Latest
    <3>2. CASE ~(Len(snaps) > Keep)
      BY <3>2 DEF Latest
    <3> QED  BY <3>1, <3>2
  <2> QED  BY <1>4a, <2>1 DEF Prune, StepTo, Steps
<1>5. ASSUME NEW c \in Client, ReadTabs(c) PROVE ModTypeOK'
  BY <1>5 DEF ReadTabs, StepTo, Steps
<1>6. ASSUME NEW c \in Client, Switch(c) PROVE ModTypeOK'
  <2>1. PICK t \in Module : \E up \in SUBSET {t} :
        /\ change' = [change EXCEPT ![c] =
                        [kind |-> "switch", up |-> up, down |-> {t} \ up,
                         profile |-> FALSE, goal |-> {}]]
        /\ text' = [text EXCEPT ![c] =
                        [on |-> file.on, listed |-> file.listed \cup {t}]]
    BY <1>6 DEF Switch
  <2>2. PICK up \in SUBSET {t} :
        /\ change' = [change EXCEPT ![c] =
                        [kind |-> "switch", up |-> up, down |-> {t} \ up,
                         profile |-> FALSE, goal |-> {}]]
        /\ text' = [text EXCEPT ![c] =
                        [on |-> file.on, listed |-> file.listed \cup {t}]]
    BY <2>1
  <2> DEFINE q == [kind |-> "switch", up |-> up, down |-> {t} \ up,
                   profile |-> FALSE, goal |-> {}]
             f == [on |-> file.on, listed |-> file.listed \cup {t}]
  <2>3. file.on \subseteq file.listed /\ file.listed \subseteq Module
    BY DEF Files
  <2>4. f \in Files
    BY <2>3 DEF Files
  <2>4a. cached' \subseteq Module
    BY <1>6, <2>3 DEF Switch
  <2>5. q \in Changes /\ q.up \cap q.down = {}
    BY DEF Changes, Kinds
  <2>6. change' = [change EXCEPT ![c] = q] /\ text' = [text EXCEPT ![c] = f]
    BY <2>2
  <2> HIDE DEF q, f
  <2>7. /\ change' \in [Client -> Changes]
        /\ \A d \in Client : change'[d].up \cap change'[d].down = {}
    BY <2>5, <2>6
  <2>8. text' \in [Client -> Files]
    BY <2>4, <2>6
  <2> QED  BY <1>6, <2>4a, <2>7, <2>8 DEF Switch, Ask, StepTo, Steps, ModAssumption
<1>7. ASSUME NEW c \in Client, Truncate(c) PROVE ModTypeOK'
  <2>1. Nothing \in Files
    BY DEF Nothing, Files
  <2> QED  BY <1>7, <2>1 DEF Truncate, Overwrite, StepTo, Steps
<1>8. ASSUME NEW c \in Client, Fill(c) PROVE ModTypeOK'
  <2>1. text[c] \in Files /\ change[c] \in Changes
    OBVIOUS
  <2>2. Written(c) \in Files
    BY <2>1 DEF Written, Files, Changes
  <2>3. cached' \subseteq Module
    BY <1>8, <2>2 DEF Fill, Files
  <2> QED  BY <1>8, <2>2, <2>3, EndRequestTypes DEF Fill, Overwrite
<1>9. ASSUME NEW c \in Client, Forget(c) PROVE ModTypeOK'
  BY <1>9, EndRequestTypes DEF Forget
<1>10. ASSUME NEW c \in Client, GiveUp(c) PROVE ModTypeOK'
  BY <1>10, EndRequestTypes DEF GiveUp
<1>11. CASE UNCHANGED modVars
  BY <1>11 DEF modVars
<1> QED
  BY <1>1, <1>2, <1>3, <1>4, <1>4a, <1>5, <1>6, <1>7, <1>8, <1>9, <1>10, <1>11
     DEF ModNext, Client

\* The configuration a request works on: what it has read, or what the file
\* says until it reads it.
Basis(c) == IF step[c] \in {"read", "writing"} THEN text[c].on ELSE file.on

\* What is still true of a change q, decided on and tested against basis, as far
\* as nobody has written the file since.
Decided(q, decisions, basis) ==
    /\ "seen" \in decisions =>
        /\ q.kind \in {"enable", "install", "disable"}
            => (Complete(basis) => Complete((basis \cup q.up) \ q.down))
        /\ q.kind = "rollback" => q.up = q.goal \ basis /\ q.down = basis \ q.goal
    /\ "checked" \in decisions /\ q.kind = "enable"
        => \A m \in q.up, n \in basis : ~Clash(m, n)

Decisions == \A c \in Client : Decided(change[c], fresh[c], Basis(c))

ModInv == ModTypeOK /\ Decisions

-----------------------------------------------------------------------------
LEMMA DecidedNothing ==
    ASSUME NEW q, NEW basis
    PROVE  Decided(q, {}, basis)
  BY DEF Decided

LEMMA NothingDecided ==
    ASSUME NEW d \in Client, fresh'[d] = {}
    PROVE  Decided(change[d], fresh[d], Basis(d))'
  BY DEF Decided

LEMMA ModInitInv ==
    ASSUME ModAssumption, ModInit
    PROVE  ModInv
<1>1. NoChange \in Changes /\ NoChange.up \cap NoChange.down = {}
  BY DEF NoChange, Changes, Kinds
<1>2. Nothing \in Files /\ FirstFile.on \subseteq Module
  BY DEF Nothing, Files, ModAssumption
<1>3. <<>> \in Seq(SUBSET Module) /\ Len(<<>>) = 0
  OBVIOUS
<1>4. ModTypeOK
  BY <1>1, <1>2, <1>3 DEF ModInit, ModTypeOK, ModAssumption, Steps
<1>5. Decisions
  BY DecidedNothing DEF ModInit, Decisions
<1> QED  BY <1>4, <1>5 DEF ModInv

\* Another request keeps what it has decided when the file does not change, and
\* loses it when the file does.
LEMMA OthersDecided ==
    ASSUME ModInv, NEW c \in Client, NEW d \in Client, d # c,
           step'[d] = step[d], change'[d] = change[d], text'[d] = text[d],
           \/ file' = file /\ fresh'[d] = fresh[d]
           \/ fresh'[d] = {}
    PROVE  Decided(change[d], fresh[d], Basis(d))'
<1>1. CASE fresh'[d] = {}
  BY <1>1, NothingDecided
<1>2. CASE file' = file /\ fresh'[d] = fresh[d]
  <2>1. Basis(d)' = Basis(d)
    BY <1>2 DEF Basis
  <2> QED  BY <1>2, <2>1 DEF ModInv, Decisions
<1> QED  BY <1>1, <1>2

LEMMA DecisionsKept ==
    ASSUME ModAssumption, ModInv, [ModNext]_modVars
    PROVE  Decisions'
<1> USE DEF ModInv
<1>1. ASSUME NEW c \in Client, Preview(c) PROVE Decisions'
  <2>1. PICK t \in Module, p \in BOOLEAN, kind \in {"enable", "install", "disable"},
             on \in SUBSET Module :
        /\ LoadConfig(on)
        /\ change' = [change EXCEPT ![c] = Proposal(kind, t, on, p)]
        /\ fresh' = [fresh EXCEPT ![c] = IF on = file.on THEN {"seen"} ELSE {}]
    BY <1>1 DEF Preview
  <2> DEFINE q == Proposal(kind, t, on, p)
  <2>2. /\ q.kind = kind
        /\ Complete(on) => Complete((on \cup q.up) \ q.down)
    <3> HIDE DEF q
    <3>1. q = Proposal(kind, t, on, p)
      BY DEF q
    <3>2. q.kind = kind
      BY <3>1 DEF Proposal
    <3>3. Complete(on) => Complete((on \cup Proposal(kind, t, on, p).up)
                                      \ Proposal(kind, t, on, p).down)
      BY ProposalShape, Zenon
    <3> QED  BY <3>1, <3>2, <3>3
  <2> HIDE DEF q
  <2>3. /\ change' = [change EXCEPT ![c] = q]
        /\ step' = [step EXCEPT ![c] = "previewed"]
        /\ file' = file /\ text' = text
    BY <1>1, <2>1 DEF Preview, StepTo, q
  <2>4. /\ change'[c] = q /\ Basis(c)' = file.on
        /\ fresh'[c] = IF on = file.on THEN {"seen"} ELSE {}
    BY <2>1, <2>3 DEF Basis, ModTypeOK
  <2>5. Decided(change[c], fresh[c], Basis(c))'
    <3>1. CASE on = file.on
      <4>1. Decided(q, {"seen"}, file.on)
        BY <2>2, <3>1 DEF Decided
      <4> QED  BY <2>4, <3>1, <4>1
    <3>2. CASE on # file.on
      BY <2>4, <3>2, NothingDecided
    <3> QED  BY <3>1, <3>2
  <2>6. \A d \in Client : d # c => Decided(change[d], fresh[d], Basis(d))'
    BY <2>1, <2>3, OthersDecided DEF ModTypeOK
  <2> QED  BY <2>5, <2>6 DEF Decisions
<1>2. ASSUME NEW c \in Client, Validate(c) PROVE Decisions'
  <2>1. PICK on \in SUBSET Module :
        /\ LoadConfig(on)
        /\ IF Valid(c, on)
           THEN /\ StepTo(c, "validated")
                /\ fresh' = [fresh EXCEPT ![c] =
                                IF on = file.on THEN @ \cup {"checked"} ELSE @]
                /\ UNCHANGED <<change, text>>
           ELSE /\ EndRequest(c)
                /\ fresh' = [fresh EXCEPT ![c] = {}]
    BY <1>2 DEF Validate
  <2>2. file' = file /\ step[c] = "previewed"
    BY <1>2 DEF Validate
  <2>3. \A d \in Client : d # c => Decided(change[d], fresh[d], Basis(d))'
    <3> SUFFICES ASSUME NEW d \in Client, d # c
                 PROVE  Decided(change[d], fresh[d], Basis(d))'
      OBVIOUS
    <3>1. /\ step'[d] = step[d] /\ change'[d] = change[d] /\ text'[d] = text[d]
          /\ fresh'[d] = fresh[d]
      BY <2>1 DEF StepTo, EndRequest, ModTypeOK
    <3> QED  BY <2>2, <3>1, OthersDecided
  <2>4. CASE Valid(c, on)
    <3>1. /\ change'[c] = change[c] /\ Basis(c) = file.on /\ Basis(c)' = file.on
          /\ fresh'[c] = IF on = file.on THEN fresh[c] \cup {"checked"} ELSE fresh[c]
      BY <2>1, <2>2, <2>4 DEF StepTo, Basis, ModTypeOK
    <3>2. Decided(change[c], fresh[c], file.on)
      BY <3>1 DEF Decisions
    <3>3. change[c].up \subseteq Module
      BY DEF ModTypeOK, Changes
    <3>4. change[c].kind = "enable"
            => \A m \in change[c].up, n \in on : ~Clash(m, n)
      BY <2>4, <3>3, ValidNoClash
    <3>5. Decided(change[c], fresh[c], Basis(c))'
      BY <3>1, <3>2, <3>4 DEF Decided
    <3> QED  BY <2>3, <3>5 DEF Decisions
  <2>5. CASE ~Valid(c, on)
    <3>1. fresh'[c] = {}
      BY <2>1, <2>5 DEF ModTypeOK
    <3>2. Decided(change[c], fresh[c], Basis(c))'
      BY <3>1, NothingDecided
    <3> QED  BY <2>3, <3>2 DEF Decisions
  <2> QED  BY <2>4, <2>5
<1>3. ASSUME NEW c \in Client, Restore(c) PROVE Decisions'
  <2>1. PICK i \in DOMAIN snaps :
        change' = [change EXCEPT ![c] =
            [kind |-> "rollback", up |-> snaps[i] \ file.on,
             down |-> file.on \ snaps[i], profile |-> FALSE, goal |-> snaps[i]]]
    BY <1>3 DEF Restore
  <2> DEFINE q == [kind |-> "rollback", up |-> snaps[i] \ file.on,
                   down |-> file.on \ snaps[i], profile |-> FALSE, goal |-> snaps[i]]
  <2>2. /\ q.kind = "rollback" /\ q.up = q.goal \ file.on
        /\ q.down = file.on \ q.goal
    OBVIOUS
  <2>3. change' = [change EXCEPT ![c] = q]
    BY <2>1
  <2> HIDE DEF q
  <2>4. /\ step' = [step EXCEPT ![c] = "validated"]
        /\ fresh' = [fresh EXCEPT ![c] = {"seen"}]
        /\ file' = file /\ text' = text
    BY <1>3 DEF Restore, StepTo
  <2>5. change'[c] = q /\ Basis(c)' = file.on /\ fresh'[c] = {"seen"}
    BY <2>3, <2>4 DEF Basis, ModTypeOK
  <2>6. Decided(change[c], fresh[c], Basis(c))'
    BY <2>2, <2>5 DEF Decided
  <2>7. \A d \in Client : d # c => Decided(change[d], fresh[d], Basis(d))'
    BY <2>3, <2>4, OthersDecided DEF ModTypeOK
  <2> QED  BY <2>6, <2>7 DEF Decisions
<1>4. ASSUME NEW c \in Client, TakeSnapshot(c) PROVE Decisions'
  <2>1. \A d \in Client : Basis(d)' = Basis(d)
    BY <1>4 DEF TakeSnapshot, StepTo, Basis, ModTypeOK
  <2> QED  BY <1>4, <2>1 DEF TakeSnapshot, Decisions
<1>4a. ASSUME NEW c \in Client, Prune(c) PROVE Decisions'
  <2>1. \A d \in Client : Basis(d)' = Basis(d)
    BY <1>4a DEF Prune, StepTo, Basis, ModTypeOK
  <2> QED  BY <1>4a, <2>1 DEF Prune, Decisions
<1>5. ASSUME NEW c \in Client, ReadTabs(c) PROVE Decisions'
  <2>1. \A d \in Client : Basis(d)' = Basis(d)
    BY <1>5 DEF ReadTabs, StepTo, Basis, ModTypeOK
  <2> QED  BY <1>5, <2>1 DEF ReadTabs, Decisions
<1>6. ASSUME NEW c \in Client, Switch(c) PROVE Decisions'
  <2>1. fresh'[c] = {}
    BY <1>6 DEF Switch, ModTypeOK
  <2>2. \A d \in Client : d # c => Decided(change[d], fresh[d], Basis(d))'
    <3> SUFFICES ASSUME NEW d \in Client, d # c
                 PROVE  Decided(change[d], fresh[d], Basis(d))'
      OBVIOUS
    <3>1. /\ step'[d] = step[d] /\ change'[d] = change[d] /\ text'[d] = text[d]
          /\ fresh'[d] = fresh[d] /\ file' = file
      BY <1>6 DEF Switch, StepTo, ModTypeOK
    <3> QED  BY <3>1, OthersDecided
  <2> QED  BY <2>1, <2>2, NothingDecided DEF Decisions
<1>7. ASSUME NEW c \in Client, Truncate(c) PROVE Decisions'
  <2>1. Basis(c)' = Basis(c) /\ change'[c] = change[c] /\ fresh'[c] = fresh[c]
    BY <1>7 DEF Truncate, StepTo, Basis, Overwrite, ModTypeOK
  <2>2. \A d \in Client : d # c => fresh'[d] = {}
    BY <1>7 DEF Truncate, Overwrite
  <2>3. Decided(change[c], fresh[c], Basis(c))'
    BY <2>1 DEF Decisions
  <2>4. \A d \in Client : d # c => Decided(change[d], fresh[d], Basis(d))'
    BY <2>2, NothingDecided
  <2> QED  BY <2>3, <2>4 DEF Decisions
<1>8. ASSUME NEW c \in Client, Fill(c) PROVE Decisions'
  <2>1. \A d \in Client : fresh'[d] = {}
    BY <1>8 DEF Fill, Overwrite
  <2> QED  BY <2>1, NothingDecided DEF Decisions
<1>9. ASSUME NEW c \in Client, Forget(c) \/ GiveUp(c) PROVE Decisions'
  <2>1. fresh'[c] = {}
    BY <1>9 DEF Forget, GiveUp, ModTypeOK
  <2>2. \A d \in Client : d # c => Decided(change[d], fresh[d], Basis(d))'
    <3> SUFFICES ASSUME NEW d \in Client, d # c
                 PROVE  Decided(change[d], fresh[d], Basis(d))'
      OBVIOUS
    <3>1. /\ step'[d] = step[d] /\ change'[d] = change[d] /\ text'[d] = text[d]
          /\ fresh'[d] = fresh[d] /\ file' = file
      BY <1>9 DEF Forget, GiveUp, EndRequest, StepTo, ModTypeOK
    <3> QED  BY <3>1, OthersDecided
  <2> QED  BY <2>1, <2>2, NothingDecided DEF Decisions
<1>10. ASSUME ModNext PROVE Decisions'
  <2>1. \/ \E d \in Client :
            \/ Preview(d) \/ Forget(d) \/ Validate(d) \/ Restore(d)
            \/ TakeSnapshot(d) \/ Prune(d) \/ ReadTabs(d)
        \/ \E d \in Client : Switch(d) \/ Truncate(d) \/ Fill(d) \/ GiveUp(d)
    BY <1>10 DEF ModNext, Client
  <2>2. CASE \E d \in Client :
               \/ Preview(d) \/ Forget(d) \/ Validate(d) \/ Restore(d)
               \/ TakeSnapshot(d) \/ Prune(d) \/ ReadTabs(d)
    BY <1>1, <1>2, <1>3, <1>4, <1>4a, <1>5, <1>9, <2>2, Zenon
  <2>3. CASE \E d \in Client : Switch(d) \/ Truncate(d) \/ Fill(d) \/ GiveUp(d)
    BY <1>6, <1>7, <1>8, <1>9, <2>3, Zenon
  <2> QED  BY <2>1, <2>2, <2>3
<1>11. CASE UNCHANGED modVars
  <2>1. \A d \in Client : Basis(d)' = Basis(d)
    BY <1>11 DEF modVars, Basis
  <2> QED  BY <1>11, <2>1 DEF modVars, Decisions
<1> QED  BY <1>10, <1>11 DEF ModNext

-----------------------------------------------------------------------------
LEMMA ModInvariant == ModSpec => []ModInv
<1>1. ModInit => ModInv
  BY ModAssumption, ModInitInv
<1>2. ModInv /\ [ModNext]_modVars => ModInv'
  BY ModAssumption, ModTypes, DecisionsKept DEF ModInv
<1> QED  BY <1>1, <1>2, PTL DEF ModSpec

\* The module system's variables keep their types: no write puts a tab on that
\* has no line, and no request carries a change that turns a tab both ways.
THEOREM ModTypesCorrect == ModSpec => []ModTypeOK
<1>1. ModInv => ModTypeOK
  BY DEF ModInv
<1> QED  BY <1>1, ModInvariant, PTL

\* Only a write of its text ends a request that is writing and changes the file.
LEMMA WriteIsFill ==
    ASSUME ModTypeOK, NEW c \in Client, Writes(c), [ModNext]_modVars
    PROVE  Fill(c)
<1>1. step[c] = "writing" /\ step'[c] = "idle" /\ file' # file
  BY DEF Writes
<1>2. PICK d \in Client :
        \/ Preview(d) \/ Forget(d) \/ Validate(d) \/ Restore(d)
        \/ TakeSnapshot(d) \/ Prune(d) \/ ReadTabs(d)
        \/ Switch(d) \/ Truncate(d) \/ Fill(d) \/ GiveUp(d)
  BY <1>1 DEF ModNext, Client, modVars
<1>3. Truncate(d) \/ Fill(d)
  BY <1>1, <1>2 DEF Preview, Forget, Validate, Restore, TakeSnapshot, Prune,
                    ReadTabs,
                    Switch, GiveUp
<1>4. ~Truncate(d)
  BY <1>1 DEF Truncate, StepTo, ModTypeOK
<1>5. d = c
  BY <1>1, <1>3, <1>4 DEF Fill, EndRequest, StepTo, ModTypeOK
<1> QED  BY <1>3, <1>4, <1>5

LEMMA WrittenBasis ==
    ASSUME ModInv, NEW c \in Client, Fill(c)
    PROVE  /\ Basis(c) = text[c].on
           /\ Decided(change[c], fresh[c], text[c].on)
           /\ file'.on = (text[c].on \cup (change[c].up \cap text[c].listed))
                            \ change[c].down
           /\ file'.listed = text[c].listed
  BY DEF ModInv, Decisions, Fill, Written, Basis

\* What a change leaves on has what it requires, and an enabled module conflicts
\* with nothing that was on, as far as the decision was not overwritten.
THEOREM ChangesSound == ModSpec => ChangeSound
<1> DEFINE Sound ==
    \A c \in Client : Writes(c) =>
        /\ change[c].kind \in {"enable", "install", "disable"}
             /\ "seen" \in fresh[c]
             /\ change[c].up \subseteq text[c].listed
             /\ Complete(text[c].on)
           => Complete(file'.on)
        /\ change[c].kind = "enable" /\ "checked" \in fresh[c]
           => \A m \in file'.on \ text[c].on, n \in text[c].on : ~Clash(m, n)
<1>1. ModInv /\ [ModNext]_modVars => [Sound]_modVars
  <2> SUFFICES ASSUME ModInv, [ModNext]_modVars, NEW c \in Client, Writes(c)
               PROVE
        /\ change[c].kind \in {"enable", "install", "disable"}
             /\ "seen" \in fresh[c]
             /\ change[c].up \subseteq text[c].listed
             /\ Complete(text[c].on)
           => Complete(file'.on)
        /\ change[c].kind = "enable" /\ "checked" \in fresh[c]
           => \A m \in file'.on \ text[c].on, n \in text[c].on : ~Clash(m, n)
    OBVIOUS
  <2>1. Fill(c)
    BY WriteIsFill DEF ModInv
  <2>2. /\ Decided(change[c], fresh[c], text[c].on)
        /\ file'.on = (text[c].on \cup (change[c].up \cap text[c].listed))
                         \ change[c].down
    BY <2>1, WrittenBasis
  <2>3. ASSUME change[c].kind \in {"enable", "install", "disable"},
               "seen" \in fresh[c], change[c].up \subseteq text[c].listed,
               Complete(text[c].on)
        PROVE  Complete(file'.on)
    <3>1. file'.on = (text[c].on \cup change[c].up) \ change[c].down
      BY <2>2, <2>3
    <3>2. Complete((text[c].on \cup change[c].up) \ change[c].down)
      BY <2>2, <2>3 DEF Decided
    <3> QED  BY <3>1, <3>2
  <2>4. ASSUME change[c].kind = "enable", "checked" \in fresh[c]
        PROVE  \A m \in file'.on \ text[c].on, n \in text[c].on : ~Clash(m, n)
    <3>1. \A m \in change[c].up, n \in text[c].on : ~Clash(m, n)
      BY <2>2, <2>4 DEF Decided
    <3> QED  BY <2>2, <3>1
  <2> QED  BY <2>3, <2>4
<1> QED  BY <1>1, ModInvariant, PTL DEF ModSpec, ChangeSound

\* A rollback that nobody writes into brings its snapshot back.
THEOREM RollbacksRestore == ModSpec => RollbackRestores
<1> DEFINE Restores ==
    \A c \in Client :
        Writes(c) /\ change[c].kind = "rollback" /\ "seen" \in fresh[c]
            => file'.on = change[c].goal \cap file'.listed
<1>1. ModInv /\ [ModNext]_modVars => [Restores]_modVars
  <2> SUFFICES ASSUME ModInv, [ModNext]_modVars, NEW c \in Client, Writes(c),
                      change[c].kind = "rollback", "seen" \in fresh[c]
               PROVE  file'.on = change[c].goal \cap file'.listed
    OBVIOUS
  <2>1. Fill(c)
    BY WriteIsFill DEF ModInv
  <2>2. /\ Decided(change[c], fresh[c], text[c].on)
        /\ file'.on = (text[c].on \cup (change[c].up \cap text[c].listed))
                         \ change[c].down
        /\ file'.listed = text[c].listed
    BY <2>1, WrittenBasis
  <2>3. /\ change[c].up = change[c].goal \ text[c].on
        /\ change[c].down = text[c].on \ change[c].goal
    BY <2>2 DEF Decided
  <2>4. text[c].on \subseteq text[c].listed
    BY DEF ModInv, ModTypeOK, Files
  <2> QED  BY <2>2, <2>3, <2>4
<1> QED  BY <1>1, ModInvariant, PTL DEF ModSpec, RollbackRestores
=============================================================================
