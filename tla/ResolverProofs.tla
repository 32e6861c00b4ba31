--------------------------- MODULE ResolverProofs ---------------------------
(***************************************************************************)
(* Proofs about ResolverSearch, for any set of modules, any manifests and  *)
(* any order of the lists.  The searches are recursive; what they compute  *)
(* is proved of their stack and their visited set by an invariant, with no *)
(* induction over the graph.                                               *)
(***************************************************************************)
EXTENDS ResolverSearch, ModulesProofs

Frames == [node : Node, todo : SUBSET Node]

\* A call that has been made, and one that has returned.
Entered == visited \cup OnStack
Finished == visited \ OnStack

-----------------------------------------------------------------------------
\* The inductive invariant.

SearchTypes ==
    /\ phase \in Phases
    /\ phase # "none" => query \in Queries
    /\ stack \in Seq(Frames)
    /\ visited \subseteq Node
    /\ result \in Seq(Node)

\* What Call starts from, what Answer leaves.
Progress ==
    /\ phase = "none" => stack = <<>> /\ visited = {} /\ result = <<>>
    /\ phase = "done" => stack = <<>> /\ query.roots \subseteq visited
    /\ phase # "none" /\ query.kind = "sort" =>
        \A n \in Node \ query.roots : query.graph[n] = {}

\* No call is made again while it runs; the sort visits a node when its call
\* returns, the others when it begins.
StackShape ==
    /\ \A i \in DOMAIN stack, j \in DOMAIN stack :
        stack[i].node = stack[j].node => i = j
    /\ phase # "none" =>
        IF query.kind = "sort" THEN visited \cap OnStack = {}
                               ELSE OnStack \subseteq visited

ListShape ==
    /\ IsInjective(result)
    /\ phase # "none" =>
        ToSet(result) =
            IF query.kind = "disable" THEN visited \cap query.on
            ELSE IF query.kind = "enable" THEN (Finished \cap query.known) \ query.on
            ELSE visited

\* Nothing is forgotten: what a call should look at it has entered or still has
\* before it.
NothingMissed ==
    /\ \A m \in Finished : Follow(query, m) \subseteq Entered
    /\ \A i \in DOMAIN stack :
        Follow(query, stack[i].node) \subseteq Entered \cup stack[i].todo

\* Nothing is looked at that is not to be found.
NothingElse ==
    /\ phase # "none" => Entered \subseteq Found(query)
    /\ \A i \in DOMAIN stack : stack[i].todo \subseteq Follow(query, stack[i].node)

\* The stack is a path of the graph.
StackIsPath ==
    phase # "none" /\ query.kind # "disable" =>
        \A i \in DOMAIN stack, j \in DOMAIN stack :
            i <= j => stack[j].node \in Reach(stack[i].node, query.graph)

\* The sort stops at a cycle; the other searches go round it.
Straight == query.kind = "sort" \/ (query.kind = "enable" /\ ~Cyclic(query.graph))

\* A call returns after those it waits for, so the list has them first.
Order ==
    phase # "none" /\ Straight =>
        /\ \A m \in Finished : Follow(query, m) \subseteq Finished
        /\ \A i \in DOMAIN stack :
            \A m \in Follow(query, stack[i].node) \ stack[i].todo :
                m \in Finished \/ (i + 1 \in DOMAIN stack /\ m = stack[i + 1].node)
        /\ RequirementsFirst(query.graph, result)

CycleIsCycle == phase = "cycle" => query.kind = "sort" /\ Cyclic(query.graph)

SearchInv ==
    /\ SearchTypes /\ Progress /\ StackShape /\ ListShape /\ NothingMissed
    /\ NothingElse /\ StackIsPath /\ Order /\ CycleIsCycle

-----------------------------------------------------------------------------
\* The graph.

LEMMA FollowWithin ==
    ASSUME NEW q \in Queries, NEW n \in Node
    PROVE  /\ Follow(q, n) \subseteq Node
           /\ q.kind # "disable" => Follow(q, n) \subseteq q.graph[n]
           /\ q.graph \in [Node -> SUBSET Node]
           /\ [m \in Node |-> Follow(q, m)] \in [Node -> SUBSET Node]
<1>1. \A m \in Node : Follow(q, m) \subseteq Node
  BY DEF Queries, Searches, Follow
<1>2. q.kind # "disable" => Follow(q, n) \subseteq q.graph[n]
  BY DEF Queries, Searches, Follow
<1>3. q.graph \in [Node -> SUBSET Node]
  BY DEF Queries
<1> QED  BY <1>1, <1>2, <1>3

LEMMA ReachLeast ==
    ASSUME NEW N, NEW next \in [N -> SUBSET N], NEW t \in N,
           NEW S \in SUBSET N, t \in S, ClosedUnder(S, next)
    PROVE  Reach(t, next) \subseteq S
  BY DEF Reach

LEMMA ReachFurther ==
    ASSUME NEW N, NEW next \in [N -> SUBSET N], NEW t, NEW m \in Reach(t, next)
    PROVE  /\ next[m] \subseteq Reach(t, next)
           /\ Reach(m, next) \subseteq Reach(t, next)
<1>1. ClosedUnder(Reach(t, next), next)
  BY ReachClosed
<1>2. Reach(t, next) \subseteq N
  BY ReachWithin
<1>3. Reach(m, next) \subseteq Reach(t, next)
  BY <1>1, <1>2, ReachLeast
<1> QED  BY <1>1, <1>3 DEF ClosedUnder

LEMMA FoundClosed ==
    ASSUME NEW q \in Queries
    PROVE  /\ q.roots \subseteq Found(q)
           /\ Found(q) \subseteq Node
           /\ \A m \in Found(q) : Follow(q, m) \subseteq Found(q)
<1> DEFINE next == [m \in Node |-> Follow(q, m)]
<1>1. next \in [Node -> SUBSET Node] /\ q.roots \subseteq Node
  BY FollowWithin DEF Queries
<1>2. \A m \in Node : next[m] = Follow(q, m)
  OBVIOUS
<1>3. Found(q) = UNION {Reach(r, next) : r \in q.roots}
  BY DEF Found
<1> HIDE DEF next
<1>4. \A r \in q.roots : r \in Reach(r, next) /\ Reach(r, next) \subseteq Node
  BY <1>1, ReachTarget, ReachWithin
<1>5. \A r \in q.roots : \A m \in Reach(r, next) : next[m] \subseteq Reach(r, next)
  BY <1>1, ReachFurther
<1> QED  BY <1>2, <1>3, <1>4, <1>5

LEMMA FoundLeast ==
    ASSUME NEW q \in Queries, NEW S \in SUBSET Node, q.roots \subseteq S,
           \A m \in S : Follow(q, m) \subseteq S
    PROVE  Found(q) \subseteq S
<1> DEFINE next == [m \in Node |-> Follow(q, m)]
<1>1. next \in [Node -> SUBSET Node] /\ q.roots \subseteq Node
  BY FollowWithin DEF Queries
<1>2. ClosedUnder(S, next)
  BY DEF ClosedUnder
<1>3. Found(q) = UNION {Reach(r, next) : r \in q.roots}
  BY DEF Found
<1> HIDE DEF next
<1>4. \A r \in q.roots : Reach(r, next) \subseteq S
  BY <1>1, <1>2, ReachLeast
<1> QED  BY <1>3, <1>4

-----------------------------------------------------------------------------
\* What the steps do to the stack.

\* The outermost call is made, or d by the innermost.
Entering(d) ==
    /\ phase = "searching" /\ phase' = phase /\ query' = query
    /\ d \in Node \ Entered
    /\ stack = <<>> => d \in query.roots
    /\ stack # <<>> => d \in Innermost.todo
    /\ stack' \in Seq(Frames)
    /\ Len(stack') = Len(stack) + 1
    /\ \A i \in 1..Len(stack) :
        /\ stack'[i].node = stack[i].node
        /\ stack'[i].todo = IF i = Len(stack) THEN stack[i].todo \ {d} ELSE stack[i].todo
    /\ stack'[Len(stack) + 1] = [node |-> d, todo |-> Follow(query, d)]
    /\ OnStack' = OnStack \cup {d}
    /\ visited' = IF query.kind = "sort" THEN visited ELSE visited \cup {d}
    /\ result' = IF query.kind = "disable" /\ d \in query.on \ ToSet(result)
                 THEN Append(result, d) ELSE result

Skipping(d) ==
    /\ phase = "searching" /\ phase' = phase /\ query' = query
    /\ stack # <<>> /\ d \in Innermost.todo
    /\ d \in visited
    /\ query.kind = "sort" => d \notin OnStack
    /\ stack' \in Seq(Frames)
    /\ Len(stack') = Len(stack)
    /\ \A i \in 1..Len(stack) :
        /\ stack'[i].node = stack[i].node
        /\ stack'[i].todo = IF i = Len(stack) THEN stack[i].todo \ {d} ELSE stack[i].todo
    /\ OnStack' = OnStack
    /\ visited' = visited /\ result' = result

Leaving(n) ==
    /\ phase = "searching" /\ phase' = phase /\ query' = query
    /\ stack # <<>> /\ Innermost.todo = {} /\ n = Innermost.node
    /\ stack' \in Seq(Frames)
    /\ Len(stack') = Len(stack) - 1
    /\ \A i \in 1..(Len(stack) - 1) : stack'[i] = stack[i]
    /\ OnStack' = OnStack \ {n}
    /\ visited' = visited \cup {n}
    /\ result' = IF Listed(n) THEN Append(result, n) ELSE result

LEMMA FrameFields ==
    ASSUME NEW f \in Frames
    PROVE  f.node \in Node /\ f.todo \in SUBSET Node
  BY DEF Frames

LEMMA TopOfStack ==
    ASSUME SearchTypes, stack # <<>>
    PROVE  /\ Len(stack) \in Nat \ {0}
           /\ DOMAIN stack = 1..Len(stack)
           /\ Innermost \in Frames
           /\ Innermost.node \in OnStack
           /\ Innermost.node \in Node /\ Innermost.todo \subseteq Node
<1>1. Len(stack) \in Nat \ {0} /\ DOMAIN stack = 1..Len(stack)
  BY EmptySeq, LenProperties DEF SearchTypes
<1>2. Innermost \in Frames
  BY <1>1, ElementOfSeq DEF SearchTypes, Innermost
<1> QED  BY <1>1, <1>2, FrameFields DEF OnStack, Innermost

LEMMA LookedAtShape ==
    ASSUME SearchTypes, stack # <<>>, NEW d
    PROVE  /\ LookedAt(d) \in Seq(Frames)
           /\ Len(LookedAt(d)) = Len(stack)
           /\ \A i \in 1..Len(stack) :
                /\ LookedAt(d)[i].node = stack[i].node
                /\ LookedAt(d)[i].todo = IF i = Len(stack) THEN stack[i].todo \ {d}
                                                           ELSE stack[i].todo
<1> DEFINE f == [Innermost EXCEPT !.todo = @ \ {d}]
<1>1. Len(stack) \in 1..Len(stack) /\ Innermost \in Frames
  BY TopOfStack
<1>2. f \in Frames /\ f.node = Innermost.node /\ f.todo = Innermost.todo \ {d}
  BY <1>1 DEF Frames
<1>3. LookedAt(d) = [stack EXCEPT ![Len(stack)] = f]
  BY DEF LookedAt, Innermost
<1> HIDE DEF f
<1>4. /\ LookedAt(d) \in Seq(Frames)
      /\ Len(LookedAt(d)) = Len(stack)
      /\ \A i \in 1..Len(stack) :
            LookedAt(d)[i] = IF i = Len(stack) THEN f ELSE stack[i]
  BY <1>1, <1>2, <1>3, ExceptSeq DEF SearchTypes
<1> QED  BY <1>2, <1>4 DEF Innermost

LEMMA PushShape ==
    ASSUME SearchTypes, query \in Queries, NEW d \in Node, NEW calls \in Seq(Frames),
           Len(calls) = Len(stack), Enter(d, calls),
           \A i \in 1..Len(stack) : calls[i].node = stack[i].node
    PROVE  /\ stack' \in Seq(Frames)
           /\ Len(stack') = Len(stack) + 1
           /\ \A i \in 1..Len(stack) : stack'[i] = calls[i]
           /\ stack'[Len(stack) + 1] = [node |-> d, todo |-> Follow(query, d)]
           /\ OnStack' = OnStack \cup {d}
<1> DEFINE f == [node |-> d, todo |-> Follow(query, d)]
<1>1. f \in Frames /\ f.node = d
  BY FollowWithin DEF Frames
<1>2. stack' = Append(calls, f)
  BY DEF Enter
<1> HIDE DEF f
<1>3. /\ stack' \in Seq(Frames)
      /\ Len(stack') = Len(stack) + 1
      /\ \A i \in 1..Len(stack) : stack'[i] = calls[i]
      /\ stack'[Len(stack) + 1] = f
  BY <1>1, <1>2, AppendProperties
<1>4. /\ DOMAIN stack = 1..Len(stack) /\ Len(stack) \in Nat
      /\ DOMAIN stack' = 1..(Len(stack) + 1)
  BY <1>3, LenProperties DEF SearchTypes
<1>5. OnStack' = {stack'[i].node : i \in 1..(Len(stack) + 1)}
  BY <1>4 DEF OnStack
<1>6. OnStack = {stack[i].node : i \in 1..Len(stack)}
  BY <1>4 DEF OnStack
<1>7. \A i \in 1..(Len(stack) + 1) : stack'[i].node =
        IF i = Len(stack) + 1 THEN d ELSE stack[i].node
  BY <1>1, <1>3, <1>4
<1>8. OnStack' = OnStack \cup {d}
  BY <1>4, <1>5, <1>6, <1>7
<1> QED  BY <1>3, <1>8 DEF f

LEMMA BeginEnters ==
    ASSUME SearchTypes, StackShape, NEW d \in Node, StartAt(d)
    PROVE  Entering(d)
<1>1. query \in Queries /\ phase = "searching" /\ stack = <<>>
  BY DEF SearchTypes, StartAt
<1>2. Len(stack) = 0 /\ stack \in Seq(Frames)
  BY <1>1, EmptySeq DEF SearchTypes
<1>3. OnStack = {}
  BY <1>1 DEF OnStack
<1>4. /\ stack' \in Seq(Frames)
      /\ Len(stack') = Len(stack) + 1
      /\ stack'[Len(stack) + 1] = [node |-> d, todo |-> Follow(query, d)]
      /\ OnStack' = OnStack \cup {d}
  BY <1>1, <1>2, PushShape DEF StartAt
<1> QED  BY <1>1, <1>2, <1>3, <1>4 DEF Entering, StartAt, Enter, Entered

LEMMA DescendEnters ==
    ASSUME SearchTypes, StackShape, NEW d \in Node, Descend(d)
    PROVE  Entering(d)
<1>1. query \in Queries /\ phase = "searching" /\ stack # <<>> /\ d \in Innermost.todo
  BY DEF SearchTypes, Descend, Looks
<1>2. Enter(d, LookedAt(d))
  BY DEF Descend
<1>3. /\ LookedAt(d) \in Seq(Frames)
      /\ Len(LookedAt(d)) = Len(stack)
      /\ \A i \in 1..Len(stack) :
           /\ LookedAt(d)[i].node = stack[i].node
           /\ LookedAt(d)[i].todo = IF i = Len(stack) THEN stack[i].todo \ {d}
                                                      ELSE stack[i].todo
  BY <1>1, LookedAtShape
<1>4. /\ stack' \in Seq(Frames)
      /\ Len(stack') = Len(stack) + 1
      /\ \A i \in 1..Len(stack) : stack'[i] = LookedAt(d)[i]
      /\ stack'[Len(stack) + 1] = [node |-> d, todo |-> Follow(query, d)]
      /\ OnStack' = OnStack \cup {d}
  BY <1>1, <1>2, <1>3, PushShape
<1>5. d \notin Entered
  BY <1>1 DEF Descend, Entered, StackShape, Queries, Searches
<1> QED  BY <1>1, <1>2, <1>3, <1>4, <1>5 DEF Entering, Enter

LEMMA SkipSkips ==
    ASSUME SearchTypes, NEW d \in Node, Skip(d)
    PROVE  Skipping(d)
<1>1. phase = "searching" /\ stack # <<>> /\ d \in Innermost.todo
  BY DEF Skip, Looks
<1>2. stack' = LookedAt(d)
  BY DEF Skip
<1>3. /\ stack' \in Seq(Frames)
      /\ Len(stack') = Len(stack)
      /\ \A i \in 1..Len(stack) :
           /\ stack'[i].node = stack[i].node
           /\ stack'[i].todo = IF i = Len(stack) THEN stack[i].todo \ {d}
                                                 ELSE stack[i].todo
  BY <1>1, <1>2, LookedAtShape
<1>4. DOMAIN stack = 1..Len(stack) /\ DOMAIN stack' = 1..Len(stack)
  BY <1>3, LenProperties DEF SearchTypes
<1>5. OnStack' = {stack'[i].node : i \in 1..Len(stack)}
  BY <1>4 DEF OnStack
<1>6. OnStack' = OnStack
  BY <1>3, <1>4, <1>5 DEF OnStack
<1> QED  BY <1>1, <1>3, <1>6 DEF Skipping, Skip

LEMMA ReturnLeaves ==
    ASSUME SearchTypes, StackShape, Return
    PROVE  Leaving(Innermost.node)
<1>1. phase = "searching" /\ stack # <<>> /\ Innermost.todo = {}
  BY DEF Return
<1>2. /\ Len(stack) \in Nat \ {0} /\ DOMAIN stack = 1..Len(stack)
      /\ \A i \in 1..(Len(stack) - 1) : stack[i] \in Frames
  BY <1>1, TopOfStack, ElementOfSeq DEF SearchTypes
<1>3. stack' = SubSeq(stack, 1, Len(stack) - 1)
  BY DEF Return, Front
<1>4. /\ stack' \in Seq(Frames)
      /\ Len(stack') = Len(stack) - 1
      /\ \A i \in 1..(Len(stack) - 1) : stack'[i] = stack[i]
  BY <1>2, <1>3, SubSeqProperties
<1>5. DOMAIN stack' = 1..(Len(stack) - 1)
  BY <1>4, LenProperties
<1>6. OnStack' = {stack[i].node : i \in 1..(Len(stack) - 1)}
  BY <1>4, <1>5 DEF OnStack
<1>7. \A i \in 1..(Len(stack) - 1) : stack[i].node # Innermost.node
  BY <1>2 DEF StackShape, Innermost
<1>8. OnStack = {stack[i].node : i \in 1..Len(stack)}
  BY <1>2 DEF OnStack
<1>9. OnStack' = OnStack \ {Innermost.node}
  BY <1>2, <1>6, <1>7, <1>8 DEF Innermost
<1> QED  BY <1>1, <1>4, <1>9 DEF Leaving, Return

-----------------------------------------------------------------------------
\* The steps keep the invariant.

LEMMA AppendOnce ==
    ASSUME NEW s \in Seq(Node), NEW n \in Node \ ToSet(s), IsInjective(s)
    PROVE  /\ Append(s, n) \in Seq(Node)
           /\ ToSet(Append(s, n)) = ToSet(s) \cup {n}
           /\ IsInjective(Append(s, n))
<1> DEFINE t == Append(s, n)
<1>1. /\ t \in Seq(Node) /\ Len(t) = Len(s) + 1
      /\ \A i \in 1..Len(s) : t[i] = s[i]
      /\ t[Len(s) + 1] = n
  BY AppendProperties
<1>2. Len(s) \in Nat /\ DOMAIN s = 1..Len(s) /\ DOMAIN t = 1..(Len(s) + 1)
  BY <1>1, LenProperties
<1> HIDE DEF t
<1>3. \A i \in 1..Len(s) : s[i] # n
  BY <1>2 DEF ToSet
<1>4. IsInjective(t)
  BY <1>1, <1>2, <1>3 DEF IsInjective
<1>5. ToSet(t) = ToSet(s) \cup {n}
  BY <1>1, <1>2 DEF ToSet
<1> QED  BY <1>1, <1>4, <1>5 DEF t

LEMMA StackLength ==
    ASSUME SearchTypes
    PROVE  /\ Len(stack) \in Nat /\ DOMAIN stack = 1..Len(stack)
           /\ stack = <<>> <=> Len(stack) = 0
           /\ \A i \in 1..Len(stack) :
                /\ stack[i].node \in Node /\ stack[i].node \in OnStack
                /\ stack[i].todo \subseteq Node
<1>1. /\ Len(stack) \in Nat /\ DOMAIN stack = 1..Len(stack)
      /\ stack = <<>> <=> Len(stack) = 0
  BY EmptySeq, LenProperties DEF SearchTypes
<1>2. \A i \in 1..Len(stack) : stack[i] \in Frames
  BY ElementOfSeq DEF SearchTypes
<1> QED  BY <1>1, <1>2, FrameFields DEF OnStack

LEMMA EnteringSets ==
    ASSUME SearchInv, NEW d, Entering(d)
    PROVE  /\ Entered' = Entered \cup {d} /\ Finished' = Finished
           /\ DOMAIN stack' = 1..(Len(stack) + 1)
           /\ stack'[Len(stack) + 1].node = d
           /\ stack'[Len(stack) + 1].todo = Follow(query, d)
<1>1. Entered' = Entered \cup {d}
  BY DEF Entering, Entered
<1>2. Finished' = Finished
  BY DEF Entering, Entered, Finished
<1>3. DOMAIN stack' = 1..(Len(stack) + 1)
  BY LenProperties DEF Entering
<1> QED  BY <1>1, <1>2, <1>3 DEF Entering

\* The module that is entered follows the innermost call.
LEMMA EnteredFollows ==
    ASSUME SearchInv, NEW d, Entering(d), stack # <<>>
    PROVE  /\ Len(stack) \in 1..Len(stack)
           /\ d \in stack[Len(stack)].todo
           /\ d \in Follow(query, stack[Len(stack)].node)
<1>1. Len(stack) \in 1..Len(stack) /\ DOMAIN stack = 1..Len(stack)
  BY StackLength DEF SearchInv
<1>2. d \in stack[Len(stack)].todo
  BY DEF Entering, Innermost
<1> QED  BY <1>1, <1>2 DEF SearchInv, NothingElse

LEMMA EnteringKeeps ==
    ASSUME SearchInv, NEW d, Entering(d)
    PROVE  SearchInv'
<1> USE DEF SearchInv
<1>1. /\ phase = "searching" /\ query \in Queries /\ d \in Node /\ d \notin Entered
      /\ phase' = phase /\ query' = query
  BY DEF SearchTypes, Entering
<1>2. /\ Len(stack) \in Nat /\ DOMAIN stack = 1..Len(stack)
      /\ stack = <<>> <=> Len(stack) = 0
      /\ \A i \in 1..Len(stack) : stack[i].node \in Node /\ stack[i].node \in OnStack
  BY StackLength
<1>3. /\ Entered' = Entered \cup {d} /\ Finished' = Finished
      /\ DOMAIN stack' = 1..(Len(stack) + 1)
      /\ stack'[Len(stack) + 1].node = d
      /\ stack'[Len(stack) + 1].todo = Follow(query, d)
  BY EnteringSets
<1>4. /\ \A i \in 1..Len(stack) :
          /\ stack'[i].node = stack[i].node
          /\ stack'[i].todo = IF i = Len(stack) THEN stack[i].todo \ {d}
                                                ELSE stack[i].todo
      /\ OnStack' = OnStack \cup {d}
      /\ visited' = IF query.kind = "sort" THEN visited ELSE visited \cup {d}
  BY DEF Entering
<1>5. query.kind = "disable" /\ d \in query.on =>
        /\ Append(result, d) \in Seq(Node)
        /\ ToSet(Append(result, d)) = ToSet(result) \cup {d}
        /\ IsInjective(Append(result, d))
  BY <1>1, AppendOnce DEF SearchTypes, ListShape, Entered
<1>6. SearchTypes'
  BY <1>1, <1>4, <1>5 DEF SearchTypes, Entering
<1>7. Progress'
  BY <1>1 DEF Progress
<1>8. StackShape'
  <2>1. \A i \in 1..Len(stack), j \in 1..Len(stack) :
            stack[i].node = stack[j].node => i = j
    BY <1>2 DEF StackShape
  <2>2. ASSUME NEW i \in 1..(Len(stack) + 1), NEW j \in 1..(Len(stack) + 1),
               stack'[i].node = stack'[j].node
        PROVE  i = j
    <3>1. d \notin OnStack
      BY <1>1 DEF Entered
    <3>2. \A k \in 1..Len(stack) : stack'[k].node = stack[k].node /\ stack'[k].node # d
      BY <1>2, <1>4, <3>1
    <3>3. CASE i = Len(stack) + 1 \/ j = Len(stack) + 1
      BY <1>2, <1>3, <2>2, <3>2, <3>3
    <3>4. CASE i \in 1..Len(stack) /\ j \in 1..Len(stack)
      BY <2>1, <2>2, <3>2, <3>4
    <3> QED  BY <1>2, <3>3, <3>4
  <2>3. IF query'.kind = "sort" THEN visited' \cap OnStack' = {}
                                ELSE OnStack' \subseteq visited'
    BY <1>1, <1>4 DEF StackShape, Entered
  <2>4. \A i \in DOMAIN stack', j \in DOMAIN stack' :
            stack'[i].node = stack'[j].node => i = j
    BY <1>3, <2>2
  <2> QED  BY <2>3, <2>4 DEF StackShape
<1>9. ListShape'
  <2>1. CASE query.kind = "disable" /\ d \in query.on
    BY <1>1, <1>4, <1>5, <2>1 DEF ListShape, Entering
  <2>2. CASE query.kind = "disable" /\ d \notin query.on
    <3>1. result' = result /\ visited' = visited \cup {d}
      BY <2>2 DEF Entering
    <3>2. visited' \cap query.on = visited \cap query.on
      BY <2>2, <3>1
    <3> QED  BY <1>1, <2>2, <3>1, <3>2 DEF ListShape
  <2>3. CASE query.kind = "enable"
    <3>1. result' = result
      BY <2>3 DEF Entering
    <3> QED  BY <1>1, <1>3, <2>3, <3>1 DEF ListShape
  <2>4. CASE query.kind = "sort"
    <3>1. result' = result /\ visited' = visited
      BY <2>4 DEF Entering
    <3> QED  BY <1>1, <2>4, <3>1 DEF ListShape
  <2> QED  BY <1>1, <2>1, <2>2, <2>3, <2>4 DEF Queries, Searches
<1>10. NothingMissed'
  <2>1. \A m \in Finished' : Follow(query, m) \subseteq Entered'
    BY <1>3 DEF NothingMissed
  <2>2. \A i \in 1..Len(stack) :
            Follow(query, stack[i].node) \subseteq Entered \cup stack[i].todo
    BY <1>2 DEF NothingMissed
  <2>3. \A i \in 1..Len(stack) :
            Follow(query, stack'[i].node) \subseteq Entered' \cup stack'[i].todo
    BY <1>3, <1>4, <2>2
  <2>4. \A i \in 1..(Len(stack) + 1) :
            Follow(query, stack'[i].node) \subseteq Entered' \cup stack'[i].todo
    BY <1>2, <1>3, <2>3
  <2> QED  BY <1>1, <1>3, <2>1, <2>4 DEF NothingMissed
<1>11. NothingElse'
  <2>1. d \in Found(query)
    <3>1. CASE stack = <<>>
      BY <1>1, <3>1, FoundClosed DEF Entering
    <3>2. CASE stack # <<>>
      <4>1. stack[Len(stack)].node \in Found(query)
        BY <1>1, <1>2, <3>2, EnteredFollows DEF NothingElse, Entered
      <4> QED  BY <1>1, <3>2, <4>1, EnteredFollows, FoundClosed
    <3> QED  BY <3>1, <3>2
  <2>2. \A i \in 1..Len(stack) : stack'[i].todo \subseteq Follow(query, stack'[i].node)
    BY <1>2, <1>4 DEF NothingElse
  <2>3. \A i \in 1..(Len(stack) + 1) :
            stack'[i].todo \subseteq Follow(query, stack'[i].node)
    BY <1>2, <1>3, <2>2
  <2>4. Entered' \subseteq Found(query)
    BY <1>1, <1>3, <2>1 DEF NothingElse
  <2> QED  BY <1>1, <1>3, <2>3, <2>4 DEF NothingElse
<1>12. StackIsPath'
  <2> SUFFICES ASSUME query.kind # "disable",
                      NEW i \in 1..(Len(stack) + 1), NEW j \in 1..(Len(stack) + 1), i <= j
               PROVE  stack'[j].node \in Reach(stack'[i].node, query.graph)
    BY <1>1, <1>3 DEF StackIsPath
  <2>1. query.graph \in [Node -> SUBSET Node]
    BY <1>1, FollowWithin
  <2>2. \A k \in 1..Len(stack), l \in 1..Len(stack) :
            k <= l => stack[l].node \in Reach(stack[k].node, query.graph)
    BY <1>1, <1>2 DEF StackIsPath
  <2>3. CASE j <= Len(stack)
    <3>1. i \in 1..Len(stack) /\ j \in 1..Len(stack)
      BY <1>2, <2>3
    <3> QED  BY <1>4, <2>2, <3>1
  <2>4. CASE i = Len(stack) + 1
    BY <1>1, <1>2, <1>3, <2>1, <2>4, ReachTarget
  <2>5. CASE i <= Len(stack) /\ j = Len(stack) + 1
    <3>1. d \in query.graph[stack[Len(stack)].node]
      BY <1>1, <1>2, <2>5, EnteredFollows, FollowWithin
    <3>2. i \in 1..Len(stack) /\ Len(stack) \in 1..Len(stack)
      BY <1>2, <2>5
    <3>3. stack[Len(stack)].node \in Reach(stack[i].node, query.graph)
      BY <2>2, <3>2
    <3>4. d \in Reach(stack[i].node, query.graph)
      BY <2>1, <3>1, <3>3, ReachFurther
    <3> QED  BY <1>3, <1>4, <2>5, <3>2, <3>4
  <2> QED  BY <1>2, <2>3, <2>4, <2>5
<1>13. Order'
  <2> SUFFICES ASSUME Straight
               PROVE  /\ \A m \in Finished : Follow(query, m) \subseteq Finished
                      /\ \A i \in 1..(Len(stack) + 1) :
                          \A m \in Follow(query, stack'[i].node) \ stack'[i].todo :
                            \/ m \in Finished
                            \/ i + 1 \in 1..(Len(stack) + 1) /\ m = stack'[i + 1].node
                      /\ RequirementsFirst(query.graph, result')
    BY <1>1, <1>3 DEF Order, Straight
  <2>1. \A m \in Finished : Follow(query, m) \subseteq Finished
    BY <1>1 DEF Order
  <2>2. result' = result /\ RequirementsFirst(query.graph, result)
    BY <1>1 DEF Order, Straight, Entering
  <2>3. \A i \in 1..Len(stack) : \A m \in Follow(query, stack[i].node) \ stack[i].todo :
            m \in Finished \/ (i + 1 \in 1..Len(stack) /\ m = stack[i + 1].node)
    BY <1>1, <1>2 DEF Order
  <2>4. Len(stack) \in Nat
    BY <1>2
  <2>5. ASSUME NEW i \in 1..(Len(stack) + 1),
               NEW m \in Follow(query, stack'[i].node) \ stack'[i].todo
        PROVE  \/ m \in Finished
               \/ i + 1 \in 1..(Len(stack) + 1) /\ m = stack'[i + 1].node
    <3>1. CASE i = Len(stack) + 1
      BY <1>3, <3>1
    <3>2. CASE i = Len(stack)
      <4>1. i \in 1..Len(stack) /\ ~(i + 1 \in 1..Len(stack))
        BY <1>2, <3>2
      <4>2. m \in Follow(query, stack[i].node) \ (stack[i].todo \ {d})
        BY <1>4, <3>2, <4>1
      <4>3. m = d \/ m \in Finished
        BY <2>3, <4>1, <4>2
      <4> QED  BY <1>2, <1>3, <3>2, <4>3
    <3>3. CASE i < Len(stack)
      <4>1. i \in 1..Len(stack) /\ i # Len(stack) /\ i + 1 \in 1..Len(stack)
        BY <2>4, <3>3
      <4>2. m \in Follow(query, stack[i].node) \ stack[i].todo
        BY <1>4, <4>1
      <4>3. m \in Finished \/ m = stack'[i + 1].node
        BY <1>4, <2>3, <4>1, <4>2
      <4>4. i + 1 \in 1..(Len(stack) + 1)
        BY <1>2, <3>3
      <4> QED  BY <4>3, <4>4
    <3>4. i = Len(stack) + 1 \/ i = Len(stack) \/ i < Len(stack)
      BY <2>4
    <3> QED  BY <3>1, <3>2, <3>3, <3>4
  <2> QED  BY <2>1, <2>2, <2>5
<1>14. CycleIsCycle'
  BY <1>1 DEF CycleIsCycle
<1> QED  BY <1>6, <1>7, <1>8, <1>9, <1>10, <1>11, <1>12, <1>13, <1>14

\* A module on the stack that the innermost call comes to closes a cycle.
LEMMA CycleOnStack ==
    ASSUME SearchInv, phase = "searching", query.kind # "disable", stack # <<>>,
           NEW d \in Innermost.todo \cap OnStack
    PROVE  Cyclic(query.graph)
<1> USE DEF SearchInv
<1>1. query \in Queries /\ query.graph \in [Node -> SUBSET Node]
  BY FollowWithin DEF SearchTypes, Queries
<1>2. /\ Len(stack) \in Nat /\ DOMAIN stack = 1..Len(stack)
      /\ Len(stack) \in 1..Len(stack) /\ stack[Len(stack)].node \in Node
  BY TopOfStack, StackLength
<1>3. d \in query.graph[stack[Len(stack)].node]
  BY <1>1, <1>2, FollowWithin DEF NothingElse, Innermost
<1>4. PICK i \in 1..Len(stack) : d = stack[i].node
  BY <1>2 DEF OnStack
<1>5. stack[Len(stack)].node \in Reach(d, query.graph)
  <2>1. i <= Len(stack)
    BY <1>2
  <2> QED  BY <1>2, <1>4, <2>1 DEF StackIsPath
<1> QED  BY <1>2, <1>3, <1>5 DEF Cyclic

LEMMA SkippingKeeps ==
    ASSUME SearchInv, NEW d, Skipping(d)
    PROVE  SearchInv'
<1> USE DEF SearchInv
<1>1. /\ phase = "searching" /\ query \in Queries
      /\ phase' = phase /\ query' = query
      /\ stack # <<>> /\ d \in Innermost.todo /\ d \in visited
      /\ OnStack' = OnStack /\ visited' = visited /\ result' = result
  BY DEF SearchTypes, Skipping
<1>2. /\ Len(stack) \in Nat /\ DOMAIN stack = 1..Len(stack)
      /\ Len(stack) \in 1..Len(stack)
      /\ \A i \in 1..Len(stack) : stack[i].node \in Node /\ stack[i].node \in OnStack
  BY <1>1, StackLength, TopOfStack
<1>3. Entered' = Entered /\ Finished' = Finished
  BY <1>1 DEF Entered, Finished
<1>4. DOMAIN stack' = 1..Len(stack)
  BY LenProperties DEF Skipping
<1>5. \A i \in 1..Len(stack) :
        /\ stack'[i].node = stack[i].node
        /\ stack'[i].todo = IF i = Len(stack) THEN stack[i].todo \ {d} ELSE stack[i].todo
  BY DEF Skipping
<1>6. SearchTypes'
  BY <1>1 DEF SearchTypes, Skipping
<1>7. Progress'
  BY <1>1 DEF Progress
<1>8. StackShape'
  BY <1>1, <1>2, <1>4, <1>5 DEF StackShape
<1>9. ListShape'
  BY <1>1, <1>3 DEF ListShape
<1>10. NothingMissed'
  <2>1. d \in Entered
    BY <1>1 DEF Entered
  <2>2. \A i \in 1..Len(stack) :
            Follow(query, stack[i].node) \subseteq Entered \cup stack[i].todo
    BY <1>2 DEF NothingMissed
  <2>3. \A i \in 1..Len(stack) :
            Follow(query, stack'[i].node) \subseteq Entered \cup stack'[i].todo
    BY <1>5, <2>1, <2>2
  <2> QED  BY <1>1, <1>3, <1>4, <2>3 DEF NothingMissed
<1>11. NothingElse'
  <2>1. \A i \in 1..Len(stack) : stack'[i].todo \subseteq Follow(query, stack'[i].node)
    BY <1>2, <1>5 DEF NothingElse
  <2> QED  BY <1>1, <1>3, <1>4, <2>1 DEF NothingElse
<1>12. StackIsPath'
  <2>1. query.kind # "disable" =>
            \A k \in 1..Len(stack), l \in 1..Len(stack) :
                k <= l => stack'[l].node \in Reach(stack'[k].node, query.graph)
    BY <1>1, <1>2, <1>5 DEF StackIsPath
  <2> QED  BY <1>1, <1>4, <2>1 DEF StackIsPath
<1>13. Order'
  <2> SUFFICES ASSUME Straight
               PROVE  \A i \in 1..Len(stack) :
                          \A m \in Follow(query, stack'[i].node) \ stack'[i].todo :
                            \/ m \in Finished
                            \/ i + 1 \in 1..Len(stack) /\ m = stack'[i + 1].node
    BY <1>1, <1>3, <1>4 DEF Order, Straight
  <2>1. d \in Finished
    BY <1>1, CycleOnStack DEF Skipping, Straight, Finished
  <2>2. \A i \in 1..Len(stack) : \A m \in Follow(query, stack[i].node) \ stack[i].todo :
            m \in Finished \/ (i + 1 \in 1..Len(stack) /\ m = stack[i + 1].node)
    BY <1>1, <1>2 DEF Order
  <2>3. ASSUME NEW i \in 1..Len(stack),
               NEW m \in Follow(query, stack'[i].node) \ stack'[i].todo
        PROVE  m \in Finished \/ (i + 1 \in 1..Len(stack) /\ m = stack'[i + 1].node)
    <3>1. m = d \/ m \in Follow(query, stack[i].node) \ stack[i].todo
      BY <1>5
    <3> QED  BY <1>5, <2>1, <2>2, <3>1
  <2> QED  BY <2>3
<1>14. CycleIsCycle'
  BY <1>1 DEF CycleIsCycle
<1> QED  BY <1>6, <1>7, <1>8, <1>9, <1>10, <1>11, <1>12, <1>13, <1>14

LEMMA OrderAppend ==
    ASSUME NEW g, NEW s \in Seq(Node), NEW n \in Node, RequirementsFirst(g, s),
           n \notin g[n], \A m \in ToSet(s) : n \notin g[m]
    PROVE  RequirementsFirst(g, Append(s, n))
<1> DEFINE t == Append(s, n)
<1>1. /\ Len(t) = Len(s) + 1
      /\ t \in Seq(Node)
      /\ \A i \in 1..Len(s) : t[i] = s[i]
      /\ t[Len(s) + 1] = n
  BY AppendProperties
<1>2. Len(s) \in Nat /\ DOMAIN s = 1..Len(s) /\ DOMAIN t = 1..(Len(s) + 1)
  BY <1>1, LenProperties
<1> HIDE DEF t
<1>3. ASSUME NEW i \in 1..(Len(s) + 1), NEW j \in 1..(Len(s) + 1), t[j] \in g[t[i]]
      PROVE  j < i
  <2>1. CASE i \in 1..Len(s) /\ j \in 1..Len(s)
    BY <1>1, <1>2, <1>3, <2>1 DEF RequirementsFirst
  <2>2. CASE i \in 1..Len(s) /\ j = Len(s) + 1
    BY <1>1, <1>2, <1>3, <2>2 DEF ToSet
  <2>3. CASE i = Len(s) + 1 /\ j \in 1..Len(s)
    BY <1>2, <2>3
  <2>4. CASE i = Len(s) + 1 /\ j = Len(s) + 1
    BY <1>1, <1>3, <2>4
  <2> QED  BY <1>2, <2>1, <2>2, <2>3, <2>4
<1> QED  BY <1>2, <1>3 DEF RequirementsFirst, t

LEMMA LeavingKeeps ==
    ASSUME SearchInv, NEW n, Leaving(n)
    PROVE  SearchInv'
<1> USE DEF SearchInv
<1>1. /\ phase = "searching" /\ query \in Queries
      /\ phase' = phase /\ query' = query
      /\ stack # <<>> /\ Innermost.todo = {} /\ n = Innermost.node
      /\ OnStack' = OnStack \ {n} /\ visited' = visited \cup {n}
  BY DEF SearchTypes, Leaving
<1>2. /\ Len(stack) \in Nat /\ DOMAIN stack = 1..Len(stack)
      /\ Len(stack) \in 1..Len(stack)
      /\ \A i \in 1..(Len(stack) - 1) : i \in 1..Len(stack)
      /\ n \in Node /\ n \in OnStack
      /\ n = stack[Len(stack)].node /\ stack[Len(stack)].todo = {}
  BY <1>1, StackLength, TopOfStack DEF Innermost
<1>3. Entered' = Entered /\ Finished' = Finished \cup {n} /\ n \notin Finished
  BY <1>1, <1>2 DEF Entered, Finished
<1>4. /\ DOMAIN stack' = 1..(Len(stack) - 1)
      /\ \A i \in 1..(Len(stack) - 1) : stack'[i] = stack[i]
  BY LenProperties DEF Leaving
<1>5. Listed(n) =>
        /\ n \notin ToSet(result)
        /\ Append(result, n) \in Seq(Node)
        /\ ToSet(Append(result, n)) = ToSet(result) \cup {n}
        /\ IsInjective(Append(result, n))
  <2> SUFFICES ASSUME Listed(n) PROVE n \notin ToSet(result)
    BY <1>2, AppendOnce DEF SearchTypes, ListShape
  <2> QED  BY <1>1, <1>2, <1>3 DEF Listed, ListShape, StackShape
<1>6. SearchTypes'
  BY <1>1, <1>2, <1>5 DEF SearchTypes, Leaving
<1>7. Progress'
  BY <1>1 DEF Progress
<1>8. StackShape'
  <2>1. \A i \in 1..(Len(stack) - 1), j \in 1..(Len(stack) - 1) :
            stack'[i].node = stack'[j].node => i = j
    BY <1>2, <1>4 DEF StackShape
  <2>2. IF query.kind = "sort" THEN visited' \cap OnStack' = {}
                               ELSE OnStack' \subseteq visited'
    BY <1>1 DEF StackShape
  <2> QED  BY <1>1, <1>4, <2>1, <2>2 DEF StackShape
<1>9. ListShape'
  <2>1. CASE query.kind = "disable"
    <3>1. result' = result
      BY <2>1 DEF Leaving, Listed
    <3>2. visited' = visited
      BY <1>1, <1>2, <2>1 DEF StackShape
    <3> QED  BY <1>1, <2>1, <3>1, <3>2 DEF ListShape
  <2>2. CASE query.kind = "enable" /\ Listed(n)
    BY <1>1, <1>3, <1>5, <2>2 DEF ListShape, Leaving, Listed
  <2>3. CASE query.kind = "enable" /\ ~Listed(n)
    <3>1. result' = result
      BY <2>3 DEF Leaving
    <3>2. n \notin ToSet(result)
      BY <1>1, <1>3, <2>3 DEF ListShape
    <3>3. n \notin query.known \ query.on
      BY <2>3, <3>2 DEF Listed
    <3>4. (Finished' \cap query.known) \ query.on = (Finished \cap query.known) \ query.on
      BY <1>3, <3>3
    <3> QED  BY <1>1, <2>3, <3>1, <3>4 DEF ListShape
  <2>4. CASE query.kind = "sort"
    BY <1>1, <1>5, <2>4 DEF ListShape, Leaving, Listed
  <2> QED  BY <1>1, <2>1, <2>2, <2>3, <2>4 DEF Queries, Searches
<1>10. NothingMissed'
  <2>1. Follow(query, n) \subseteq Entered
    BY <1>2 DEF NothingMissed
  <2>2. \A m \in Finished' : Follow(query, m) \subseteq Entered
    BY <1>3, <2>1 DEF NothingMissed
  <2>3. \A i \in 1..(Len(stack) - 1) :
            Follow(query, stack'[i].node) \subseteq Entered \cup stack'[i].todo
    BY <1>2, <1>4 DEF NothingMissed
  <2> QED  BY <1>1, <1>3, <1>4, <2>2, <2>3 DEF NothingMissed
<1>11. NothingElse'
  <2>1. \A i \in 1..(Len(stack) - 1) :
            stack'[i].todo \subseteq Follow(query, stack'[i].node)
    BY <1>2, <1>4 DEF NothingElse
  <2> QED  BY <1>1, <1>3, <1>4, <2>1 DEF NothingElse
<1>12. StackIsPath'
  <2>1. query.kind # "disable" =>
            \A i \in 1..(Len(stack) - 1), j \in 1..(Len(stack) - 1) :
                i <= j => stack'[j].node \in Reach(stack'[i].node, query.graph)
    BY <1>1, <1>2, <1>4 DEF StackIsPath
  <2> QED  BY <1>1, <1>4, <2>1 DEF StackIsPath
<1>13. Order'
  <2> SUFFICES ASSUME Straight
               PROVE  /\ \A m \in Finished' : Follow(query, m) \subseteq Finished'
                      /\ \A i \in 1..(Len(stack) - 1) :
                          \A m \in Follow(query, stack'[i].node) \ stack'[i].todo :
                            \/ m \in Finished'
                            \/ i + 1 \in 1..(Len(stack) - 1) /\ m = stack'[i + 1].node
                      /\ RequirementsFirst(query.graph, result')
    BY <1>1, <1>4 DEF Order, Straight
  <2>1. \A i \in 1..Len(stack) : \A m \in Follow(query, stack[i].node) \ stack[i].todo :
            m \in Finished \/ (i + 1 \in 1..Len(stack) /\ m = stack[i + 1].node)
    BY <1>1, <1>2 DEF Order
  <2>2. \A m \in Finished : Follow(query, m) \subseteq Finished
    BY <1>1 DEF Order
  <2>3. Len(stack) \in Nat /\ ~(Len(stack) + 1 \in 1..Len(stack))
    BY <1>2
  <2>4. Follow(query, n) \subseteq Finished
    BY <1>2, <2>1, <2>3
  <2>5. ASSUME NEW i \in 1..(Len(stack) - 1),
               NEW m \in Follow(query, stack'[i].node) \ stack'[i].todo
        PROVE  \/ m \in Finished'
               \/ i + 1 \in 1..(Len(stack) - 1) /\ m = stack'[i + 1].node
    <3>1. m \in Follow(query, stack[i].node) \ stack[i].todo /\ i \in 1..Len(stack)
      BY <1>2, <1>4
    <3>2. m \in Finished \/ m = stack[i + 1].node
      BY <2>1, <3>1
    <3>3. i + 1 = Len(stack) \/ i + 1 \in 1..(Len(stack) - 1)
      BY <2>3
    <3>4. CASE i + 1 = Len(stack)
      BY <1>2, <1>3, <3>2, <3>4
    <3>5. CASE i + 1 \in 1..(Len(stack) - 1)
      BY <1>3, <1>4, <3>2, <3>5
    <3> QED  BY <3>3, <3>4, <3>5
  <2>6. RequirementsFirst(query.graph, result')
    <3>1. RequirementsFirst(query.graph, result)
      BY <1>1 DEF Order
    <3>2. CASE ~Listed(n)
      BY <3>1, <3>2 DEF Leaving
    <3>3. CASE Listed(n)
      <4>1. result' = Append(result, n) /\ result \in Seq(Node)
        BY <3>3 DEF Leaving, SearchTypes
      <4>2. n \notin Follow(query, n) /\ \A m \in Finished : n \notin Follow(query, m)
        BY <1>3, <2>2, <2>4
      <4>3. ToSet(result) \subseteq Finished
        BY <1>1 DEF ListShape, Straight, Finished, StackShape
      <4>4. \A m \in Node : n \in query.graph[m] => n \in Follow(query, m)
        BY <3>3 DEF Follow, Straight, Listed
      <4>5. Finished \subseteq Node
        BY DEF Finished, SearchTypes
      <4> QED  BY <1>2, <3>1, <4>1, <4>2, <4>3, <4>4, <4>5, OrderAppend
    <3> QED  BY <3>2, <3>3
  <2> QED  BY <1>3, <2>2, <2>4, <2>5, <2>6
<1>14. CycleIsCycle'
  BY <1>1 DEF CycleIsCycle
<1> QED  BY <1>6, <1>7, <1>8, <1>9, <1>10, <1>11, <1>12, <1>13, <1>14

LEMMA SearchInitInv == SearchInit => SearchInv
<1> SUFFICES ASSUME SearchInit PROVE SearchInv
  OBVIOUS
<1>1. /\ phase = "none" /\ stack = <<>> /\ visited = {} /\ result = <<>>
      /\ DOMAIN stack = {} /\ DOMAIN result = {} /\ Len(stack) = 0
  BY DEF SearchInit
<1>2. stack \in Seq(Frames) /\ result \in Seq(Node)
  BY <1>1, EmptySeq
<1>3. OnStack = {} /\ Finished = {} /\ Entered = {}
  BY <1>1 DEF OnStack, Finished, Entered
<1>4. SearchTypes /\ Progress /\ StackShape /\ CycleIsCycle
  BY <1>1, <1>2 DEF SearchTypes, Phases, Progress, StackShape, CycleIsCycle
<1>5. ListShape
  BY <1>1 DEF ListShape, IsInjective
<1>6. NothingMissed /\ NothingElse /\ StackIsPath /\ Order
  BY <1>1, <1>3 DEF NothingMissed, NothingElse, StackIsPath, Order
<1> QED  BY <1>4, <1>5, <1>6 DEF SearchInv

LEMMA CallKeeps ==
    ASSUME SearchInv, Call
    PROVE  SearchInv'
<1> USE DEF SearchInv
<1>1. /\ phase = "none" /\ stack = <<>> /\ visited = {} /\ result = <<>>
      /\ phase' = "searching" /\ stack' = stack /\ visited' = visited
      /\ result' = result
  BY DEF Call, Progress
<1>2. DOMAIN stack = {} /\ DOMAIN result = {} /\ OnStack = {} /\ OnStack' = {}
  BY <1>1 DEF OnStack
<1>3. Finished' = {} /\ Entered' = {} /\ ToSet(result) = {}
  BY <1>1, <1>2 DEF Finished, Entered, ToSet
<1>4. /\ query' \in Queries
      /\ query'.kind = "sort" =>
            \A n \in Node \ query'.roots : query'.graph[n] = {}
  BY DEF Call, Graphs, Queries, Searches
<1>5. SearchTypes' /\ Progress' /\ StackShape' /\ CycleIsCycle'
  BY <1>1, <1>2, <1>4
     DEF SearchTypes, Phases, Progress, StackShape, CycleIsCycle
<1>6. ListShape'
  BY <1>1, <1>3 DEF ListShape
<1>7. NothingMissed' /\ NothingElse' /\ StackIsPath'
  BY <1>1, <1>2, <1>3 DEF NothingMissed, NothingElse, StackIsPath
<1>8. Order'
  BY <1>1, <1>2, <1>3 DEF Order, RequirementsFirst
<1> QED  BY <1>5, <1>6, <1>7, <1>8

\* Raise and Answer change phase only.
LEMMA PhaseKeeps ==
    ASSUME SearchInv, phase = "searching", UNCHANGED <<query, stack, visited, result>>,
           phase' \in {"done", "cycle"}, CycleIsCycle',
           phase' = "done" => stack = <<>> /\ query.roots \subseteq visited
    PROVE  SearchInv'
<1> USE DEF SearchInv
<1>1. OnStack' = OnStack /\ Finished' = Finished /\ Entered' = Entered
  BY DEF OnStack, Finished, Entered
<1>2. SearchTypes' /\ Progress' /\ StackShape'
  BY <1>1 DEF SearchTypes, Phases, Progress, StackShape
<1>3. ListShape' /\ NothingMissed' /\ NothingElse' /\ StackIsPath'
  BY <1>1 DEF ListShape, NothingMissed, NothingElse, StackIsPath
<1>4. Order'
  BY <1>1 DEF Order, Straight
<1> QED  BY <1>2, <1>3, <1>4

LEMMA SearchStepInv == SearchInv /\ [SearchNext]_searchVars => SearchInv'
<1> SUFFICES ASSUME SearchInv, [SearchNext]_searchVars PROVE SearchInv'
  OBVIOUS
<1> USE DEF SearchInv
<1>1. CASE Call
  BY <1>1, CallKeeps
<1>2. CASE Return
  BY <1>2, ReturnLeaves, LeavingKeeps
<1>3. CASE Answer
  <2>1. CycleIsCycle'
    BY <1>3 DEF Answer, CycleIsCycle
  <2> QED  BY <1>3, <2>1, PhaseKeeps DEF Answer
<1>4. ASSUME NEW n \in Node, StartAt(n) PROVE SearchInv'
  BY <1>4, BeginEnters, EnteringKeeps
<1>5. ASSUME NEW n \in Node, Raise(n) PROVE SearchInv'
  <2>1. query.kind # "disable" /\ n \in Innermost.todo \cap OnStack
    BY <1>5 DEF Raise, Looks
  <2>2. Cyclic(query.graph)
    BY <1>5, <2>1, CycleOnStack DEF Raise, Looks
  <2>3. CycleIsCycle'
    BY <1>5, <2>2 DEF Raise, CycleIsCycle
  <2> QED  BY <1>5, <2>3, PhaseKeeps DEF Raise, Looks
<1>6. ASSUME NEW n \in Node, Skip(n) PROVE SearchInv'
  BY <1>6, SkipSkips, SkippingKeeps
<1>7. ASSUME NEW n \in Node, Descend(n) PROVE SearchInv'
  BY <1>7, DescendEnters, EnteringKeeps
<1>8. CASE UNCHANGED searchVars
  <2>1. OnStack' = OnStack /\ Finished' = Finished /\ Entered' = Entered
    BY <1>8 DEF searchVars, OnStack, Finished, Entered
  <2>2. SearchTypes' /\ Progress' /\ StackShape' /\ CycleIsCycle'
    BY <1>8, <2>1
       DEF searchVars, SearchTypes, Progress, StackShape, CycleIsCycle
  <2>3. ListShape' /\ NothingMissed' /\ NothingElse' /\ StackIsPath' /\ Order'
    BY <1>8, <2>1 DEF searchVars, ListShape, NothingMissed, NothingElse, StackIsPath,
                      Order, Straight
  <2> QED  BY <2>2, <2>3
<1> QED  BY <1>1, <1>2, <1>3, <1>4, <1>5, <1>6, <1>7, <1>8 DEF SearchNext

LEMMA SearchInvariant == SearchSpec => []SearchInv
  BY SearchInitInv, SearchStepInv, PTL DEF SearchSpec

-----------------------------------------------------------------------------
\* What the searches find.

LEMMA AtTheEnd ==
    ASSUME SearchInv, phase = "done"
    PROVE  /\ query \in Queries
           /\ OnStack = {} /\ Finished = visited /\ Entered = visited
           /\ query.roots \subseteq visited
           /\ visited = Found(query)
<1> USE DEF SearchInv
<1>1. query \in Queries /\ visited \in SUBSET Node
  BY DEF SearchTypes
<1>2. stack = <<>> /\ query.roots \subseteq visited
  BY DEF Progress
<1>3. OnStack = {}
  BY <1>2 DEF OnStack
<1>4. Finished = visited /\ Entered = visited
  BY <1>3 DEF Finished, Entered
<1>5. \A m \in visited : Follow(query, m) \subseteq visited
  BY <1>4 DEF NothingMissed
<1>6. Found(query) \subseteq visited
  BY <1>1, <1>2, <1>5, FoundLeast
<1>7. visited \subseteq Found(query)
  BY <1>4 DEF NothingElse
<1> QED  BY <1>1, <1>2, <1>3, <1>4, <1>6, <1>7

\* Whatever the manifests require, in cycles or not, and in whatever order they
\* list it: the resolver finds what has to go on or off, all of it and nothing
\* else, and lists it once; the sort lists all that is required.
THEOREM SearchesFindClosure == SearchSpec => []SearchFindsClosure
<1>1. SearchInv => SearchFindsClosure
  <2> SUFFICES ASSUME SearchInv, phase = "done"
               PROVE  ToSet(result) = Wanted(query) /\ IsInjective(result)
    BY DEF SearchFindsClosure
  <2>1. ListShape
    BY DEF SearchInv
  <2> QED  BY <2>1, AtTheEnd DEF ListShape, Wanted
<1> QED  BY <1>1, SearchInvariant, PTL

\* A graph whose nodes can be listed, each after what it requires, has no cycle.
LEMMA OrderedIsAcyclic ==
    ASSUME NEW g \in [Node -> SUBSET Node], NEW s \in Seq(Node), IsInjective(s),
           RequirementsFirst(g, s), \A m \in ToSet(s) : g[m] \subseteq ToSet(s),
           \A m \in Node \ ToSet(s) : g[m] = {}
    PROVE  ~Cyclic(g)
<1> SUFFICES ASSUME NEW n \in Node, NEW m \in g[n], n \in Reach(m, g)
             PROVE  FALSE
  BY DEF Cyclic
<1>1. Len(s) \in Nat /\ DOMAIN s = 1..Len(s) /\ \A k \in 1..Len(s) : s[k] \in Node
  BY LenProperties, ElementOfSeq
<1>2. PICK p \in 1..Len(s) : n = s[p]
  BY <1>1 DEF ToSet
<1>3. PICK r \in 1..Len(s) : m = s[r]
  BY <1>1, <1>2 DEF ToSet
<1>4. r < p
  BY <1>1, <1>2, <1>3 DEF RequirementsFirst
<1> DEFINE S == {s[k] : k \in 1..(p - 1)}
<1>5. S \in SUBSET Node /\ m \in S
  BY <1>1, <1>2, <1>3, <1>4
<1>6. ClosedUnder(S, g)
  <2> SUFFICES ASSUME NEW k \in 1..(p - 1), NEW d \in g[s[k]]
               PROVE  d \in S
    BY DEF ClosedUnder
  <2>1. k \in 1..Len(s) /\ k \in DOMAIN s
    BY <1>1
  <2>2. d \in ToSet(s)
    BY <2>1 DEF ToSet
  <2>3. PICK l \in 1..Len(s) : d = s[l]
    BY <1>1, <2>2 DEF ToSet
  <2>4. l < k
    BY <1>1, <2>1, <2>3 DEF RequirementsFirst
  <2>5. l \in 1..(p - 1)
    BY <1>1, <2>4
  <2> QED  BY <2>3, <2>5
<1> HIDE DEF S
<1>7. n \in S
  BY <1>5, <1>6, ReachLeast
<1>8. PICK k \in 1..(p - 1) : n = s[k]
  BY <1>7 DEF S
<1>9. k \in DOMAIN s /\ p \in DOMAIN s /\ k # p
  BY <1>1
<1> QED  BY <1>2, <1>8, <1>9 DEF IsInjective

\* topological_sort refuses the cyclic graphs and no other; without a cycle its
\* list and the list to enable have a module after those it requires.
THEOREM SortsOrderOrRefuse == SearchSpec => []SortOrdersOrRefuses
<1>1. SearchInv => SortOrdersOrRefuses
  <2> SUFFICES ASSUME SearchInv PROVE SortOrdersOrRefuses
    OBVIOUS
  <2> USE DEF SearchInv
  <2>1. phase = "cycle" => Cyclic(query.graph)
    BY DEF CycleIsCycle
  <2>2. phase = "done" /\ Straight => RequirementsFirst(query.graph, result)
    BY DEF Order
  <2>3. ASSUME phase = "done", query.kind = "sort"
        PROVE  ~Cyclic(query.graph)
    <3>1. /\ query.graph \in [Node -> SUBSET Node]
          /\ result \in Seq(Node) /\ IsInjective(result)
          /\ RequirementsFirst(query.graph, result)
      BY <2>2, <2>3 DEF Straight, SearchTypes, ListShape, Queries
    <3>2. /\ ToSet(result) = visited /\ Finished = visited
          /\ query.roots \subseteq visited
      BY <2>3, AtTheEnd DEF ListShape
    <3>3. \A m \in Node \ ToSet(result) : query.graph[m] = {}
      BY <2>3, <3>2 DEF Progress
    <3>4. \A m \in ToSet(result) : query.graph[m] \subseteq ToSet(result)
      BY <2>3, <3>2 DEF Order, Straight, Follow
    <3> QED  BY <3>1, <3>3, <3>4, OrderedIsAcyclic
  <2> QED  BY <2>1, <2>2, <2>3 DEF SortOrdersOrRefuses, Straight
<1> QED  BY <1>1, SearchInvariant, PTL

\* Neither list leaves anything on without what it requires, whatever is on and
\* whatever the target; Modules relies on it when it applies a change.
THEOREM ListsKeepComplete == SearchSpec => []ListKeepsComplete
<1>1. SearchInv => ListKeepsComplete
  <2> SUFFICES ASSUME SearchInv, phase = "done",
                      \A m \in query.on : query.graph[m] \cap query.known \subseteq query.on
               PROVE  /\ query.kind = "enable" =>
                          \A m \in query.on \cup ToSet(result) :
                            query.graph[m] \cap query.known
                                \subseteq query.on \cup ToSet(result)
                      /\ query.kind = "disable" =>
                          \A m \in query.on \ ToSet(result) :
                            query.graph[m] \cap query.known
                                \subseteq query.on \ ToSet(result)
    BY DEF ListKeepsComplete
  <2>1. /\ query \in Queries /\ query.on \subseteq Node
        /\ query.graph \in [Node -> SUBSET Node]
        /\ ListShape /\ NothingMissed
        /\ Finished = visited /\ Entered = visited /\ visited \subseteq Node
    BY AtTheEnd DEF Queries, SearchInv, SearchTypes
  <2>2. \A m \in visited : Follow(query, m) \subseteq visited
    BY <2>1 DEF NothingMissed
  <2>3. CASE query.kind = "enable"
    <3>1. ToSet(result) = (visited \cap query.known) \ query.on
      BY <2>1, <2>3 DEF ListShape
    <3>2. \A m \in visited : query.graph[m] \ query.on \subseteq visited
      BY <2>2, <2>3 DEF Follow
    <3> QED  BY <2>3, <3>1, <3>2
  <2>4. CASE query.kind = "disable"
    <3>1. ToSet(result) = visited \cap query.on
      BY <2>1, <2>4 DEF ListShape
    <3>2. \A m \in visited, d \in query.on : m \in query.graph[d] => d \in visited
      BY <2>2, <2>4 DEF Follow
    <3> QED  BY <2>1, <2>4, <3>1, <3>2
  <2> QED  BY <2>3, <2>4
<1> QED  BY <1>1, SearchInvariant, PTL

\* For the manifests of Modules the search finds the set that Modules takes for
\* what a change enables, or disables.
FindsProposal ==
    phase = "done" /\ query.known = Module =>
        \A t \in Module, p \in BOOLEAN :
            query.roots = {t} =>
                /\ query.kind = "enable" /\ query.graph = [m \in Module |-> Needs(m, p)]
                    => ToSet(result) = Needed(t, query.on, p)
                /\ query.kind = "disable" /\ query.graph = Requires
                    => ToSet(result) = Dependents(t, query.on)

\* The closures in Modules are what the recursive searches compute.
THEOREM SearchesFindProposal ==
    ASSUME ModAssumption, Node = Module
    PROVE  SearchSpec => []FindsProposal
<1>1. SearchInv => FindsProposal
  <2> SUFFICES ASSUME SearchInv, phase = "done", query.known = Module,
                      NEW t \in Module, NEW p \in BOOLEAN, query.roots = {t}
               PROVE  /\ query.kind = "enable"
                          /\ query.graph = [m \in Module |-> Needs(m, p)]
                          => ToSet(result) = Needed(t, query.on, p)
                      /\ query.kind = "disable" /\ query.graph = Requires
                          => ToSet(result) = Dependents(t, query.on)
    BY DEF FindsProposal
  <2>1. /\ query \in Queries /\ ListShape /\ Finished = visited
        /\ visited = Found(query)
    BY AtTheEnd DEF SearchInv
  <2>2. Found(query) = Reach(t, [m \in Module |-> Follow(query, m)])
    BY DEF Found
  <2>3. Found(query) \subseteq Module
    BY <2>1, FoundClosed
  <2>4. ASSUME query.kind = "enable", query.graph = [m \in Module |-> Needs(m, p)]
        PROVE  ToSet(result) = Needed(t, query.on, p)
    <3>1. [m \in Module |-> Follow(query, m)]
            = [m \in Module |-> Needs(m, p) \ query.on]
      BY <2>4 DEF Follow
    <3>2. Found(query) = Visited(t, query.on, p)
      BY <2>2, <3>1 DEF Visited
    <3> QED  BY <2>1, <2>3, <2>4, <3>2 DEF ListShape, Needed
  <2>5. ASSUME query.kind = "disable", query.graph = Requires
        PROVE  ToSet(result) = Dependents(t, query.on)
    <3>1. [m \in Module |-> Follow(query, m)]
            = [m \in Module |-> {d \in query.on : m \in Requires[d]}]
      BY <2>5 DEF Follow
    <3> QED  BY <2>1, <2>2, <2>5, <3>1 DEF ListShape, Dependents
  <2> QED  BY <2>4, <2>5
<1> QED  BY <1>1, SearchInvariant, PTL

-----------------------------------------------------------------------------
\* The end of the search.

\* The call at a level of the stack has less before it, and all else is as it was.
Shorter(i) ==
    /\ Len(stack') = Len(stack)
    /\ stack'[i].todo \subseteq stack[i].todo /\ stack'[i].todo # stack[i].todo

\* A search does not go round in a cycle: a step ends it, makes a call that was
\* not made before, returns from a call, or crosses out a module of a list.
SearchAdvances ==
    [][phase = "searching" =>
        \/ phase' \in {"done", "cycle"}
        \/ Entered \subseteq Entered' /\ Entered' # Entered
        \/ Entered' = Entered /\ Len(stack') < Len(stack)
        \/ Entered' = Entered /\ Shorter(Len(stack))]_searchVars

\* Of finitely many modules that makes finitely many steps: no recursion of the
\* resolver is endless, whatever cycles the manifests have.
THEOREM SearchesAdvance == SearchSpec => SearchAdvances
<1>1. SearchInv /\ [SearchNext]_searchVars =>
        [phase = "searching" =>
            \/ phase' \in {"done", "cycle"}
            \/ Entered \subseteq Entered' /\ Entered' # Entered
            \/ Entered' = Entered /\ Len(stack') < Len(stack)
            \/ Entered' = Entered /\ Shorter(Len(stack))]_searchVars
  <2> SUFFICES ASSUME SearchInv, SearchNext, phase = "searching",
                      phase' \notin {"done", "cycle"}
               PROVE  \/ Entered \subseteq Entered' /\ Entered' # Entered
                      \/ Entered' = Entered /\ Len(stack') < Len(stack)
                      \/ Entered' = Entered /\ Shorter(Len(stack))
    OBVIOUS
  <2>1. SearchTypes /\ StackShape
    BY DEF SearchInv
  <2>2. ASSUME NEW n \in Node, StartAt(n) \/ Descend(n)
        PROVE  Entered \subseteq Entered' /\ Entered' # Entered
    <3>1. Entering(n)
      BY <2>1, <2>2, BeginEnters, DescendEnters
    <3> QED  BY <3>1, EnteringSets DEF Entering
  <2>3. ASSUME NEW n \in Node, Skip(n)
        PROVE  Entered' = Entered /\ Shorter(Len(stack))
    <3>1. Skipping(n)
      BY <2>1, <2>3, SkipSkips
    <3>2. Len(stack) \in 1..Len(stack)
      BY <2>1, <3>1, TopOfStack DEF Skipping
    <3>3. stack'[Len(stack)].todo = stack[Len(stack)].todo \ {n}
      BY <3>1, <3>2 DEF Skipping
    <3>4. n \in stack[Len(stack)].todo /\ Len(stack') = Len(stack)
      BY <3>1 DEF Skipping, Innermost
    <3>5. Shorter(Len(stack))
      BY <3>3, <3>4 DEF Shorter
    <3> QED  BY <3>1, <3>5 DEF Skipping, Entered
  <2>4. CASE Return
    <3>1. Leaving(Innermost.node)
      BY <2>1, <2>4, ReturnLeaves
    <3>2. Len(stack) \in Nat \ {0} /\ Innermost.node \in OnStack
      BY <2>1, <3>1, TopOfStack DEF Leaving
    <3> QED  BY <3>1, <3>2 DEF Leaving, Entered
  <2>5. ~Call /\ ~Answer /\ \A n \in Node : ~Raise(n)
    BY DEF Call, Answer, Raise
  <2> QED  BY <2>2, <2>3, <2>4, <2>5 DEF SearchNext
<1> QED  BY <1>1, SearchInvariant, PTL DEF SearchSpec, SearchAdvances

=============================================================================
