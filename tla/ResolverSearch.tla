--------------------------- MODULE ResolverSearch ---------------------------
(***************************************************************************)
(* The depth-first searches of fleet/dep_resolver.py as they run, one step *)
(* of a call after the other: _resolve_enable, _resolve_disable and        *)
(* topological_sort, over manifests that may require anything, also in     *)
(* cycles, also modules nobody has a manifest of.  The stack is that of    *)
(* the recursive calls.  The lists of requirements are sets here, and the  *)
(* search takes their members in any order.                                *)
(***************************************************************************)
EXTENDS Modules, SequencesExt

CONSTANTS
    Node,       \* modules that are known or required
    NoQuery     \* nothing is resolved

VARIABLES
    query,      \* what is searched, and how
    phase,      \* where the search is; cycle is CycleError
    stack,      \* recursive calls: a module, and what it has not looked at
    visited,
    result      \* cs.enable, cs.disable, or the sorted list

searchVars == <<query, phase, stack, visited, result>>

Searches == {"enable", "disable", "sort"}

\* graph[n] is what n requires; known are the modules with a manifest; on those
\* that are enabled; roots the modules the search is started with.
Queries == [kind : Searches, graph : [Node -> SUBSET Node], known : SUBSET Node,
            on : SUBSET Node, roots : SUBSET Node]

\* Nobody knows what a module without a manifest requires.
Graphs(known) == {g \in [Node -> SUBSET Node] : \A n \in Node \ known : g[n] = {}}

Phases == {"none", "searching", "done", "cycle"}

\* Mutant: disabling follows the requirements, not the dependents.
FollowEdges(q, n) == IF q.kind = "sort" THEN q.graph[n] ELSE q.graph[n] \ q.on

\* Where the search goes on from n.
Follow(q, n) ==
    IF q.kind = "disable" THEN {d \in q.on : n \in q.graph[d]}
    ELSE IF q.kind = "enable" THEN q.graph[n] \ q.on
    ELSE q.graph[n]

SearchInit ==
    /\ query = NoQuery
    /\ phase = "none"
    /\ stack = <<>>
    /\ visited = {}
    /\ result = <<>>

-----------------------------------------------------------------------------
\* A call of resolve, or of topological_sort.
Call ==
    /\ phase = "none"
    /\ phase' = "searching"
    /\ \E known \in SUBSET Node : \E graph \in Graphs(known) :
        \/ \E on \in SUBSET Node, t \in Node, kind \in {"enable", "disable"} :
            query' = [kind |-> kind, graph |-> graph, known |-> known,
                      on |-> on, roots |-> {t}]
        \/ query' = [kind |-> "sort", graph |-> graph, known |-> known,
                     on |-> {}, roots |-> known]
    /\ UNCHANGED <<stack, visited, result>>

\* Mutant: the call comes back at once from a module that is on.
EnterTurnsBack(n, calls) ==
    /\ stack' = Append(calls, [node |-> n, todo |->
                    IF n \in query.on THEN {} ELSE Follow(query, n)])
    /\ visited' = IF query.kind = "sort" THEN visited ELSE visited \cup {n}
    /\ result' = IF query.kind = "disable" /\ n \in query.on \ ToSet(result)
                 THEN Append(result, n) ELSE result
    /\ UNCHANGED <<query, phase>>

\* The recursive call for n, made by the innermost of calls.
Enter(n, calls) ==
    /\ stack' = Append(calls, [node |-> n, todo |-> Follow(query, n)])
    /\ visited' = IF query.kind = "sort" THEN visited ELSE visited \cup {n}
    /\ result' = IF query.kind = "disable" /\ n \in query.on \ ToSet(result)
                 THEN Append(result, n) ELSE result
    /\ UNCHANGED <<query, phase>>

\* The outermost call; topological_sort makes one for each node it has not
\* visited.
StartAt(n) ==
    /\ phase = "searching"
    /\ stack = <<>>
    /\ n \in query.roots \ visited
    /\ Enter(n, stack)

Innermost == stack[Len(stack)]
OnStack == {stack[i].node : i \in DOMAIN stack}

\* The innermost call comes to d in its list.
Looks(d) ==
    /\ phase = "searching"
    /\ stack # <<>>
    /\ d \in Innermost.todo

LookedAt(d) == [stack EXCEPT ![Len(stack)].todo = @ \ {d}]

\* Mutant: in_stack keeps the nodes whose calls have returned.
RaiseAgain(d) ==
    /\ Looks(d)
    /\ query.kind = "sort" /\ d \in OnStack \cup visited
    /\ phase' = "cycle"
    /\ UNCHANGED <<query, stack, visited, result>>

\* raise CycleError
Raise(d) ==
    /\ Looks(d)
    /\ query.kind = "sort" /\ d \in OnStack
    /\ phase' = "cycle"
    /\ UNCHANGED <<query, stack, visited, result>>

\* if target in visited: return
Skip(d) ==
    /\ Looks(d)
    /\ query.kind = "sort" => d \notin OnStack
    /\ d \in visited
    /\ stack' = LookedAt(d)
    /\ UNCHANGED <<query, phase, visited, result>>

Descend(d) ==
    /\ Looks(d)
    /\ query.kind = "sort" => d \notin OnStack
    /\ d \notin visited
    /\ Enter(d, LookedAt(d))

\* Whether the innermost call adds its module to the list when it returns.
Listed(n) ==
    \/ query.kind = "enable" /\ n \in query.known \ (query.on \cup ToSet(result))
    \/ query.kind = "sort"

Return ==
    /\ phase = "searching"
    /\ stack # <<>>
    /\ Innermost.todo = {}
    /\ stack' = Front(stack)
    /\ visited' = visited \cup {Innermost.node}
    /\ result' = IF Listed(Innermost.node) THEN Append(result, Innermost.node)
                                           ELSE result
    /\ UNCHANGED <<query, phase>>

Answer ==
    /\ phase = "searching"
    /\ stack = <<>>
    /\ query.roots \subseteq visited
    /\ phase' = "done"
    /\ UNCHANGED <<query, stack, visited, result>>

SearchNext ==
    \/ Call \/ Return \/ Answer
    \/ \E n \in Node : StartAt(n) \/ Raise(n) \/ Skip(n) \/ Descend(n)

SearchSpec == SearchInit /\ [][SearchNext]_searchVars

-----------------------------------------------------------------------------
\* What there is to find.
Found(q) == UNION {Reach(r, [n \in Node |-> Follow(q, n)]) : r \in q.roots}

\* What of it belongs into the list.
Wanted(q) ==
    IF q.kind = "disable" THEN Found(q) \cap q.on
    ELSE IF q.kind = "enable" THEN (Found(q) \cap q.known) \ q.on
    ELSE Found(q)

Cyclic(g) == \E n \in Node : \E m \in g[n] : n \in Reach(m, g)

\* Nobody stands before a requirement of its own.
RequirementsFirst(g, s) ==
    \A i \in DOMAIN s, j \in DOMAIN s : s[j] \in g[s[i]] => j < i

\* Whatever the manifests require, in cycles or not, and whatever is on: the
\* resolver lists, once, what is off and reachable through modules that are off,
\* or what is on and depends on the target; the sort lists what is required.
SearchFindsClosure ==
    phase = "done" => ToSet(result) = Wanted(query) /\ IsInjective(result)

\* topological_sort refuses the cyclic graphs and no other; and without a cycle
\* neither it nor the list to enable has a module before one it requires.
SortOrdersOrRefuses ==
    /\ phase = "cycle" => Cyclic(query.graph)
    /\ phase = "done" /\ query.kind = "sort" => ~Cyclic(query.graph)
    /\ phase = "done" /\ query.kind \in {"enable", "sort"} /\ ~Cyclic(query.graph)
        => RequirementsFirst(query.graph, result)

\* In a configuration where everything that is on has what it requires, as far
\* as there are manifests of it, this stays so when what the search has listed
\* is switched on together, or off.
ListKeepsComplete ==
    phase = "done" =>
        LET complete(S) == \A m \in S : query.graph[m] \cap query.known \subseteq S
        IN  complete(query.on) =>
                /\ query.kind = "enable" => complete(query.on \cup ToSet(result))
                /\ query.kind = "disable" => complete(query.on \ ToSet(result))
=============================================================================
