------------------------- MODULE CircularDependency -------------------------
(***************************************************************************)
(* validateCircularDependency of ggufpackerfile2llb/convert.go: a depth-   *)
(* first search over the dispatch states, in the order of the slice, that  *)
(* stops at the first dependency found on the path being searched.  Go     *)
(* ranges over the `deps` map in an arbitrary order, so a frame picks any  *)
(* dependency that it has not ranged over yet.                             *)
(***************************************************************************)
EXTENDS Naturals, Sequences

CONSTANTS
    Node,        \* dispatch states, the "context" pseudo stages included
    Registered   \* allDispatchStates.states: the slice of registered states

ASSUME RegisteredAssumption == Registered \in Seq(Node)

VARIABLES
    deps,     \* deps[s]: keys of the map s.deps
    next,     \* the range over the slice: index of the state to visit next
    visited,  \* states whose visit was entered
    paths,    \* states on the path being searched
    stack,    \* frames of the recursive closure `visit`, innermost last
    verdict   \* "running", "circular" or "ok"

vars == <<deps, next, visited, paths, stack, verdict>>

\* Every source is a registered state or a "context" pseudo stage, and a
\* pseudo stage has no commands: only registered states have dependencies.
RegisteredNodes == {Registered[k] : k \in 1..Len(Registered)}
Graphs == {d \in [Node -> SUBSET Node] : \A s \in Node \ RegisteredNodes : d[s] = {}}

Abstract == INSTANCE CycleCheck
HasCycle(d) == Abstract!HasCycle(d)

Frame == [node : Node, todo : SUBSET Node]

Top == stack[Len(stack)]
Enter(s) == [node |-> s, todo |-> deps[s]]
Pop(st) == SubSeq(st, 1, Len(st) - 1)

\* The innermost frame has ranged over dep: it will not see that key again.
Ranged(dep) == [stack EXCEPT ![Len(stack)].todo = @ \ {dep}]

-----------------------------------------------------------------------------

Init ==
    /\ deps \in Graphs
    /\ next = 1
    /\ visited = {}
    /\ paths = {}
    /\ stack = <<>>
    /\ verdict = "running"

\* The outer loop calls visit on the next registered state, which returns at
\* once when the state was visited below an earlier one.
VisitRegistered ==
    /\ verdict = "running"
    /\ stack = <<>>
    /\ next <= Len(Registered)
    /\ next' = next + 1
    /\ LET s == Registered[next] IN
         IF s \in visited
         THEN UNCHANGED <<visited, paths, stack>>
         ELSE /\ visited' = visited \cup {s}
              /\ paths' = paths \cup {s}
              /\ stack' = <<Enter(s)>>
    /\ UNCHANGED <<deps, verdict>>

\* Wrong variants of the three definitions that follow them, for the checks: a
\* cycle closed by any visited state, a visit that is not remembered, and a
\* state that stays on the path.
FindVisited ==
    /\ verdict = "running"
    /\ stack # <<>>
    /\ \E dep \in Top.todo : dep \in visited
    /\ verdict' = "circular"
    /\ UNCHANGED <<deps, next, visited, paths, stack>>

\* A dependency that is on the path closes a cycle: all frames return.
FindCycle ==
    /\ verdict = "running"
    /\ stack # <<>>
    /\ \E dep \in Top.todo : dep \in paths
    /\ verdict' = "circular"
    /\ UNCHANGED <<deps, next, visited, paths, stack>>

\* visit(dep) returns nil at once: dep was searched before.
SkipVisited ==
    /\ verdict = "running"
    /\ stack # <<>>
    /\ \E dep \in Top.todo :
         /\ dep \in visited \ paths
         /\ stack' = Ranged(dep)
    /\ UNCHANGED <<deps, next, visited, paths, verdict>>

DescendAgain ==
    /\ verdict = "running"
    /\ stack # <<>>
    /\ \E dep \in Top.todo : stack' = <<Enter(dep)>>
    /\ UNCHANGED <<deps, next, visited, paths, verdict>>

\* visit(dep) enters a state for the first time.
Descend ==
    /\ verdict = "running"
    /\ stack # <<>>
    /\ \E dep \in Top.todo :
         /\ dep \notin visited \cup paths
         /\ visited' = visited \cup {dep}
         /\ paths' = paths \cup {dep}
         /\ stack' = Append(Ranged(dep), Enter(dep))
    /\ UNCHANGED <<deps, next, verdict>>

LeaveMarked ==
    /\ verdict = "running"
    /\ stack # <<>>
    /\ Top.todo = {}
    /\ stack' = Pop(stack)
    /\ UNCHANGED <<deps, next, visited, paths, verdict>>

\* The range is over: the state leaves the path and its frame returns nil.
Leave ==
    /\ verdict = "running"
    /\ stack # <<>>
    /\ Top.todo = {}
    /\ paths' = paths \ {Top.node}
    /\ stack' = Pop(stack)
    /\ UNCHANGED <<deps, next, visited, verdict>>

Accept ==
    /\ verdict = "running"
    /\ stack = <<>>
    /\ next > Len(Registered)
    /\ verdict' = "ok"
    /\ UNCHANGED <<deps, next, visited, paths, stack>>

Next == VisitRegistered \/ FindCycle \/ SkipVisited \/ Descend \/ Leave \/ Accept

Spec == Init /\ [][Next]_vars

\* The search is one goroutine that nothing blocks.
FairSpec == Spec /\ WF_vars(Next)

-----------------------------------------------------------------------------

TypeOK ==
    /\ deps \in Graphs
    /\ next \in Nat \ {0}
    /\ visited \in SUBSET Node
    /\ paths \in SUBSET Node
    /\ stack \in Seq(Frame)
    /\ verdict \in {"running", "circular", "ok"}

\* The frames are a path of the graph, and `paths` holds exactly their states.
StackIsPath ==
    /\ paths = {stack[i].node : i \in 1..Len(stack)}
    /\ paths \subseteq visited
    /\ \A i, j \in 1..Len(stack) : stack[i].node = stack[j].node => i = j
    /\ \A i \in 1..Len(stack) : stack[i].todo \subseteq deps[stack[i].node]
    /\ \A i \in 1..Len(stack) : i < Len(stack) => stack[i + 1].node \in deps[stack[i].node]

\* What a frame has ranged over was searched, and is off the path unless it is
\* the call that the frame waits for.
RangedIsSearched ==
    \A i \in 1..Len(stack) : \A d \in deps[stack[i].node] \ stack[i].todo :
        \/ d \in visited \ paths
        \/ i < Len(stack) /\ d = stack[i + 1].node

Searched == visited \ paths

\* What was searched depends only on what was searched, and holds no cycle.
SearchedIsSafe ==
    /\ \A s \in Searched : deps[s] \subseteq Searched
    /\ \A S \in SUBSET Searched : ~Abstract!Endless(S, deps)

LoopVisits == \A k \in 1..Len(Registered) : k < next => Registered[k] \in visited

IInv ==
    /\ TypeOK
    /\ StackIsPath
    /\ RangedIsSearched
    /\ SearchedIsSafe
    /\ LoopVisits
    /\ verdict = "circular" => HasCycle(deps)
    /\ verdict = "ok" => stack = <<>> /\ next > Len(Registered)

-----------------------------------------------------------------------------

\* A conversion is refused as circular exactly when some chain of --from
\* sources comes back to a stage that it went through, in any part of the
\* graph, whatever the iteration order of the maps: the search of
\* validateCircularDependency implements the one-step check of CycleCheck.
ImplementsCycleCheck == Abstract!Spec

\* The search ends whatever the graph: visit never recurses for ever.
Terminates == <>(verdict # "running")
=============================================================================
