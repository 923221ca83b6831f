-------------------------- MODULE ResolutionProofs --------------------------
(***************************************************************************)
(* What toDispatchState asks of others while it makes its states.          *)
(*                                                                         *)
(* Of validateCircularDependency whether they are in order: for every      *)
(* number of stages and every dependency graph, the depth-first search     *)
(* gives the verdict of CycleCheck.  Of the client what a name stands for: *)
(* for any number of callers, options and policies, whoever reads and      *)
(* rewrites them in whatever order, each caller gets the end of the        *)
(* policies of its own option, and the files that its recipe reads.        *)
(***************************************************************************)
EXTENDS CircularDependency, NamedContext, SequenceTheorems, FiniteSetTheorems, WellFoundedInduction, TLAPS

\* A closed walk of the stack is an endless set: the states from the one that
\* the closing dependency leads to up to the innermost one.
LEMMA ClosingEdgeIsCycle ==
    ASSUME TypeOK, StackIsPath, stack # <<>>,
           NEW dep \in Top.todo, dep \in paths
    PROVE  HasCycle(deps)
<1>1. /\ Len(stack) \in Nat /\ Len(stack) >= 1
      /\ \A i \in 1..Len(stack) : stack[i] \in Frame
  BY DEF TypeOK
<1>2. PICK i \in 1..Len(stack) : stack[i].node = dep
  BY DEF StackIsPath
<1> DEFINE S == {stack[k].node : k \in i..Len(stack)}
<1>3. S \in SUBSET Node
  BY <1>1 DEF Frame
<1>4. stack[i].node \in S
  BY <1>1
<1>5. ASSUME NEW k \in i..Len(stack)
      PROVE  deps[stack[k].node] \cap S # {}
  <2>1. CASE k < Len(stack)
    <3>1. stack[k + 1].node \in deps[stack[k].node]
      BY <1>1, <2>1 DEF StackIsPath
    <3>2. stack[k + 1].node \in S
      BY <1>1, <2>1
    <3> QED BY <3>1, <3>2
  <2>2. CASE k = Len(stack)
    <3>1. dep \in deps[stack[k].node]
      BY <1>1, <2>2 DEF StackIsPath, Top
    <3>2. dep \in S
      BY <1>1, <1>2
    <3> QED BY <3>1, <3>2
  <2> QED BY <1>1, <2>1, <2>2
<1>6. \A x \in S : deps[x] \cap S # {}
  BY <1>5
<1>7. Abstract!Endless(S, deps)
  BY <1>4, <1>6 DEF Abstract!Endless
<1> HIDE DEF S
<1> QED
  BY <1>3, <1>7 DEF HasCycle, Abstract!HasCycle

\* Adding a state whose dependencies were all searched adds no cycle.
LEMMA SafeExtension ==
    ASSUME NEW s, NEW B, s \notin B, NEW d,
           \A b \in B : d[b] \subseteq B,
           \A S \in SUBSET B : ~Abstract!Endless(S, d),
           d[s] \subseteq B
    PROVE  \A S \in SUBSET (B \cup {s}) : ~Abstract!Endless(S, d)
<1> SUFFICES ASSUME NEW S \in SUBSET (B \cup {s}), Abstract!Endless(S, d)
             PROVE  FALSE
  OBVIOUS
<1>1. \A x \in S : d[x] \cap S # {}
  BY DEF Abstract!Endless
<1>2. S \ {s} \in SUBSET B
  OBVIOUS
<1>3. \A x \in S \ {s} : d[x] \cap (S \ {s}) # {}
  BY <1>1, <1>2
<1>4. CASE S \ {s} # {}
  BY <1>2, <1>3, <1>4 DEF Abstract!Endless
<1>5. CASE S \ {s} = {}
  <2>1. S = {s}
    BY <1>5 DEF Abstract!Endless
  <2> QED BY <1>1, <2>1
<1> QED BY <1>4, <1>5

LEMMA InitInvariant == Init => IInv
<1> SUFFICES ASSUME Init PROVE IInv
  OBVIOUS
<1>1. TypeOK
  BY DEF Init, TypeOK, Frame
<1>2. StackIsPath /\ RangedIsSearched /\ LoopVisits
  BY RegisteredAssumption DEF Init, StackIsPath, RangedIsSearched, LoopVisits
<1>3. SearchedIsSafe
  <2>1. Searched = {}
    BY DEF Init, Searched
  <2> QED BY <2>1 DEF SearchedIsSafe, Abstract!Endless
<1> QED BY <1>1, <1>2, <1>3 DEF Init, IInv

LEMMA VisitRegisteredInvariant == IInv /\ VisitRegistered => IInv'
<1> SUFFICES ASSUME IInv, VisitRegistered PROVE IInv'
  OBVIOUS
<1> USE RegisteredAssumption
<1> DEFINE s == Registered[next]
<1>1. s \in Node /\ next \in 1..Len(Registered)
  BY DEF IInv, TypeOK, VisitRegistered
<1>2. deps \in [Node -> SUBSET Node]
  BY DEF IInv, TypeOK, Graphs
<1>3. CASE s \in visited
  <2>1. UNCHANGED <<deps, visited, paths, stack, verdict>> /\ next' = next + 1
    BY <1>3 DEF VisitRegistered
  <2>2. TypeOK' /\ StackIsPath' /\ RangedIsSearched' /\ SearchedIsSafe'
    BY <2>1 DEF IInv, TypeOK, StackIsPath, RangedIsSearched, SearchedIsSafe, Searched
  <2>3. LoopVisits'
    BY <1>1, <1>3, <2>1 DEF IInv, TypeOK, LoopVisits
  <2> QED BY <2>1, <2>2, <2>3 DEF IInv, VisitRegistered
<1>4. CASE s \notin visited
  <2>1. /\ UNCHANGED <<deps, verdict>> /\ next' = next + 1
        /\ visited' = visited \cup {s} /\ paths' = paths \cup {s}
        /\ stack' = <<Enter(s)>> /\ stack = <<>>
    BY <1>4 DEF VisitRegistered
  <2>2. paths = {}
    BY <2>1 DEF IInv, StackIsPath
  <2>3. Enter(s) \in Frame /\ Enter(s).node = s /\ Enter(s).todo = deps[s]
    BY <1>1, <1>2 DEF Enter, Frame
  <2>4. Len(stack') = 1 /\ stack'[1] = Enter(s)
    BY <2>1
  <2>5. TypeOK'
    BY <1>1, <2>1, <2>3 DEF IInv, TypeOK
  <2>6. StackIsPath'
    BY <2>1, <2>2, <2>3, <2>4 DEF StackIsPath
  <2>7. RangedIsSearched'
    BY <2>1, <2>3, <2>4 DEF RangedIsSearched
  <2>8. Searched' = Searched
    BY <1>4, <2>1, <2>2 DEF Searched
  <2>9. SearchedIsSafe'
    BY <2>1, <2>8 DEF IInv, SearchedIsSafe
  <2>10. LoopVisits'
    BY <1>1, <2>1 DEF IInv, TypeOK, LoopVisits
  <2> QED BY <2>1, <2>5, <2>6, <2>7, <2>9, <2>10 DEF IInv, VisitRegistered
<1> QED BY <1>3, <1>4

LEMMA FindCycleInvariant == IInv /\ FindCycle => IInv'
<1> SUFFICES ASSUME IInv, FindCycle PROVE IInv'
  OBVIOUS
<1>1. UNCHANGED <<deps, next, visited, paths, stack>> /\ verdict' = "circular"
  BY DEF FindCycle
<1>2. HasCycle(deps)
  BY ClosingEdgeIsCycle DEF FindCycle, IInv
<1>3. TypeOK' /\ StackIsPath' /\ RangedIsSearched' /\ SearchedIsSafe' /\ LoopVisits'
  BY <1>1 DEF IInv, TypeOK, StackIsPath, RangedIsSearched, SearchedIsSafe, Searched, LoopVisits
<1>4. HasCycle(deps)'
  BY <1>1, <1>2
<1> QED BY <1>1, <1>3, <1>4 DEF IInv

LEMMA SkipVisitedInvariant == IInv /\ SkipVisited => IInv'
<1> SUFFICES ASSUME IInv, SkipVisited PROVE IInv'
  OBVIOUS
<1> DEFINE n == Len(stack)
<1>1. PICK dep \in Top.todo : dep \in visited \ paths /\ stack' = Ranged(dep)
  BY DEF SkipVisited
<1>2. UNCHANGED <<deps, next, visited, paths, verdict>> /\ stack # <<>>
  BY DEF SkipVisited
<1>3. /\ n \in Nat /\ n >= 1 /\ stack \in Seq(Frame)
      /\ \A i \in 1..n : stack[i] \in Frame
  BY <1>2 DEF IInv, TypeOK
<1>4. /\ Len(stack') = n
      /\ \A i \in 1..n : stack'[i].node = stack[i].node
      /\ \A i \in 1..n : i # n => stack'[i] = stack[i]
      /\ stack'[n].todo = stack[n].todo \ {dep}
      /\ stack' \in Seq(Frame)
  BY <1>1, <1>3 DEF Ranged, Frame
<1>5. TypeOK'
  BY <1>2, <1>4 DEF IInv, TypeOK
<1>6. StackIsPath'
  <2>1. StackIsPath
    BY DEF IInv
  <2>2. \A i \in 1..n : stack'[i].node = stack[i].node /\ stack'[i].todo \subseteq stack[i].todo
    BY <1>3, <1>4
  <2>3. \A i \in 1..n : i < n => i + 1 \in 1..n
    BY <1>3
  <2>4. \A i \in 1..n : i < n => stack'[i + 1].node \in deps[stack'[i].node]
    BY <2>1, <2>2, <2>3 DEF StackIsPath
  <2>5. \A i \in 1..n : stack'[i].todo \subseteq deps[stack'[i].node]
    BY <2>1, <2>2 DEF StackIsPath
  <2>6. {stack'[i].node : i \in 1..n} = {stack[i].node : i \in 1..n}
    BY <2>2
  <2>7. Len(stack') = n
    BY <1>4
  <2> QED BY <1>2, <2>1, <2>2, <2>4, <2>5, <2>6, <2>7 DEF StackIsPath
<1>7. RangedIsSearched'
  <2> SUFFICES ASSUME NEW i \in 1..n, NEW d \in deps[stack[i].node] \ stack'[i].todo
               PROVE  d \in visited \ paths \/ (i < n /\ d = stack[i + 1].node)
    BY <1>2, <1>3, <1>4 DEF RangedIsSearched
  <2>1. CASE d = dep
    BY <1>1, <2>1
  <2>2. CASE d # dep
    <3>1. d \notin stack[i].todo
      BY <1>4, <2>2
    <3> QED BY <3>1 DEF IInv, RangedIsSearched
  <2> QED BY <2>1, <2>2
<1>8. SearchedIsSafe' /\ LoopVisits'
  BY <1>2 DEF IInv, SearchedIsSafe, Searched, LoopVisits
<1> QED
  BY <1>2, <1>5, <1>6, <1>7, <1>8 DEF IInv, SkipVisited

LEMMA DescendInvariant == IInv /\ Descend => IInv'
<1> SUFFICES ASSUME IInv, Descend PROVE IInv'
  OBVIOUS
<1> DEFINE n == Len(stack)
<1>1. PICK dep \in Top.todo :
        /\ dep \notin visited \cup paths
        /\ visited' = visited \cup {dep}
        /\ paths' = paths \cup {dep}
        /\ stack' = Append(Ranged(dep), Enter(dep))
  BY DEF Descend
<1>2. UNCHANGED <<deps, next, verdict>> /\ stack # <<>>
  BY DEF Descend
<1>3. /\ n \in Nat /\ n >= 1 /\ stack \in Seq(Frame)
      /\ \A i \in 1..n : stack[i] \in Frame
      /\ deps \in [Node -> SUBSET Node]
  BY <1>2 DEF IInv, TypeOK, Graphs
<1>4. dep \in Node /\ dep \in deps[stack[n].node] /\ dep \in stack[n].todo
  BY <1>3 DEF IInv, StackIsPath, Top, Frame
<1>5. Enter(dep) \in Frame /\ Enter(dep).node = dep /\ Enter(dep).todo = deps[dep]
  BY <1>3, <1>4 DEF Enter, Frame
<1>6. /\ Ranged(dep) \in Seq(Frame) /\ Len(Ranged(dep)) = n
      /\ \A i \in 1..n : Ranged(dep)[i].node = stack[i].node
      /\ \A i \in 1..n : i # n => Ranged(dep)[i] = stack[i]
      /\ Ranged(dep)[n].todo = stack[n].todo \ {dep}
  BY <1>3 DEF Ranged, Frame
<1>7. /\ stack' \in Seq(Frame) /\ Len(stack') = n + 1
      /\ \A i \in 1..n : stack'[i].node = stack[i].node
      /\ \A i \in 1..n : i # n => stack'[i] = stack[i]
      /\ stack'[n].todo = stack[n].todo \ {dep}
      /\ stack'[n + 1] = Enter(dep)
  BY <1>1, <1>3, <1>5, <1>6
<1>8. TypeOK'
  BY <1>1, <1>2, <1>4, <1>7 DEF IInv, TypeOK
<1>9. StackIsPath'
  <2>1. paths' = {stack'[i].node : i \in 1..Len(stack')}
    <3>1. paths = {stack[i].node : i \in 1..n}
      BY DEF IInv, StackIsPath
    <3>2. {stack'[i].node : i \in 1..Len(stack')} = {stack'[i].node : i \in 1..n} \cup {stack'[n + 1].node}
      BY <1>3, <1>7
    <3>3. {stack'[i].node : i \in 1..n} = {stack[i].node : i \in 1..n}
      BY <1>7
    <3> QED BY <1>1, <1>5, <1>7, <3>1, <3>2, <3>3
  <2>2. paths' \subseteq visited'
    BY <1>1 DEF IInv, StackIsPath
  <2>3. \A i, j \in 1..Len(stack') : stack'[i].node = stack'[j].node => i = j
    <3>1. \A i \in 1..n : stack'[i].node \in paths
      BY <1>7 DEF IInv, StackIsPath
    <3>2. \A i, j \in 1..n : stack'[i].node = stack'[j].node => i = j
      BY <1>7 DEF IInv, StackIsPath
    <3> QED BY <1>1, <1>3, <1>5, <1>7, <3>1, <3>2
  <2>4. \A i \in 1..Len(stack') : stack'[i].todo \subseteq deps[stack'[i].node]
    <3>1. \A i \in 1..n : stack'[i].todo \subseteq stack[i].todo
      BY <1>3, <1>7
    <3>2. \A i \in 1..n : stack'[i].todo \subseteq deps[stack'[i].node]
      BY <1>7, <3>1 DEF IInv, StackIsPath
    <3> QED BY <1>3, <1>5, <1>7, <3>2
  <2>5. \A i \in 1..Len(stack') : i < Len(stack') => stack'[i + 1].node \in deps[stack'[i].node]
    <3>1. \A i \in 1..n : i < n => stack'[i + 1].node \in deps[stack'[i].node]
      BY <1>3, <1>7 DEF IInv, StackIsPath
    <3> QED BY <1>3, <1>4, <1>5, <1>7, <3>1
  <2> QED BY <1>2, <2>1, <2>2, <2>3, <2>4, <2>5 DEF StackIsPath
<1>10. Searched' = Searched
  BY <1>1 DEF Searched
<1>11. RangedIsSearched'
  <2> SUFFICES ASSUME NEW i \in 1..(n + 1), NEW d \in deps[stack'[i].node] \ stack'[i].todo
               PROVE  d \in Searched \/ (i < n + 1 /\ d = stack'[i + 1].node)
    BY <1>2, <1>7, <1>10 DEF RangedIsSearched, Searched
  <2>1. CASE i = n + 1
    BY <1>5, <1>7, <2>1
  <2>2. CASE i = n /\ d = dep
    BY <1>3, <1>5, <1>7, <2>2
  <2>3. CASE i \in 1..n /\ (i # n \/ d # dep)
    <3>1. d \in deps[stack[i].node] \ stack[i].todo
      BY <1>7, <2>3
    <3>2. d \in Searched \/ (i < n /\ d = stack[i + 1].node)
      BY <2>3, <3>1 DEF IInv, RangedIsSearched, Searched
    <3>3. i < n => stack'[i + 1].node = stack[i + 1].node
      BY <1>3, <1>7, <2>3
    <3> QED BY <1>3, <2>3, <3>2, <3>3
  <2> QED BY <1>3, <2>1, <2>2, <2>3
<1>12. SearchedIsSafe'
  BY <1>2, <1>10 DEF IInv, SearchedIsSafe
<1>13. LoopVisits'
  BY <1>1, <1>2 DEF IInv, LoopVisits
<1> QED
  BY <1>2, <1>8, <1>9, <1>11, <1>12, <1>13 DEF IInv, Descend

LEMMA LeaveInvariant == IInv /\ Leave => IInv'
<1> SUFFICES ASSUME IInv, Leave PROVE IInv'
  OBVIOUS
<1> DEFINE n == Len(stack)
<1> DEFINE s == stack[n].node
<1>1. /\ UNCHANGED <<deps, next, visited, verdict>> /\ stack # <<>>
      /\ stack[n].todo = {} /\ paths' = paths \ {s} /\ stack' = SubSeq(stack, 1, n - 1)
  BY DEF Leave, Top, Pop
<1>2. /\ n \in Nat /\ n >= 1 /\ stack \in Seq(Frame)
      /\ \A i \in 1..n : stack[i] \in Frame
  BY <1>1 DEF IInv, TypeOK
<1>3. /\ stack' \in Seq(Frame) /\ Len(stack') = n - 1
      /\ \A i \in 1..(n - 1) : stack'[i] = stack[i]
  <2>1. n - 1 \in Nat /\ \A i \in 1..(n - 1) : stack[i] \in Frame
    BY <1>2
  <2> HIDE DEF n
  <2>2. /\ SubSeq(stack, 1, n - 1) \in Seq(Frame)
        /\ Len(SubSeq(stack, 1, n - 1)) = IF 1 <= n - 1 THEN (n - 1) - 1 + 1 ELSE 0
        /\ \A i \in 1..((n - 1) - 1 + 1) : SubSeq(stack, 1, n - 1)[i] = stack[1 + i - 1]
    BY <2>1, SubSeqProperties
  <2> QED BY <1>1, <2>1, <2>2
<1>4. s \in Node /\ s \in paths /\ s \in visited
  BY <1>2 DEF IInv, StackIsPath, Frame
<1>5. TypeOK'
  BY <1>1, <1>3 DEF IInv, TypeOK
<1>6. StackIsPath'
  <2>1. paths' = {stack'[i].node : i \in 1..(n - 1)}
    <3>1. paths = {stack[i].node : i \in 1..n}
      BY DEF IInv, StackIsPath
    <3>2. \A i \in 1..(n - 1) : stack[i].node # s
      BY <1>2 DEF IInv, StackIsPath
    <3>3. {stack[i].node : i \in 1..n} = {stack[i].node : i \in 1..(n - 1)} \cup {s}
      BY <1>2
    <3>4. {stack'[i].node : i \in 1..(n - 1)} = {stack[i].node : i \in 1..(n - 1)}
      BY <1>3
    <3> QED BY <1>1, <3>1, <3>2, <3>3, <3>4
  <2>2. paths' \subseteq visited'
    BY <1>1 DEF IInv, StackIsPath
  <2>3. \A i, j \in 1..(n - 1) : stack'[i].node = stack'[j].node => i = j
    BY <1>2, <1>3 DEF IInv, StackIsPath
  <2>4. \A i \in 1..(n - 1) : stack'[i].todo \subseteq deps'[stack'[i].node]
    BY <1>1, <1>2, <1>3 DEF IInv, StackIsPath
  <2>5. \A i \in 1..(n - 1) : i < n - 1 => stack'[i + 1].node \in deps'[stack'[i].node]
    BY <1>1, <1>2, <1>3 DEF IInv, StackIsPath
  <2> QED BY <1>3, <2>1, <2>2, <2>3, <2>4, <2>5 DEF StackIsPath
<1>7. s \notin Searched /\ Searched' = Searched \cup {s}
  BY <1>1, <1>4 DEF Searched
<1>8. deps[s] \subseteq Searched
  BY <1>1, <1>2 DEF IInv, RangedIsSearched, Searched
<1>9. SearchedIsSafe'
  <2>1. \A S \in SUBSET (Searched \cup {s}) : ~Abstract!Endless(S, deps)
    BY <1>7, <1>8, SafeExtension DEF IInv, SearchedIsSafe
  <2>2. \A b \in Searched \cup {s} : deps[b] \subseteq Searched \cup {s}
    BY <1>8 DEF IInv, SearchedIsSafe
  <2> QED BY <1>1, <1>7, <2>1, <2>2 DEF SearchedIsSafe
<1>10. RangedIsSearched'
  <2> SUFFICES ASSUME NEW i \in 1..(n - 1), NEW d \in deps[stack[i].node] \ stack[i].todo
               PROVE  d \in Searched' \/ (i < n - 1 /\ d = stack'[i + 1].node)
    BY <1>1, <1>3 DEF RangedIsSearched, Searched
  <2>1. d \in Searched \/ d = stack[i + 1].node
    BY <1>2 DEF IInv, RangedIsSearched, Searched
  <2>2. CASE i = n - 1
    BY <1>7, <2>1, <2>2
  <2>3. CASE i # n - 1
    BY <1>2, <1>3, <1>7, <2>1, <2>3
  <2> QED BY <2>2, <2>3
<1>11. LoopVisits'
  BY <1>1 DEF IInv, LoopVisits
<1> QED
  BY <1>1, <1>5, <1>6, <1>9, <1>10, <1>11 DEF IInv, Leave

\* At the end every registered state was searched, and the others have no
\* dependencies: an endless set would lie among the searched states.
LEMMA NothingMissed ==
    ASSUME IInv, stack = <<>>, next > Len(Registered)
    PROVE  ~HasCycle(deps)
<1> SUFFICES ASSUME NEW S \in SUBSET Node, Abstract!Endless(S, deps)
             PROVE  FALSE
  BY DEF HasCycle, Abstract!HasCycle
<1>1. paths = {}
  BY DEF IInv, StackIsPath
<1>2. RegisteredNodes \subseteq visited
  BY RegisteredAssumption DEF IInv, TypeOK, LoopVisits, RegisteredNodes
<1>3. \A x \in S : x \in RegisteredNodes
  BY DEF Abstract!Endless, IInv, TypeOK, Graphs
<1>4. S \in SUBSET Searched
  BY <1>1, <1>2, <1>3 DEF Searched
<1> QED BY <1>4 DEF IInv, SearchedIsSafe

LEMMA AcceptInvariant == IInv /\ Accept => IInv'
<1> SUFFICES ASSUME IInv, Accept PROVE IInv'
  OBVIOUS
<1>1. /\ UNCHANGED <<deps, next, visited, paths, stack>> /\ verdict' = "ok"
      /\ stack = <<>> /\ next > Len(Registered)
  BY DEF Accept
<1>2. TypeOK' /\ StackIsPath' /\ RangedIsSearched' /\ SearchedIsSafe' /\ LoopVisits'
  BY <1>1 DEF IInv, TypeOK, StackIsPath, RangedIsSearched, SearchedIsSafe, Searched, LoopVisits
<1> QED BY <1>1, <1>2 DEF IInv

LEMMA NextInvariant == IInv /\ [Next]_vars => IInv'
<1>1. IInv /\ UNCHANGED vars => IInv'
  BY DEF vars, IInv, TypeOK, StackIsPath, RangedIsSearched, SearchedIsSafe, Searched, LoopVisits, HasCycle, Abstract!HasCycle, Abstract!Endless
<1> QED
  BY <1>1, VisitRegisteredInvariant, FindCycleInvariant, SkipVisitedInvariant,
     DescendInvariant, LeaveInvariant, AcceptInvariant DEF Next

\* The frames are always a path of the dependency graph, and what was searched
\* holds no cycle: the invariant of validateCircularDependency.
THEOREM InductiveInvariant == Spec => []IInv
<1> QED BY InitInvariant, NextInvariant, PTL DEF Spec

\* The depth-first search of validateCircularDependency gives, for every graph
\* and every iteration order of the maps, the verdict of the one-step check.
THEOREM SearchImplementsCycleCheck == Spec => ImplementsCycleCheck
<1>1. Init => Abstract!Init
  BY DEF Init, Abstract!Init
<1>2. IInv /\ [Next]_vars => [Abstract!Decide]_<<deps, verdict>>
  <2> SUFFICES ASSUME IInv, [Next]_vars
               PROVE  Abstract!Decide \/ UNCHANGED <<deps, verdict>>
    OBVIOUS
  <2>1. CASE FindCycle
    BY <2>1, ClosingEdgeIsCycle DEF FindCycle, IInv, Abstract!Decide, HasCycle
  <2>2. CASE Accept
    BY <2>2, NothingMissed DEF Accept, Abstract!Decide, HasCycle
  <2>3. CASE VisitRegistered \/ SkipVisited \/ Descend \/ Leave \/ UNCHANGED vars
    BY <2>3 DEF VisitRegistered, SkipVisited, Descend, Leave, vars
  <2> QED BY <2>1, <2>2, <2>3 DEF Next
<1> QED
  BY <1>1, <1>2, InductiveInvariant, PTL DEF Spec, ImplementsCycleCheck, Abstract!Spec

-----------------------------------------------------------------------------
(* Named contexts *)

\* A set of numbers has a least one.
LEMMA LeastNumber ==
    ASSUME NEW T \in SUBSET Nat, T # {}
    PROVE  \E m \in T : \A t \in T : m <= t
<1> DEFINE R == {p \in Nat \X Nat : p[1] < p[2]}
<1>1. IsWellFoundedOn(R, Nat)
  BY NatLessThanWellFounded, Zenon DEF OpToRel
<1>2. \E x \in T : \A y \in T : <<y, x>> \notin R
  <2> HIDE DEF R
  <2>1. T \subseteq Nat
    OBVIOUS
  <2> QED BY <1>1, <2>1, WFMin, Zenon
<1>3. PICK x \in T : \A y \in T : <<y, x>> \notin R
  BY <1>2
<1>4. \A y \in T : ~(y < x)
  BY <1>3
<1>5. \A y \in T : x <= y
  BY <1>4
<1> QED BY <1>5

(***************************************************************************)
(* Where the policies lead, one after the other.                           *)
(***************************************************************************)
After(v) == IF Moves(v) THEN Behind(v).to ELSE v

LEMMA WorldFacts ==
    ASSUME world \in Worlds
    PROVE  /\ IsFiniteSet(DOMAIN world.registry)
           /\ Cardinality(DOMAIN world.registry) \in Nat
           /\ Many \in Nat /\ Many = Cardinality(DOMAIN world.registry) + 1
<1>1. IsFiniteSet(DOMAIN world.registry)
  BY WorldsAssumption
<1>2. Cardinality(DOMAIN world.registry) \in Nat
  BY <1>1, FS_CardinalityType
<1> QED BY <1>1, <1>2 DEF Many

\* Where a step leads is an option again.
LEMMA AfterType ==
    ASSUME world \in Worlds, NEW v \in Option, Moves(v)
    PROVE  Behind(v).to \in Option
<1>1. v.rest \in DOMAIN world.registry /\ world.registry[v.rest].kind = "moved" /\ Behind(v) = world.registry[v.rest]
  BY DEF Moves, Behind
<1> QED BY <1>1, WorldsAssumption

\* A step depends on the reference alone.
LEMMA SameReference ==
    ASSUME NEW u, NEW v, Moves(u), Moves(v), u.rest = v.rest
    PROVE  After(u) = After(v)
BY DEF After, Behind

\* What is followed is defined, step by step.
LEMMA FollowedIs ==
    ASSUME world \in Worlds, NEW v
    PROVE  /\ Followed(v)[0] = v
           /\ \A j \in 1..Many : Followed(v)[j] = After(Followed(v)[j - 1])
<1>1. Many \in Nat
  BY WorldFacts
<1> DEFINE Is(m, g) == /\ g = [j \in 0..m |-> g[j]]
                       /\ g[0] = v
                       /\ \A j \in 1..m : g[j] = After(g[j - 1])
           T == {m \in Nat : ~\E g : Is(m, g)}
<1> HIDE DEF After
<1>2. T = {}
  <2> SUFFICES ASSUME T # {} PROVE FALSE
    OBVIOUS
  <2>1. PICK m \in T : \A x \in T : m <= x
    <3> HIDE DEF T
    <3>1. T \in SUBSET Nat
      BY DEF T
    <3> QED BY <3>1, LeastNumber
  <2>2. m \in Nat /\ ~\E g : Is(m, g)
    BY <2>1
  <2>3. CASE m = 0
    <3> DEFINE g == [j \in 0..0 |-> v]
    <3>1. Is(0, g)
      OBVIOUS
    <3> HIDE DEF Is
    <3> QED BY <2>2, <2>3, <3>1
  <2>4. CASE m # 0
    <3>1. m - 1 \in Nat /\ m - 1 \notin T
      <4> HIDE DEF T
      <4> QED BY <2>1, <2>2, <2>4
    <3>2. PICK h : Is(m - 1, h)
      BY <3>1
    <3> DEFINE g == [j \in 0..m |-> IF j = m THEN After(h[m - 1]) ELSE h[j]]
    <3>3. \A j \in 0..m : g[j] = IF j = m THEN After(h[m - 1]) ELSE h[j]
      OBVIOUS
    <3>4. g = [j \in 0..m |-> g[j]]
      BY Zenon
    <3> HIDE DEF g
    <3>5. g[0] = v
      <4>1. h[0] = v
        BY <3>2
      <4>2. 0 \in 0..m
        BY <2>2
      <4> QED BY <2>4, <3>3, <4>1, <4>2
    <3>6. ASSUME NEW j \in 1..m PROVE g[j] = After(g[j - 1])
      <4>1. j \in 0..m /\ j - 1 \in 0..m /\ j - 1 # m /\ g[j - 1] = h[j - 1]
        BY <2>2, <3>3
      <4>2. CASE j = m
        BY <3>3, <4>1, <4>2
      <4>3. CASE j # m
        <5>1. j \in 1..m - 1
          BY <2>2, <4>3
        <5>2. h[j] = After(h[j - 1])
          BY <3>2, <5>1
        <5>3. g[j] = h[j]
          BY <3>3, <4>1, <4>3
        <5> QED BY <4>1, <5>2, <5>3
      <4> QED BY <4>2, <4>3
    <3>7. Is(m, g)
      BY <3>4, <3>5, <3>6
    <3> HIDE DEF Is
    <3> QED BY <2>2, <3>7
  <2> QED BY <2>3, <2>4
<1>3. PICK g : Is(Many, g)
  BY <1>1, <1>2
<1> DEFINE F(f) == [j \in 0..Many |-> IF j = 0 THEN v ELSE IF Moves(f[j - 1]) THEN Behind(f[j - 1]).to ELSE f[j - 1]]
<1>4. g = F(g)
  <2>1. ASSUME NEW j \in 0..Many PROVE g[j] = F(g)[j]
    <3>1. CASE j = 0
      BY <1>3, <3>1
    <3>2. CASE j # 0
      <4>1. j \in 1..Many
        BY <1>1, <3>2
      <4> QED BY <1>3, <3>2, <4>1 DEF After
    <3> QED BY <3>1, <3>2
  <2>2. g = [j \in 0..Many |-> g[j]]
    BY <1>3
  <2>3. F(g) = [j \in 0..Many |-> F(g)[j]]
    BY Zenon
  <2> HIDE DEF F
  <2>4. [j \in 0..Many |-> g[j]] = [j \in 0..Many |-> F(g)[j]]
    BY <2>1
  <2> QED BY <2>2, <2>3, <2>4
<1>5. Followed(v) = CHOOSE f : f = F(f)
  BY Zenon DEF Followed
<1>6. Followed(v) = F(Followed(v))
  <2> HIDE DEF F
  <2> QED BY <1>4, <1>5, Zenon
<1>7. \A j \in 0..Many : Followed(v)[j] = F(Followed(v))[j]
  <2> HIDE DEF F
  <2> QED BY <1>6, Zenon
<1>8. \A j \in 1..Many : j \in 0..Many /\ j # 0
  BY <1>1
<1>9. 0 \in 0..Many
  BY <1>1
<1> DEFINE w == Followed(v)
<1>10. \A j \in 0..Many : w[j] = IF j = 0 THEN v ELSE After(w[j - 1])
  BY <1>7 DEF After
<1> HIDE DEF w
<1>11. w[0] = v /\ \A j \in 1..Many : w[j] = After(w[j - 1])
  BY <1>8, <1>9, <1>10
<1> QED BY <1>11 DEF w

\* What does not move stays.
LEMMA WhatEndsStays ==
    ASSUME world \in Worlds, NEW v, NEW i \in 0..Many, ~Moves(Followed(v)[i])
    PROVE  \A j \in i..Many : Followed(v)[j] = Followed(v)[i]
<1>1. Many \in Nat
  BY WorldFacts
<1>2. \A j \in 1..Many : Followed(v)[j] = After(Followed(v)[j - 1])
  BY FollowedIs
<1> DEFINE T == {j \in i..Many : Followed(v)[j] # Followed(v)[i]}
<1> SUFFICES ASSUME T # {} PROVE FALSE
  OBVIOUS
<1>3. T \in SUBSET Nat
  BY <1>1
<1>4. PICK m \in T : \A x \in T : m <= x
  <2> HIDE DEF T
  <2> QED BY <1>3, LeastNumber
<1>5. m \in i..Many /\ Followed(v)[m] # Followed(v)[i]
  BY <1>4
<1>6. m # i /\ m - 1 \in i..Many /\ m \in 1..Many /\ m \in Nat
  BY <1>1, <1>5
<1>7. m - 1 \notin T
  <2> HIDE DEF T
  <2> QED BY <1>4, <1>6
<1>8. Followed(v)[m - 1] = Followed(v)[i]
  BY <1>6, <1>7
<1>9. Followed(v)[m] = After(Followed(v)[i])
  BY <1>2, <1>6, <1>8
<1> QED BY <1>5, <1>9 DEF After

\* Policies that still move after as many steps as there are references go
\* round in a circle, and lead to nothing new.
LEMMA CirclesGoOn ==
    ASSUME world \in Worlds, NEW v, Moves(Followed(v)[Many])
    PROVE  /\ \A j \in 0..Many : Moves(Followed(v)[j])
           /\ \E j \in 0..Many : Behind(Followed(v)[Many]).to = Followed(v)[j]
<1> DEFINE f == Followed(v)
<1>1. /\ Many \in Nat /\ IsFiniteSet(DOMAIN world.registry)
      /\ Many = Cardinality(DOMAIN world.registry) + 1 /\ Cardinality(DOMAIN world.registry) \in Nat
  BY WorldFacts
<1>2. \A j \in 1..Many : f[j] = After(f[j - 1])
  BY FollowedIs
<1>3. ASSUME NEW j \in 0..Many, ~Moves(f[j]) PROVE FALSE
  <2>1. \A i \in j..Many : f[i] = f[j]
    BY <1>3, WhatEndsStays
  <2>2. Many \in j..Many
    BY <1>1
  <2> HIDE DEF f
  <2>3. f[Many] = f[j]
    BY <2>1, <2>2
  <2>4. Moves(f[Many])
    BY DEF f
  <2> QED BY <1>3, <2>3, <2>4
<1>4. Moves(f[Many])
  OBVIOUS
<1> HIDE DEF f
<1> DEFINE R == [j \in 0..Many - 1 |-> f[j].rest]
<1>5. \A j \in 0..Many : f[j].rest \in DOMAIN world.registry
  BY <1>3 DEF Moves, Behind
<1>6. R \in [0..Many - 1 -> DOMAIN world.registry]
  BY <1>1, <1>5
<1>7. IsFiniteSet(0..Many - 1) /\ Cardinality(0..Many - 1) = Many
  <2>1. PICK l \in Nat : l = Many
    BY <1>1
  <2>2. 0 \in Int /\ l - 1 \in Int
    BY <2>1
  <2>3. IsFiniteSet(0..l - 1) /\ Cardinality(0..l - 1) = IF 0 > l - 1 THEN 0 ELSE (l - 1) - 0 + 1
    BY <2>2, FS_Interval, Zenon
  <2>4. Cardinality(0..l - 1) = l
    BY <2>1, <2>3
  <2> QED BY <2>1, <2>3, <2>4
<1>8. Cardinality(DOMAIN world.registry) < Cardinality(0..Many - 1)
  BY <1>1, <1>7
<1>9. \E x, y \in 0..Many - 1 : x # y /\ R[x] = R[y]
  <2> HIDE DEF R
  <2>1. PICK S, T : S = 0..Many - 1 /\ T = DOMAIN world.registry
    OBVIOUS
  <2>2. R \in [S -> T] /\ IsFiniteSet(S) /\ IsFiniteSet(T) /\ Cardinality(T) < Cardinality(S)
    BY <1>1, <1>6, <1>7, <1>8, <2>1
  <2>3. \E x, y \in S : x # y /\ R[x] = R[y]
    BY <2>2, FS_PigeonHole, Zenon
  <2> QED BY <2>1, <2>3
<1>10. PICK i \in 0..Many - 1, k \in 0..Many - 1 : i < k /\ f[i].rest = f[k].rest
  <2>1. PICK x \in 0..Many - 1, y \in 0..Many - 1 : x # y /\ R[x] = R[y]
    BY <1>9
  <2>2. f[x].rest = f[y].rest
    BY <2>1
  <2>3. x < y \/ y < x
    BY <1>1, <2>1
  <2> QED BY <2>2, <2>3
<1>11. /\ i \in Nat /\ k \in Nat /\ i < k /\ k + 1 \in 1..Many /\ i + 1 \in 1..Many
       /\ i \in 0..Many /\ k \in 0..Many
       /\ (i + 1) - 1 = i /\ (k + 1) - 1 = k
  BY <1>1, <1>10
<1>12. f[i + 1] = f[k + 1]
  <2>1. After(f[i]) = After(f[k])
    <3>1. Moves(f[i]) /\ Moves(f[k])
      BY <1>3, <1>11
    <3> QED BY <1>10, <3>1, SameReference
  <2>2. f[i + 1] = After(f[(i + 1) - 1]) /\ f[k + 1] = After(f[(k + 1) - 1])
    BY <1>2, <1>11
  <2> QED BY <1>11, <2>1, <2>2
<1> DEFINE p == k - i
           T == {j \in k + 1..Many : f[j] # f[j - p]}
<1>13. T = {}
  <2> SUFFICES ASSUME T # {} PROVE FALSE
    OBVIOUS
  <2>1. T \in SUBSET Nat
    BY <1>1, <1>11
  <2>2. PICK m \in T : \A x \in T : m <= x
    <3> HIDE DEF T
    <3> QED BY <2>1, LeastNumber
  <2>3. m \in k + 1..Many /\ f[m] # f[m - p]
    BY <2>2
  <2>4. m # k + 1
    <3>1. (k + 1) - p = i + 1
      BY <1>11
    <3> HIDE DEF p
    <3> QED BY <1>12, <2>3, <3>1
  <2>5. /\ m - 1 \in k + 1..Many /\ m - 1 < m /\ m \in 1..Many
        /\ m - p \in 1..Many /\ (m - p) - 1 = (m - 1) - p
    BY <1>1, <1>11, <2>3, <2>4
  <2>6. m - 1 \notin T
    <3> HIDE DEF T, p
    <3>1. m \in Nat
      BY <2>1
    <3> QED BY <2>2, <2>5, <3>1
  <2>7. f[m - 1] = f[(m - 1) - p]
    BY <2>5, <2>6
  <2>8. f[m] = After(f[m - 1]) /\ f[m - p] = After(f[(m - p) - 1])
    BY <1>2, <2>5
  <2> HIDE DEF p, T
  <2> QED BY <2>3, <2>5, <2>7, <2>8
<1>14. Many \in k + 1..Many
  BY <1>1, <1>11
<1>15. f[Many] = f[Many - p]
  BY <1>13, <1>14
<1>16. (Many - p) + 1 \in 1..Many /\ ((Many - p) + 1) - 1 = Many - p /\ (Many - p) + 1 \in 0..Many
  BY <1>1, <1>11
<1> HIDE DEF p, T
<1>17. f[(Many - p) + 1] = After(f[Many - p])
  BY <1>2, <1>16
<1>18. After(f[Many]) = Behind(f[Many]).to
  BY <1>4 DEF After
<1>19. Behind(f[Many]).to = f[(Many - p) + 1]
  BY <1>15, <1>17, <1>18
<1>20. \E j \in 0..Many : Behind(f[Many]).to = f[j]
  BY <1>16, <1>19
<1> QED BY <1>3, <1>20 DEF f

OnChain(v, x) == \E j \in 0..Many : x = Followed(v)[j]

LEMMA ChainBegins ==
    ASSUME world \in Worlds, NEW v
    PROVE  OnChain(v, v)
<1>1. 0 \in 0..Many
  BY WorldFacts
<1>2. Followed(v)[0] = v
  BY FollowedIs
<1> QED BY <1>1, <1>2 DEF OnChain

LEMMA ChainGoesOn ==
    ASSUME world \in Worlds, NEW v, NEW x, OnChain(v, x), Moves(x)
    PROVE  OnChain(v, Behind(x).to)
<1>1. PICK j \in 0..Many : x = Followed(v)[j]
  BY DEF OnChain
<1>2. CASE j = Many
  BY <1>1, <1>2, CirclesGoOn DEF OnChain
<1>3. CASE j # Many
  <2>1. j + 1 \in 1..Many /\ j + 1 \in 0..Many /\ (j + 1) - 1 = j
    BY <1>3, WorldFacts
  <2>2. Followed(v)[j + 1] = After(Followed(v)[(j + 1) - 1])
    BY <2>1, FollowedIs
  <2>3. Followed(v)[j + 1] = Behind(x).to
    BY <1>1, <2>1, <2>2 DEF After
  <2> QED BY <2>1, <2>3 DEF OnChain
<1> QED BY <1>2, <1>3

LEMMA ChainEnds ==
    ASSUME world \in Worlds, NEW v, NEW x, OnChain(v, x), ~Moves(x)
    PROVE  Followed(v)[Many] = x
<1>1. PICK j \in 0..Many : x = Followed(v)[j]
  BY DEF OnChain
<1>2. Many \in j..Many
  BY WorldFacts
<1>3. Followed(v)[Many] = Followed(v)[j]
  BY <1>1, <1>2, WhatEndsStays
<1> QED BY <1>1, <1>3

\* The length of policies is the number of those that have been followed when
\* their end is met, and more while it is not.
LEMMA LengthIs ==
    ASSUME world \in Worlds, NEW v, NEW n \in 0..Many,
           \A i \in 0..n - 1 : Moves(Followed(v)[i]), ~Moves(Followed(v)[Many])
    PROVE  /\ Length(v) \in Nat /\ Length(v) >= n
           /\ ~Moves(Followed(v)[n]) => Length(v) = n
<1>1. Many \in Nat /\ n \in Nat
  BY WorldFacts
<1> DEFINE S == {j \in 0..Many : Moves(Followed(v)[j])}
<1>2. Length(v) = Cardinality(S)
  BY DEF Length
<1>3. 0..n - 1 \subseteq S
  BY <1>1
<1>4. IsFiniteSet(S) /\ Cardinality(S) \in Nat
  <2>1. IsFiniteSet(0..Many)
    <3>1. 0 \in Int /\ Many \in Int
      BY <1>1
    <3> QED BY <3>1, FS_Interval, Zenon
  <2>2. S \in SUBSET (0..Many)
    OBVIOUS
  <2> HIDE DEF S
  <2>3. IsFiniteSet(S)
    BY <2>1, <2>2, FS_Subset
  <2> QED BY <2>3, FS_CardinalityType
<1>5. Cardinality(0..n - 1) = n
  <2>1. 0 \in Int /\ n - 1 \in Int
    BY <1>1
  <2>2. Cardinality(0..n - 1) = IF 0 > n - 1 THEN 0 ELSE (n - 1) - 0 + 1
    BY <2>1, FS_Interval, Zenon
  <2> QED BY <1>1, <2>2
<1>6. Cardinality(0..n - 1) <= Cardinality(S)
  <2> HIDE DEF S
  <2>1. (0..n - 1) \in SUBSET S
    BY <1>3
  <2> QED BY <1>4, <2>1, FS_Subset
<1>7. ASSUME ~Moves(Followed(v)[n]) PROVE S = 0..n - 1
  <2>1. ASSUME NEW j \in S PROVE j \in 0..n - 1
    <3>1. ~(j \in n..Many)
      BY <1>7, <2>1, WhatEndsStays
    <3> QED BY <1>1, <2>1, <3>1
  <2> QED BY <1>3, <2>1
<1> HIDE DEF S
<1> QED BY <1>1, <1>2, <1>4, <1>5, <1>6, <1>7

-----------------------------------------------------------------------------
(***************************************************************************)
(* The invariant.  Value is the option at a key, Original the user's.      *)
(***************************************************************************)
Value(k) == OptionAt(opts, k)
Original(k) == OptionAt(world.opts, k)
Key(c) == Keys(c)[which[c]]

Working == {"open", "write", "writing"}
Busy == {"ask", "lookup"} \cup Working

ContextTypeOK ==
    /\ world \in Worlds
    /\ opts \in [DOMAIN world.opts -> Option]
    /\ pc \in [Caller -> Busy \cup {"dispatch", "marshal", "done"}]
    /\ which \in [Caller -> {1, 2}]
    /\ count \in [Caller -> Nat]
    /\ seen \in [Caller -> Option \cup {NoOption}]
    /\ once \in [Caller -> BOOLEAN]
    /\ DOMAIN answer = Caller /\ DOMAIN sent = Caller /\ DOMAIN recorded = Caller

\* What is sent is what is recorded, once it is fixed, and nothing is recorded then.
Sending == \A c \in Caller : once[c] => pc[c] \in {"marshal", "done"} /\ sent[c] = recorded[c]

\* Whoever rewrites an option, it is on the way that the policies lead from the user's.
OptionsAreOnTheWay == \A k \in DOMAIN world.opts : OnChain(Original(k), Value(k))

SearchIs(c) ==
    /\ pc[c] = "ask" => which[c] = 1 /\ count[c] = 0
    /\ pc[c] \in Busy /\ which[c] = 2 => Keys(c)[1] \notin DOMAIN world.opts
    /\ pc[c] \in Working => \A k \in {Key(c)} : k \in DOMAIN world.opts /\ OnChain(Original(k), seen[c])
    /\ pc[c] \in {"write", "writing"} => Moves(seen[c])
    /\ pc[c] = "open" => ~TooDeep(count[c])

\* The depth of the recursion is the number of policies that were followed.
CountIs(c) ==
    pc[c] \in Busy /\ Alone(c) => \A k \in {Key(c)} :
        /\ \A l \in Touched(c) : l # k => Value(l) = Original(l)
        /\ pc[c] \in Working => seen[c] = Value(k)
        /\ \A v \in {Original(k)} : ~Moves(Followed(v)[Many]) =>
              /\ count[c] \in 0..Many
              /\ Value(k) = Followed(v)[count[c]]
              /\ \A i \in 0..count[c] - 1 : Moves(Followed(v)[i])

ContextInv ==
    /\ ContextTypeOK
    /\ Sending
    /\ OptionsAreOnTheWay
    /\ \A c \in Caller : SearchIs(c) /\ CountIs(c)
    /\ FollowsThePolicies

-----------------------------------------------------------------------------
\* What the world says of a caller and of an option stays.

LEMMA WorldStays ==
    ASSUME world' = world
    PROVE  /\ Caller' = Caller /\ Many' = Many
           /\ \A v : Moves(v)' = Moves(v) /\ Behind(v)' = Behind(v)
           /\ \A v : Followed(v)' = Followed(v)
           /\ \A v : Length(v)' = Length(v)
           /\ \A v, x : OnChain(v, x)' = OnChain(v, x)
           /\ \A k : Original(k)' = Original(k)
           /\ \A c : Keys(c)' = Keys(c) /\ Touched(c)' = Touched(c) /\ Alone(c)' = Alone(c)
           /\ \A c : Asks(c)' = Asks(c) /\ Given(c)' = Given(c)
<1>1. Caller' = Caller /\ Many' = Many
  BY DEF Caller, Many
<1>2. \A v : Moves(v)' = Moves(v) /\ Behind(v)' = Behind(v)
  BY DEF Moves, Behind
<1>3. \A v : Followed(v)' = Followed(v)
  BY DEF Followed, Moves, Behind, Many
<1>4. \A v : Length(v)' = Length(v)
  BY <1>1, <1>2, <1>3 DEF Length
<1>5. \A v, x : OnChain(v, x)' = OnChain(v, x)
  BY <1>1, <1>3 DEF OnChain
<1>6. \A k : Original(k)' = Original(k)
  BY DEF Original, OptionAt
<1>7. \A c : Keys(c)' = Keys(c)
  BY DEF Keys
<1>8. \A c : Touched(c)' = Touched(c)
  BY <1>7 DEF Touched
<1>9. \A c : Alone(c)' = Alone(c)
  BY <1>1, <1>8 DEF Alone
<1>10. \A c : Asks(c)' = Asks(c) /\ Given(c)' = Given(c)
  BY DEF Asks, Given, OptionAt
<1> QED BY <1>1, <1>2, <1>3, <1>4, <1>5, <1>6, <1>7, <1>8, <1>9, <1>10

\* No option is none.
LEMMA SomeOption == NoOption \notin Option
BY DEF NoOption, Option, Kind

LEMMA KeyFacts ==
    ASSUME NEW c
    PROVE  /\ Touched(c) = {Keys(c)[1], Keys(c)[2]}
           /\ Given(c) = IF Original(Keys(c)[1]) # NoOption THEN Original(Keys(c)[1]) ELSE Original(Keys(c)[2])
<1>1. Touched(c) = {Keys(c)[1], Keys(c)[2]}
  BY DEF Touched
<1>2. /\ Keys(c)[1] = <<world.calls[c].name, world.calls[c].platform>>
      /\ Keys(c)[2] = <<world.calls[c].name, EveryPlatform>>
  BY DEF Keys
<1> QED BY <1>1, <1>2 DEF Given, Original

LEMMA OptionFacts ==
    ASSUME ContextTypeOK, NEW k
    PROVE  /\ k \in DOMAIN world.opts => Value(k) \in Option /\ Original(k) \in Option
           /\ k \notin DOMAIN world.opts => Value(k) = NoOption /\ Original(k) = NoOption
           /\ Value(k) = NoOption <=> k \notin DOMAIN world.opts
           /\ Original(k) = NoOption <=> k \notin DOMAIN world.opts
<1>1. /\ opts \in [DOMAIN world.opts -> Option]
      /\ world.opts \in [DOMAIN world.opts -> Option]
  BY WorldsAssumption DEF ContextTypeOK
<1>2. k \in DOMAIN world.opts => Value(k) \in Option /\ Original(k) \in Option
  BY <1>1 DEF Value, Original, OptionAt
<1>3. k \notin DOMAIN world.opts => Value(k) = NoOption /\ Original(k) = NoOption
  BY <1>1 DEF Value, Original, OptionAt
<1> QED BY <1>2, <1>3, SomeOption

\* The option that a caller has found is the one that is given for it.
LEMMA FoundIsGiven ==
    ASSUME ContextTypeOK, NEW c \in Caller, SearchIs(c), pc[c] \in Busy, NEW k, k = Key(c)
    PROVE  /\ k \in DOMAIN world.opts => Given(c) = Original(k) /\ Given(c) # NoOption
           /\ k \notin DOMAIN world.opts /\ which[c] = 2 => Given(c) = NoOption
           /\ k \in Touched(c)
<1>1. which[c] \in {1, 2}
  BY DEF ContextTypeOK
<1>2. which[c] = 1 => k = Keys(c)[1]
  BY DEF Key
<1>3. which[c] = 2 => k = Keys(c)[2] /\ Keys(c)[1] \notin DOMAIN world.opts
  BY DEF Key, SearchIs
<1>4. PICK k1 : k1 = Keys(c)[1]
  OBVIOUS
<1>5. Original(k1) = NoOption <=> k1 \notin DOMAIN world.opts
  BY OptionFacts
<1>6. Original(k) = NoOption <=> k \notin DOMAIN world.opts
  BY OptionFacts
<1>7. Given(c) = IF Original(k1) # NoOption THEN Original(k1) ELSE Original(Keys(c)[2])
  BY <1>4, KeyFacts
<1>8. k \in Touched(c)
  BY <1>1, <1>2, <1>3, KeyFacts
<1> QED BY <1>1, <1>2, <1>3, <1>4, <1>5, <1>6, <1>7, <1>8

-----------------------------------------------------------------------------
\* Answers.

LEMMA AnswerKinds ==
    /\ NoAnswer.kind = "pending" /\ NoContext.kind = "none" /\ Error.kind = "error" /\ LimitError.kind = "limit"
    /\ \A v, i : State(v, i).kind = "state" /\ State(v, i).of = v
    /\ \A v, i, x : [State(v, i) EXCEPT !.excludes = x].kind = "state" /\ [State(v, i) EXCEPT !.excludes = x].of = v
BY DEF NoAnswer, NoContext, Error, LimitError, State

\* The ends of policies that lead to no context.
Unusable(end) ==
    \/ end.kind \in {"malformed", "other"}
    \/ end.rest \in {"bad", "badignore", "missing", "badmetadata"}
    \/ end.kind \in {"docker-image", "oci-layout"} /\ Behind(end).kind # "image" /\ ~Moves(end)

\* FollowsThePolicies, of one caller and one answer.
Right(c, a) ==
    /\ a.kind = "none" <=> Given(c) = NoOption
    /\ a.kind = "state" => a.of = Followed(Given(c))[Many] /\ ~Moves(a.of)
    /\ a.kind = "error" /\ ~world.faulty => Unusable(Followed(Given(c))[Many])
    /\ Alone(c) => /\ a.kind = "limit" => Length(Given(c)) > MaxContextRecursion
                   /\ Length(Given(c)) > MaxContextRecursion => a.kind \in {"limit", "error"}

LEMMA RightAnswers ==
    FollowsThePolicies <=> \A c \in Caller : Answered(c) /\ Asks(c) => Right(c, answer[c])
BY DEF FollowsThePolicies, LimitIsExact, Right, Unusable

LEMMA RightStays ==
    ASSUME world' = world
    PROVE  \A c, a : Right(c, a)' <=> Right(c, a)
<1>1. \A v : Unusable(v)' <=> Unusable(v)
  BY WorldStays DEF Unusable
<1>2. ASSUME NEW c, NEW a PROVE Right(c, a)' <=> Right(c, a)
  <2>1. PICK g : g = Given(c) /\ g = Given(c)'
    BY WorldStays
  <2>2. PICK f : f = Followed(g) /\ f = Followed(g)'
    BY WorldStays
  <2> QED BY <1>1, <2>1, <2>2, WorldStays DEF Right
<1> QED BY <1>2

LEMMA RightNone ==
    ASSUME ContextInv, NEW c \in Caller, pc[c] = "lookup", which[c] = 2, NEW k, k = Key(c), k \notin DOMAIN world.opts
    PROVE  Right(c, NoContext)
<1>1. world \in Worlds /\ pc[c] \in Busy /\ SearchIs(c)
  BY DEF ContextInv, ContextTypeOK, Busy
<1>2. Given(c) = NoOption
  BY <1>1, FoundIsGiven DEF ContextInv
<1>3. ~Moves(NoOption)
  BY DEF Moves, NoOption
<1>4. Many \in Nat
  BY <1>1, WorldFacts
<1>5. Followed(NoOption)[0] = NoOption
  BY <1>1, FollowedIs
<1>6. ~Moves(Followed(NoOption)[Many])
  <2>1. 0 \in 0..Many /\ Many \in 0..Many
    BY <1>4
  <2>2. Followed(NoOption)[Many] = Followed(NoOption)[0]
    BY <1>1, <1>3, <1>5, <2>1, WhatEndsStays
  <2> QED BY <1>3, <1>5, <2>2
<1>7. Length(NoOption) = 0
  <2>1. 0 \in 0..Many /\ \A i \in 0..0 - 1 : Moves(Followed(NoOption)[i])
    BY <1>4
  <2> QED BY <1>1, <1>3, <1>5, <1>6, <2>1, LengthIs
<1>8. NoContext.kind = "none"
  BY AnswerKinds
<1> QED BY <1>2, <1>7, <1>8, LimitAssumption DEF Right

LEMMA RightLimit ==
    ASSUME ContextInv, NEW c \in Caller, pc[c] = "lookup", TooDeep(count[c]), NEW k, k = Key(c), k \in DOMAIN world.opts
    PROVE  Right(c, LimitError)
<1>1. /\ world \in Worlds /\ pc[c] \in Busy /\ SearchIs(c) /\ CountIs(c)
      /\ count[c] \in Nat /\ count[c] > MaxContextRecursion
  BY DEF ContextInv, ContextTypeOK, Busy, TooDeep
<1>2. Given(c) = Original(k) /\ Given(c) # NoOption
  BY <1>1, FoundIsGiven DEF ContextInv
<1>3. Many \in Nat
  BY <1>1, WorldFacts
<1>4. ASSUME Alone(c) PROVE Length(Given(c)) > MaxContextRecursion
  <2>1. PICK v : v = Original(k)
    OBVIOUS
  <2>2. CASE Moves(Followed(v)[Many])
    <3>1. Length(v) = Many + MaxContextRecursion + 1
      BY <2>2 DEF Length
    <3> QED BY <1>2, <1>3, <2>1, <3>1, LimitAssumption
  <2>3. CASE ~Moves(Followed(v)[Many])
    <3>1. PICK n : n = count[c]
      OBVIOUS
    <3>2. n \in 0..Many /\ \A i \in 0..n - 1 : Moves(Followed(v)[i])
      BY <1>1, <1>4, <2>1, <2>3, <3>1 DEF CountIs
    <3>3. Length(v) \in Nat /\ Length(v) >= n
      BY <1>1, <2>3, <3>2, LengthIs
    <3> QED BY <1>1, <1>2, <2>1, <3>1, <3>3, LimitAssumption
  <2> QED BY <2>2, <2>3
<1>5. LimitError.kind = "limit"
  BY AnswerKinds
<1> QED BY <1>2, <1>4, <1>5 DEF Right

LEMMA RightEnd ==
    ASSUME ContextInv, NEW c \in Caller, pc[c] = "open", NEW a, a.kind \in {"state", "error"},
           a.kind = "state" => a.of = seen[c] /\ ~Moves(seen[c]),
           a.kind = "error" /\ ~world.faulty => ~Moves(seen[c]) /\ Unusable(seen[c])
    PROVE  Right(c, a)
<1>1. PICK k, s, n : k = Key(c) /\ s = seen[c] /\ n = count[c]
  OBVIOUS
<1>2. /\ world \in Worlds /\ pc[c] \in Busy /\ pc[c] \in Working /\ SearchIs(c) /\ CountIs(c) /\ n \in Nat
  BY <1>1 DEF ContextInv, ContextTypeOK, Busy, Working
<1>3. k \in DOMAIN world.opts /\ OnChain(Original(k), s) /\ n <= MaxContextRecursion
  BY <1>1, <1>2, LimitAssumption DEF SearchIs, TooDeep
<1>4. Given(c) = Original(k) /\ Given(c) # NoOption
  BY <1>1, <1>2, <1>3, FoundIsGiven DEF ContextInv
<1>5. PICK v : v = Original(k)
  OBVIOUS
<1>6. ~Moves(s) => Followed(v)[Many] = s
  BY <1>2, <1>3, <1>5, ChainEnds
<1>7. ASSUME Alone(c), ~Moves(s) PROVE Length(v) = n
  <2>1. ~Moves(Followed(v)[Many])
    BY <1>6, <1>7
  <2>2. /\ n \in 0..Many /\ s = Followed(v)[n]
        /\ \A i \in 0..n - 1 : Moves(Followed(v)[i])
    BY <1>1, <1>2, <1>5, <1>7, <2>1 DEF CountIs
  <2> QED BY <1>2, <1>7, <2>1, <2>2, LengthIs
<1>8. Given(c) = v
  BY <1>4, <1>5
<1>9. a.kind = "state" => a.of = s /\ ~Moves(s)
  BY <1>1
<1>10. a.kind = "error" /\ ~world.faulty => ~Moves(s) /\ Unusable(s)
  BY <1>1
<1>11. Alone(c) /\ Length(v) > MaxContextRecursion => a.kind = "error"
  <2>1. ASSUME Alone(c), a.kind = "state" PROVE ~(Length(v) > MaxContextRecursion)
    <3>1. Length(v) = n
      BY <1>7, <1>9, <2>1
    <3> QED BY <1>2, <1>3, <3>1, LimitAssumption
  <2> QED BY <2>1
<1> QED BY <1>4, <1>6, <1>8, <1>9, <1>10, <1>11 DEF Right

-----------------------------------------------------------------------------
\* Steps.

\* What a caller knows stays while its options do, until it comes to new ones.
LEMMA CallerStays ==
    ASSUME ContextTypeOK, world' = world, NEW c \in Caller, SearchIs(c), CountIs(c),
           which'[c] = which[c], count'[c] = count[c], seen'[c] = seen[c],
           pc'[c] \in Busy => pc[c] \in Busy,
           pc'[c] \in Working => pc[c] \in Working,
           pc'[c] = "open" => pc[c] = "open",
           pc'[c] = "ask" => pc[c] = "ask",
           pc'[c] \in {"write", "writing"} => Moves(seen[c]),
           Alone(c) => \A l \in Touched(c) : Value(l)' = Value(l)
    PROVE  SearchIs(c)' /\ CountIs(c)'
<1>1. PICK k, s : k = Key(c) /\ s = seen[c]
  OBVIOUS
<1>2. PICK ks : ks = Keys(c) /\ ks = Keys(c)'
  BY WorldStays
<1>3. k = Key(c)' /\ s = seen[c]'
  BY <1>1, <1>2 DEF Key
<1>4. \A x : Original(x)' = Original(x)
  BY WorldStays
<1>5. \A v, x : OnChain(v, x)' = OnChain(v, x)
  BY WorldStays
<1>6. Moves(s)' = Moves(s)
  BY WorldStays
<1>7. SearchIs(c)'
  <2>1. PICK o : o = Original(k) /\ o = Original(k)'
    BY <1>4
  <2>2. pc[c] \in Working => k \in DOMAIN world.opts /\ OnChain(o, s)
    BY <1>1, <2>1 DEF SearchIs
  <2>3. pc[c]' \in Working => k \in DOMAIN world.opts' /\ OnChain(o, s)'
    BY <1>5, <2>2
  <2>4. pc[c]' \in Working => \A x \in {Key(c)'} : x \in DOMAIN world.opts' /\ OnChain(Original(x), seen[c])'
    <3> SUFFICES ASSUME pc[c]' \in Working PROVE k \in DOMAIN world.opts' /\ OnChain(Original(k), seen[c])'
      BY <1>3
    <3>1. OnChain(o, s)'
      BY <2>3
    <3> QED BY <1>3, <2>1, <2>3, <3>1 DEF OnChain
  <2>5. (pc[c]' = "ask" => which[c]' = 1 /\ count[c]' = 0) /\ (pc[c]' = "open" => ~TooDeep(count[c])')
    BY DEF SearchIs, TooDeep
  <2>6. pc[c]' \in Busy /\ which[c]' = 2 => Keys(c)'[1] \notin DOMAIN world.opts'
    BY <1>2 DEF SearchIs
  <2>7. pc[c]' \in {"write", "writing"} => Moves(seen[c])'
    <3>1. pc[c]' \in {"write", "writing"} => Moves(s)
      BY <1>1
    <3> QED BY <1>3, <1>6, <3>1 DEF Moves, Behind
  <2> QED BY <2>4, <2>5, <2>6, <2>7 DEF SearchIs
<1>8. ASSUME pc[c]' \in Busy, Alone(c)', NEW x \in {Key(c)'}
      PROVE  /\ \A l \in Touched(c)' : l # x => Value(l)' = Original(l)'
             /\ pc[c]' \in Working => seen[c]' = Value(x)'
             /\ \A v \in {Original(x)'} : ~Moves(Followed(v)[Many])' =>
                   /\ count[c]' \in 0..Many'
                   /\ Value(x)' = Followed(v)'[count[c]']
                   /\ \A i \in 0..count[c]' - 1 : Moves(Followed(v)[i])'
  <2>1. x = k /\ pc[c] \in Busy /\ Alone(c)
    BY <1>3, <1>8, WorldStays
  <2>2. k \in Touched(c)
    <3>1. which[c] \in {1, 2}
      BY DEF ContextTypeOK
    <3> QED BY <1>1, <3>1, KeyFacts DEF Key
  <2>3. \A l \in Touched(c) : Value(l)' = Value(l)
    BY <2>1
  <2>4. PICK v, f, n, m : v = Original(k) /\ f = Followed(v) /\ n = count[c] /\ m = Many
    OBVIOUS
  <2>5. v = Original(k)' /\ f = Followed(v)' /\ n = count[c]' /\ m = Many'
    BY <2>4, WorldStays
  <2>6. /\ \A l \in Touched(c) : l # k => Value(l) = Original(l)
        /\ pc[c] \in Working => s = Value(k)
        /\ ~Moves(f[m]) =>
             /\ n \in 0..m /\ Value(k) = f[n]
             /\ \A i \in 0..n - 1 : Moves(f[i])
    BY <1>1, <2>1, <2>4 DEF CountIs
  <2>7. \A l \in Touched(c)' : l # x => Value(l)' = Original(l)'
    BY <1>4, <2>1, <2>3, <2>6, WorldStays
  <2>8. pc[c]' \in Working => seen[c]' = Value(x)'
    <3>1. pc[c]' \in Working => s = Value(k)'
      BY <2>2, <2>3, <2>6
    <3> QED BY <1>3, <2>1, <3>1
  <2>9. \A y : Moves(y)' = Moves(y)
    BY WorldStays
  <2>10. ASSUME NEW w \in {Original(x)'}, ~Moves(Followed(w)[Many])'
         PROVE  /\ count[c]' \in 0..Many'
                /\ Value(x)' = Followed(w)'[count[c]']
                /\ \A i \in 0..count[c]' - 1 : Moves(Followed(w)[i])'
    <3>1. w = v /\ Followed(w)' = f
      BY <2>1, <2>5, <2>10
    <3>2. ~Moves(f[m])
      <4>1. PICK y : y = f[m]
        OBVIOUS
      <4>2. y = Followed(w)'[Many']
        BY <2>5, <3>1, <4>1
      <4>3. ~Moves(y)'
        BY <2>10, <4>2 DEF Moves, Behind
      <4> QED BY <2>9, <4>1, <4>3
    <3>3. n \in 0..m /\ Value(k)' = f[n] /\ \A i \in 0..n - 1 : Moves(f[i])
      BY <2>2, <2>3, <2>6, <3>2
    <3>4. ASSUME NEW i \in 0..n - 1 PROVE Moves(Followed(w)[i])'
      <4>1. PICK y : y = f[i]
        OBVIOUS
      <4>2. y = Followed(w)'[i] /\ Moves(y)'
        BY <2>9, <3>1, <3>3, <4>1
      <4> QED BY <4>2 DEF Moves, Behind
    <3> QED BY <2>1, <2>5, <3>1, <3>3, <3>4
  <2> QED BY <2>7, <2>8, <2>10
<1>9. CountIs(c)'
  BY <1>8 DEF CountIs
<1> QED BY <1>7, <1>9

LEMMA OptionsStay ==
    ASSUME OptionsAreOnTheWay, world' = world, opts' = opts
    PROVE  OptionsAreOnTheWay' /\ \A k : Value(k)' = Value(k)
<1>1. \A k : Value(k)' = Value(k)
  BY DEF Value, OptionAt
<1>2. ASSUME NEW k \in DOMAIN world.opts' PROVE OnChain(Original(k), Value(k))'
  <2>1. PICK o, v : o = Original(k) /\ v = Value(k)
    OBVIOUS
  <2>2. o = Original(k)' /\ v = Value(k)'
    BY <1>1, <2>1, WorldStays
  <2>3. OnChain(o, v)
    BY <2>1 DEF OptionsAreOnTheWay
  <2>4. OnChain(o, v)'
    BY <2>3, WorldStays
  <2> QED BY <2>2, <2>4 DEF OnChain
<1> QED BY <1>1, <1>2 DEF OptionsAreOnTheWay

\* Old answers stay right, new ones have to be.
LEMMA AnswersStay ==
    ASSUME FollowsThePolicies, world' = world,
           \A d \in Caller : answer'[d] = answer[d] \/ (Asks(d) => Right(d, answer'[d]))
    PROVE  FollowsThePolicies'
<1>1. \A d \in Caller : Answered(d) /\ Asks(d) => Right(d, answer[d])
  BY RightAnswers
<1>2. ASSUME NEW d \in Caller', Answered(d)', Asks(d)' PROVE Right(d, answer[d])'
  <2>1. d \in Caller /\ Asks(d)
    BY <1>2, WorldStays
  <2>2. PICK b : b = answer'[d]
    OBVIOUS
  <2>3. Right(d, b)
    BY <1>1, <1>2, <2>1, <2>2 DEF Answered
  <2>4. Right(d, b)'
    BY <2>3, RightStays
  <2> QED BY <2>2, <2>4 DEF Right, Unusable
<1>3. (FollowsThePolicies <=> \A c \in Caller : Answered(c) /\ Asks(c) => Right(c, answer[c]))'
  BY RightAnswers, PTL
<1> QED BY <1>2, <1>3

LEMMA AnswerKeeps ==
    ASSUME ContextInv, NEW c \in Caller, NEW a, pc[c] \in {"ask", "lookup", "open"},
           Answer(c, a), Asks(c) => Right(c, a)
    PROVE  ContextInv'
<1>1. /\ answer' = [answer EXCEPT ![c] = a]
      /\ world' = world /\ opts' = opts /\ which' = which /\ count' = count /\ seen' = seen
      /\ recorded' = recorded /\ sent' = sent /\ once' = once
  BY DEF Answer, search, local
<1>2. PICK w \in {"dispatch", "done"} : pc' = [pc EXCEPT ![c] = w]
  BY DEF Answer, Goto
<1>3. ContextTypeOK /\ Caller' = Caller
  BY <1>1, WorldStays DEF ContextInv
<1>4. ContextTypeOK'
  BY <1>1, <1>2, <1>3 DEF ContextTypeOK
<1>5. \A d \in Caller : pc'[d] = IF d = c THEN w ELSE pc[d]
  BY <1>2, <1>3 DEF ContextTypeOK
<1>6. Sending'
  <2>1. Sending /\ ~once[c]
    BY DEF ContextInv, Sending
  <2> QED BY <1>1, <1>3, <1>5, <2>1 DEF Sending
<1>7. OptionsAreOnTheWay' /\ \A k : Value(k)' = Value(k)
  BY <1>1, OptionsStay DEF ContextInv
<1>8. ASSUME NEW d \in Caller PROVE SearchIs(d)' /\ CountIs(d)'
  <2>1. SearchIs(d) /\ CountIs(d)
    BY DEF ContextInv
  <2>2. pc'[d] = pc[d] \/ pc'[d] \in {"dispatch", "done"}
    BY <1>2, <1>5
  <2>3. pc'[d] \in {"write", "writing"} => Moves(seen[d])
    BY <2>1, <2>2 DEF SearchIs
  <2>4. /\ pc'[d] \in Busy => pc[d] \in Busy
        /\ pc'[d] \in Working => pc[d] \in Working
        /\ pc'[d] = "open" => pc[d] = "open"
        /\ pc'[d] = "ask" => pc[d] = "ask"
    BY <2>2 DEF Busy, Working
  <2> QED BY <1>1, <1>3, <1>7, <2>1, <2>3, <2>4, CallerStays
<1>9. FollowsThePolicies'
  <2>1. \A d \in Caller : answer'[d] = answer[d] \/ (Asks(d) => Right(d, answer'[d]))
    BY <1>1, <1>3 DEF ContextTypeOK
  <2> QED BY <1>1, <2>1, AnswersStay DEF ContextInv
<1> QED BY <1>3, <1>4, <1>6, <1>7, <1>8, <1>9 DEF ContextInv

\* Steps that do not touch the options, and bring a caller on its way.
LEMMA WayKeeps ==
    ASSUME ContextInv, NEW c \in Caller, NEW w,
           pc' = [pc EXCEPT ![c] = w],
           world' = world, opts' = opts, which' = which, count' = count, seen' = seen, answer' = answer,
           recorded' = recorded, sent' = sent, once' = once,
           \/ pc[c] = "ask" /\ w = "lookup"
           \/ pc[c] = "open" /\ w = "write" /\ Moves(seen[c])
           \/ pc[c] = "write" /\ w = "writing"
           \/ pc[c] = "dispatch" /\ w = "marshal"
    PROVE  ContextInv'
<1>3. ContextTypeOK /\ Caller' = Caller
  BY WorldStays DEF ContextInv
<1>4. ContextTypeOK'
  <2>1. w \in Busy \cup {"dispatch", "marshal", "done"}
    BY DEF Busy, Working
  <2> QED BY <1>3, <2>1 DEF ContextTypeOK
<1>5. \A d \in Caller : pc'[d] = IF d = c THEN w ELSE pc[d]
  BY <1>3 DEF ContextTypeOK
<1>6. Sending'
  <2>1. Sending /\ ~once[c]
    BY DEF ContextInv, Sending
  <2> QED BY <1>3, <1>5, <2>1 DEF Sending
<1>7. OptionsAreOnTheWay' /\ \A k : Value(k)' = Value(k)
  BY OptionsStay DEF ContextInv
<1>8. ASSUME NEW d \in Caller PROVE SearchIs(d)' /\ CountIs(d)'
  <2>1. SearchIs(d) /\ CountIs(d)
    BY DEF ContextInv
  <2>2. pc'[d] \in {"write", "writing"} => Moves(seen[d])
    BY <1>5, <2>1 DEF SearchIs
  <2>3. /\ pc'[d] \in Busy => pc[d] \in Busy
        /\ pc'[d] \in Working => pc[d] \in Working
        /\ pc'[d] = "open" => pc[d] = "open"
        /\ pc'[d] = "ask" => pc[d] = "ask"
    BY <1>5 DEF Busy, Working
  <2> QED BY <1>3, <1>7, <2>1, <2>2, <2>3, CallerStays
<1>9. FollowsThePolicies'
  BY AnswersStay DEF ContextInv
<1> QED BY <1>3, <1>4, <1>6, <1>7, <1>8, <1>9 DEF ContextInv

\* Steps that come after the answer.
LEMMA DoneKeeps ==
    ASSUME ContextInv, NEW c \in Caller, NEW w \in {"dispatch", "marshal", "done"}, pc[c] \in {"dispatch", "marshal"},
           pc' = [pc EXCEPT ![c] = w],
           world' = world, opts' = opts, which' = which, count' = count, seen' = seen, answer' = answer,
           DOMAIN sent' = Caller, DOMAIN recorded' = Caller, once' \in [Caller -> BOOLEAN],
           Sending'
    PROVE  ContextInv'
<1>3. ContextTypeOK /\ Caller' = Caller
  BY WorldStays DEF ContextInv
<1>4. ContextTypeOK'
  BY <1>3 DEF ContextTypeOK
<1>5. \A d \in Caller : pc'[d] = IF d = c THEN w ELSE pc[d]
  BY <1>3 DEF ContextTypeOK
<1>7. OptionsAreOnTheWay' /\ \A k : Value(k)' = Value(k)
  BY OptionsStay DEF ContextInv
<1>8. ASSUME NEW d \in Caller PROVE SearchIs(d)' /\ CountIs(d)'
  <2>1. SearchIs(d) /\ CountIs(d)
    BY DEF ContextInv
  <2>2. pc'[d] \in {"write", "writing"} => Moves(seen[d])
    BY <1>5, <2>1 DEF SearchIs
  <2>3. /\ pc'[d] \in Busy => pc[d] \in Busy
        /\ pc'[d] \in Working => pc[d] \in Working
        /\ pc'[d] = "open" => pc[d] = "open"
        /\ pc'[d] = "ask" => pc[d] = "ask"
    BY <1>5 DEF Busy, Working
  <2> QED BY <1>3, <1>7, <2>1, <2>2, <2>3, CallerStays
<1>9. FollowsThePolicies'
  BY AnswersStay DEF ContextInv
<1> QED BY <1>3, <1>4, <1>7, <1>8, <1>9 DEF ContextInv

LEMMA AskKeeps == ASSUME ContextInv, NEW c \in Caller, Ask(c) PROVE ContextInv'
<1>1. CASE world.calls[c].name \in {"scratch", "context"} \/ world.calls[c].name \in world.invalid
  <2>1. ~Asks(c)
    BY <1>1 DEF Asks
  <2>2. PICK a : Answer(c, a)
    BY <1>1 DEF Ask
  <2> QED BY <2>1, <2>2, AnswerKeeps DEF Ask, At
<1>2. CASE ~(world.calls[c].name \in {"scratch", "context"} \/ world.calls[c].name \in world.invalid)
  <2>1. /\ pc' = [pc EXCEPT ![c] = "lookup"] /\ pc[c] = "ask"
        /\ UNCHANGED <<world, opts, which, count, seen, answer, recorded, sent, once>>
    BY <1>2 DEF Ask, At, Goto, search, local
  <2> QED BY <2>1, WayKeeps
<1> QED BY <1>1, <1>2

\* The second key, if there is no option under the first.
LEMMA SecondKeyKeeps ==
    ASSUME ContextInv, NEW c \in Caller, pc[c] = "lookup", which[c] = 1, Key(c) \notin DOMAIN world.opts,
           which' = [which EXCEPT ![c] = 2], count' = [count EXCEPT ![c] = 0],
           UNCHANGED <<world, opts, pc, seen, answer, recorded, sent, once>>
    PROVE  ContextInv'
<1>1. ContextTypeOK /\ Caller' = Caller
  BY WorldStays DEF ContextInv
<1>2. ContextTypeOK'
  BY <1>1 DEF ContextTypeOK
<1>3. Sending'
  BY <1>1 DEF ContextInv, Sending
<1>4. OptionsAreOnTheWay' /\ \A k : Value(k)' = Value(k)
  BY OptionsStay DEF ContextInv
<1>5. \A d \in Caller : d # c => which'[d] = which[d] /\ count'[d] = count[d]
  BY <1>1 DEF ContextTypeOK
<1>6. which'[c] = 2 /\ count'[c] = 0
  BY <1>1 DEF ContextTypeOK
<1>7. ASSUME NEW d \in Caller, d # c PROVE SearchIs(d)' /\ CountIs(d)'
  <2>1. SearchIs(d) /\ CountIs(d)
    BY DEF ContextInv
  <2>2. pc'[d] \in {"write", "writing"} => Moves(seen[d])
    BY <2>1 DEF SearchIs
  <2> QED BY <1>1, <1>4, <1>5, <1>7, <2>1, <2>2, CallerStays
<1>8. PICK k1, k2 : k1 = Keys(c)[1] /\ k2 = Keys(c)[2]
  OBVIOUS
<1>9. k1 = Keys(c)'[1] /\ k2 = Keys(c)'[2]
  BY <1>8, WorldStays
<1>10. k1 \notin DOMAIN world.opts
  BY <1>8 DEF Key
<1>11. SearchIs(c)'
  BY <1>6, <1>9, <1>10 DEF SearchIs, Working
<1>12. CountIs(c)'
  <2> SUFFICES ASSUME Alone(c)', NEW x \in {Key(c)'}
               PROVE  /\ \A l \in Touched(c)' : l # x => Value(l)' = Original(l)'
                      /\ \A v \in {Original(x)'} : ~Moves(Followed(v)[Many])' =>
                            /\ count[c]' \in 0..Many'
                            /\ Value(x)' = Followed(v)'[count[c]']
                            /\ \A i \in 0..count[c]' - 1 : Moves(Followed(v)[i])'
    BY DEF CountIs, Working
  <2>1. Alone(c) /\ x = k2
    BY <1>6, <1>9, WorldStays DEF Key
  <2>2. k1 = Key(c) /\ Touched(c) = {k1, k2}
    BY <1>8, KeyFacts DEF Key
  <2>3. Value(k1) = Original(k1)
    BY <1>1, <1>10, OptionFacts
  <2>4. k2 # k1 => Value(k2) = Original(k2)
    BY <2>1, <2>2 DEF ContextInv, CountIs, Busy
  <2>5. Value(k2) = Original(k2)
    BY <2>3, <2>4
  <2>6. \A l : Value(l)' = Value(l) /\ Original(l)' = Original(l)
    BY <1>4, WorldStays
  <2>7. \A l \in Touched(c)' : l # x => Value(l)' = Original(l)'
    <3>1. Touched(c)' = {k1, k2}
      BY <2>2, WorldStays
    <3> QED BY <2>3, <2>5, <2>6, <3>1
  <2>8. ASSUME NEW v \in {Original(x)'}
        PROVE  /\ count[c]' \in 0..Many'
               /\ Value(x)' = Followed(v)'[count[c]']
               /\ \A i \in 0..count[c]' - 1 : Moves(Followed(v)[i])'
    <3>1. v = Value(k2) /\ v = Value(x)'
      BY <2>1, <2>5, <2>6, <2>8
    <3>2. Followed(v)[0] = v /\ Many \in Nat
      BY <1>1, FollowedIs, WorldFacts DEF ContextTypeOK
    <3>3. Followed(v)' = Followed(v) /\ Many' = Many
      BY WorldStays
    <3>4. \A i : i \notin 0..0 - 1
      OBVIOUS
    <3> QED BY <1>6, <3>1, <3>2, <3>3, <3>4
  <2> QED BY <2>7, <2>8
<1>13. FollowsThePolicies'
  BY AnswersStay DEF ContextInv
<1> QED BY <1>1, <1>2, <1>3, <1>4, <1>7, <1>11, <1>12, <1>13 DEF ContextInv

\* The option that is found.
LEMMA FoundKeeps ==
    ASSUME ContextInv, NEW c \in Caller, pc[c] = "lookup", ~TooDeep(count[c]), NEW k, k = Key(c), k \in DOMAIN world.opts,
           seen' = [seen EXCEPT ![c] = Value(k)], pc' = [pc EXCEPT ![c] = "open"],
           UNCHANGED <<world, opts, which, count, answer, recorded, sent, once>>
    PROVE  ContextInv'
<1>1. ContextTypeOK /\ Caller' = Caller
  BY WorldStays DEF ContextInv
<1>2. ContextTypeOK'
  <2>1. Value(k) \in Option
    BY <1>1, OptionFacts
  <2>2. "open" \in Busy
    BY DEF Busy, Working
  <2> QED BY <1>1, <2>1, <2>2 DEF ContextTypeOK
<1>3. \A d \in Caller : d # c => pc'[d] = pc[d] /\ seen'[d] = seen[d]
  BY <1>1 DEF ContextTypeOK
<1>4. pc'[c] = "open" /\ seen'[c] = Value(k)
  BY <1>1 DEF ContextTypeOK
<1>5. Sending'
  BY <1>1, <1>3, <1>4 DEF ContextInv, Sending
<1>6. OptionsAreOnTheWay' /\ \A l : Value(l)' = Value(l)
  BY OptionsStay DEF ContextInv
<1>7. ASSUME NEW d \in Caller, d # c PROVE SearchIs(d)' /\ CountIs(d)'
  <2>1. SearchIs(d) /\ CountIs(d)
    BY DEF ContextInv
  <2>2. pc'[d] \in {"write", "writing"} => Moves(seen[d])
    BY <1>3, <1>7, <2>1 DEF SearchIs
  <2> QED BY <1>1, <1>3, <1>6, <1>7, <2>1, <2>2, CallerStays
<1>8. k = Key(c)'
  BY WorldStays DEF Key
<1>9. SearchIs(c)'
  <2>1. OnChain(Original(k), Value(k))
    BY DEF ContextInv, OptionsAreOnTheWay
  <2>2. PICK o, v : o = Original(k) /\ v = Value(k)
    OBVIOUS
  <2>3. o = Original(k)' /\ v = seen[c]' /\ OnChain(o, v)'
    BY <1>4, <2>1, <2>2, WorldStays
  <2>4. OnChain(Original(k), seen[c])'
    BY <2>3 DEF OnChain
  <2>5. which[c] = 2 => Keys(c)[1] \notin DOMAIN world.opts
    BY DEF ContextInv, SearchIs, Busy
  <2>6. Keys(c)' = Keys(c)
    BY WorldStays
  <2> QED BY <1>4, <1>8, <2>4, <2>5, <2>6 DEF SearchIs, TooDeep
<1>10. CountIs(c)'
  <2> SUFFICES ASSUME Alone(c)', NEW x \in {Key(c)'}
               PROVE  /\ \A l \in Touched(c)' : l # x => Value(l)' = Original(l)'
                      /\ seen[c]' = Value(x)'
                      /\ \A v \in {Original(x)'} : ~Moves(Followed(v)[Many])' =>
                            /\ count[c]' \in 0..Many'
                            /\ Value(x)' = Followed(v)'[count[c]']
                            /\ \A i \in 0..count[c]' - 1 : Moves(Followed(v)[i])'
    BY DEF CountIs
  <2>1. Alone(c) /\ x = k
    BY <1>8, WorldStays
  <2>2. PICK v, f, n, m : v = Original(k) /\ f = Followed(v) /\ n = count[c] /\ m = Many
    OBVIOUS
  <2>3. v = Original(k)' /\ f = Followed(v)' /\ n = count[c]' /\ m = Many'
    BY <2>2, WorldStays
  <2>4. /\ \A l \in Touched(c) : l # k => Value(l) = Original(l)
        /\ ~Moves(f[m]) =>
             /\ n \in 0..m /\ Value(k) = f[n]
             /\ \A i \in 0..n - 1 : Moves(f[i])
    BY <2>1, <2>2 DEF ContextInv, CountIs, Busy
  <2>5. \A l \in Touched(c)' : l # x => Value(l)' = Original(l)'
    BY <1>6, <2>1, <2>4, WorldStays
  <2>6. \A y : Moves(y)' = Moves(y)
    BY WorldStays
  <2>7. ASSUME NEW w \in {Original(x)'}, ~Moves(Followed(w)[Many])'
        PROVE  /\ count[c]' \in 0..Many'
               /\ Value(x)' = Followed(w)'[count[c]']
               /\ \A i \in 0..count[c]' - 1 : Moves(Followed(w)[i])'
    <3>1. w = v /\ Followed(w)' = f
      BY <2>1, <2>3, <2>7
    <3>2. ~Moves(f[m])
      <4>1. PICK y : y = f[m]
        OBVIOUS
      <4>2. y = Followed(w)'[Many']
        BY <2>3, <3>1, <4>1
      <4>3. ~Moves(y)'
        BY <2>7, <4>2 DEF Moves, Behind
      <4> QED BY <2>6, <4>1, <4>3
    <3>3. n \in 0..m /\ Value(k)' = f[n] /\ \A i \in 0..n - 1 : Moves(f[i])
      BY <1>6, <2>4, <3>2
    <3>4. ASSUME NEW i \in 0..n - 1 PROVE Moves(Followed(w)[i])'
      <4>1. PICK y : y = f[i]
        OBVIOUS
      <4>2. y = Followed(w)'[i] /\ Moves(y)'
        BY <2>6, <3>1, <3>3, <4>1
      <4> QED BY <4>2 DEF Moves, Behind
    <3> QED BY <2>1, <2>3, <3>1, <3>3, <3>4
  <2>8. seen[c]' = Value(x)'
    BY <1>4, <1>6, <2>1
  <2> QED BY <2>5, <2>7, <2>8
<1>11. FollowsThePolicies'
  BY AnswersStay DEF ContextInv
<1> QED BY <1>1, <1>2, <1>5, <1>6, <1>7, <1>9, <1>10, <1>11 DEF ContextInv

LEMMA LookupKeeps == ASSUME ContextInv, NEW c \in Caller, Lookup(c) PROVE ContextInv'
<1>1. PICK k : k = Key(c)
  OBVIOUS
<1>2. /\ pc[c] = "lookup" /\ ContextTypeOK /\ which[c] \in {1, 2}
      /\ Value(k) = OptionAt(opts, Keys(c)[which[c]])
      /\ Value(k) = NoOption <=> k \notin DOMAIN world.opts
  BY <1>1, OptionFacts DEF Lookup, At, ContextInv, ContextTypeOK, Key, Value
<1>3. \/ /\ Value(k) = NoOption /\ which[c] = 1
         /\ which' = [which EXCEPT ![c] = 2] /\ count' = [count EXCEPT ![c] = 0]
         /\ UNCHANGED <<world, opts, pc, seen, answer, local, crashed>>
      \/ Value(k) = NoOption /\ which[c] = 2 /\ Answer(c, NoContext)
      \/ Value(k) # NoOption /\ TooDeep(count[c]) /\ Answer(c, LimitError)
      \/ /\ Value(k) # NoOption /\ ~TooDeep(count[c])
         /\ seen' = [seen EXCEPT ![c] = Value(k)]
         /\ Goto(c, "open")
         /\ UNCHANGED <<world, opts, which, count, answer, local, crashed>>
  BY <1>2, Zenon DEF Lookup
<1>4. CASE /\ Value(k) = NoOption /\ which[c] = 1
           /\ which' = [which EXCEPT ![c] = 2] /\ count' = [count EXCEPT ![c] = 0]
           /\ UNCHANGED <<world, opts, pc, seen, answer, local, crashed>>
  BY <1>1, <1>2, <1>4, SecondKeyKeeps DEF local
<1>5. CASE Value(k) = NoOption /\ which[c] = 2 /\ Answer(c, NoContext)
  <2>1. Right(c, NoContext)
    BY <1>1, <1>2, <1>5, RightNone
  <2>2. PICK a : a = NoContext /\ Answer(c, a) /\ Right(c, a)
    BY <1>5, <2>1
  <2> QED BY <1>2, <2>2, AnswerKeeps
<1>6. CASE Value(k) # NoOption /\ TooDeep(count[c]) /\ Answer(c, LimitError)
  <2>1. Right(c, LimitError)
    BY <1>1, <1>2, <1>6, RightLimit
  <2>2. PICK a : a = LimitError /\ Answer(c, a) /\ Right(c, a)
    BY <1>6, <2>1
  <2> QED BY <1>2, <2>2, AnswerKeeps
<1>7. CASE /\ Value(k) # NoOption /\ ~TooDeep(count[c])
           /\ seen' = [seen EXCEPT ![c] = Value(k)]
           /\ Goto(c, "open")
           /\ UNCHANGED <<world, opts, which, count, answer, local, crashed>>
  BY <1>1, <1>2, <1>7, FoundKeeps DEF local, Goto
<1> QED BY <1>3, <1>4, <1>5, <1>6, <1>7

\* What a caller makes of the option that it has found, but for a policy.
LEMMA OpenKeeps ==
    ASSUME ContextInv, NEW c \in Caller,
           \/ Unsupported(c) \/ CallFails(c) \/ OpenScratch(c) \/ ResolveImage(c)
           \/ OpenRemote(c) \/ OpenLocal(c) \/ OpenInput(c)
    PROVE  ContextInv'
<1>1. PICK s : s = seen[c]
  OBVIOUS
<1>2. pc[c] = "open" /\ s.kind \in Kind
  BY <1>1 DEF Unsupported, CallFails, OpenScratch, ResolveImage, OpenRemote, OpenLocal, OpenInput, Opens, At, Kind
<1> DEFINE Fits(a) == /\ a.kind \in {"state", "error"}
                      /\ a.kind = "state" => a.of = s /\ ~Moves(s)
                      /\ a.kind = "error" /\ ~world.faulty => ~Moves(s) /\ Unusable(s)
<1>3. Error.kind = "error" /\ \A v, i : State(v, i).kind = "state" /\ State(v, i).of = v
  BY AnswerKinds
<1>4. ~Moves(s) => \A i : Fits(State(s, i))
  BY <1>3
<1>5. (~Moves(s) /\ Unusable(s)) \/ world.faulty => Fits(Error)
  BY <1>3
<1>6. ~Moves(s) => \A i, x : Fits([State(s, i) EXCEPT !.excludes = x])
  BY AnswerKinds
<1>7. s.kind # "docker-image" \/ s.rest = "scratch" => ~Moves(s)
  BY DEF Moves
<1> HIDE DEF Fits
<1>8. \E a : Answer(c, a) /\ Fits(a)
  <2>1. CASE Unsupported(c)
    <3>1. Answer(c, Error) /\ s.kind \in {"malformed", "other"}
      BY <1>1, <2>1 DEF Unsupported, Opens
    <3>2. Fits(Error)
      BY <1>5, <1>7, <3>1 DEF Unusable
    <3> QED BY <3>1, <3>2
  <2>2. CASE CallFails(c)
    <3>1. Answer(c, Error) /\ world.faulty
      BY <2>2 DEF CallFails
    <3> QED BY <1>5, <3>1
  <2>3. CASE OpenScratch(c)
    <3>1. Answer(c, State(s, FALSE)) /\ s.rest = "scratch"
      BY <1>1, <2>3 DEF OpenScratch
    <3> QED BY <1>4, <1>7, <3>1
  <2>4. CASE ResolveImage(c)
    <3>1. s.kind \in {"docker-image", "oci-layout"} /\ ~Moves(s)
      BY <1>1, <2>4 DEF ResolveImage, Opens
    <3>2. Behind(s).kind = "image" => Answer(c, State(s, TRUE))
      BY <1>1, <2>4 DEF ResolveImage
    <3>3. Behind(s).kind # "image" => Answer(c, Error) /\ Unusable(s)
      BY <1>1, <2>4, <3>1 DEF ResolveImage, Unusable
    <3> QED BY <1>4, <1>5, <3>1, <3>2, <3>3
  <2>5. CASE OpenRemote(c)
    <3>1. s.kind \in {"git", "http"}
      BY <1>1, <2>5 DEF OpenRemote, Opens
    <3>2. s.kind = "git" /\ s.rest = "bad" => Answer(c, Error) /\ Unusable(s)
      BY <1>1, <2>5 DEF OpenRemote, Unusable
    <3>3. ~(s.kind = "git" /\ s.rest = "bad") => Answer(c, State(s, FALSE))
      BY <1>1, <2>5 DEF OpenRemote
    <3> QED BY <1>4, <1>5, <1>7, <3>1, <3>2, <3>3
  <2>6. CASE OpenLocal(c)
    <3>1. s.kind = "local"
      BY <1>1, <2>6 DEF OpenLocal, Opens
    <3>2. \/ s.rest = "badignore" /\ Answer(c, Error)
          \/ \E x : Answer(c, [State(s, FALSE) EXCEPT !.excludes = x])
      BY <1>1, <2>6 DEF OpenLocal
    <3>3. s.rest = "badignore" => Unusable(s)
      BY DEF Unusable
    <3> QED BY <1>5, <1>6, <1>7, <3>1, <3>2, <3>3
  <2>7. CASE OpenInput(c)
    <3>1. s.kind = "input"
      BY <1>1, <2>7 DEF OpenInput, Opens
    <3>2. s.rest \in {"missing", "badmetadata"} => Answer(c, Error) /\ Unusable(s)
      BY <1>1, <2>7 DEF OpenInput, Unusable
    <3>3. s.rest \notin {"missing", "badmetadata"} => \E i : Answer(c, State(s, i))
      <4>1. s.rest \notin {"missing", "badmetadata"} => Answer(c, State(s, s.rest = "described"))
        BY <1>1, <2>7 DEF OpenInput
      <4> QED BY <4>1
    <3> QED BY <1>4, <1>5, <1>7, <3>1, <3>2, <3>3
  <2> QED BY <2>1, <2>2, <2>3, <2>4, <2>5, <2>6, <2>7
<1>9. PICK a : Answer(c, a) /\ Fits(a)
  BY <1>8
<1>10. Right(c, a)
  BY <1>1, <1>2, <1>9, RightEnd DEF Fits
<1> QED BY <1>2, <1>9, <1>10, AnswerKeeps

\* The option is rewritten: each caller of it, and the one that writes.
LEMMA EndWriteKeeps == ASSUME ContextInv, NEW c \in Caller, EndWrite(c) PROVE ContextInv'
<1>1. PICK k, s : k = Key(c) /\ s = seen[c]
  OBVIOUS
<1>2. PICK t : t = Behind(s).to
  OBVIOUS
<1>3. /\ pc[c] = "writing"
      /\ opts' = [opts EXCEPT ![k] = t]
      /\ count' = [count EXCEPT ![c] = count[c] + 1]
      /\ pc' = [pc EXCEPT ![c] = "lookup"]
      /\ UNCHANGED <<world, which, seen, answer, recorded, sent, once>>
  BY <1>1, <1>2 DEF EndWrite, At, Key, Goto, Deeper, local
<1>4. /\ ContextTypeOK /\ Caller' = Caller /\ SearchIs(c) /\ CountIs(c)
      /\ world \in Worlds /\ count[c] \in Nat /\ opts \in [DOMAIN world.opts -> Option]
  BY <1>3, WorldStays DEF ContextInv, ContextTypeOK
<1>5. k \in DOMAIN world.opts /\ OnChain(Original(k), s) /\ Moves(s) /\ s \in Option
  <2>1. pc[c] \in Working /\ pc[c] \in {"write", "writing"}
    BY <1>3 DEF Working
  <2>2. k \in DOMAIN world.opts /\ OnChain(Original(k), s) /\ Moves(s)
    BY <1>1, <1>4, <2>1 DEF SearchIs
  <2>3. s # NoOption
    BY <2>2 DEF Moves, NoOption
  <2> QED BY <1>1, <1>4, <2>2, <2>3 DEF ContextTypeOK
<1>6. t \in Option
  BY <1>2, <1>4, <1>5, AfterType
<1>7. \A d \in Caller : d # c => pc'[d] = pc[d] /\ count'[d] = count[d]
  BY <1>3, <1>4 DEF ContextTypeOK
<1>8. pc'[c] = "lookup" /\ count'[c] = count[c] + 1
  BY <1>3, <1>4 DEF ContextTypeOK
<1>9. ContextTypeOK'
  <2>1. "lookup" \in Busy
    BY DEF Busy
  <2>2. pc' \in [Caller -> Busy \cup {"dispatch", "marshal", "done"}]
    BY <1>3, <1>4, <2>1 DEF ContextTypeOK
  <2>3. opts' \in [DOMAIN world.opts -> Option]
    BY <1>3, <1>4, <1>6
  <2>4. count' \in [Caller -> Nat]
    BY <1>3, <1>4 DEF ContextTypeOK
  <2> QED BY <1>3, <1>4, <2>2, <2>3, <2>4 DEF ContextTypeOK
<1>10. Sending'
  BY <1>3, <1>4, <1>7, <1>8 DEF ContextInv, Sending
<1>11. Value(k)' = t /\ \A l : l # k => Value(l)' = Value(l)
  BY <1>3, <1>4, <1>5 DEF Value, OptionAt
<1>12. OptionsAreOnTheWay'
  <2> SUFFICES ASSUME NEW l \in DOMAIN world.opts' PROVE OnChain(Original(l), Value(l))'
    BY DEF OptionsAreOnTheWay
  <2>1. PICK o, v : o = Original(l) /\ v = IF l = k THEN t ELSE Value(l)
    OBVIOUS
  <2>2. o = Original(l)' /\ v = Value(l)'
    BY <1>3, <1>11, <2>1, WorldStays
  <2>3. OnChain(o, v)
    <3>1. CASE l = k
      BY <1>2, <1>4, <1>5, <2>1, <3>1, ChainGoesOn
    <3>2. CASE l # k
      BY <1>3, <2>1, <3>2 DEF ContextInv, OptionsAreOnTheWay
    <3> QED BY <3>1, <3>2
  <2>4. OnChain(o, v)'
    BY <1>3, <2>3, WorldStays
  <2> QED BY <2>2, <2>4 DEF OnChain
<1>13. k \in Touched(c)
  <2>1. which[c] \in {1, 2}
    BY <1>4 DEF ContextTypeOK
  <2> QED BY <1>1, <2>1, KeyFacts DEF Key
<1>14. ASSUME NEW d \in Caller, d # c PROVE SearchIs(d)' /\ CountIs(d)'
  <2>1. SearchIs(d) /\ CountIs(d)
    BY DEF ContextInv
  <2>2. pc'[d] \in {"write", "writing"} => Moves(seen[d])
    BY <1>7, <1>14, <2>1 DEF SearchIs
  <2>3. Alone(d) => \A l \in Touched(d) : Value(l)' = Value(l)
    <3>1. Alone(d) => k \notin Touched(d)
      BY <1>13, <1>14 DEF Alone
    <3> QED BY <1>11, <3>1
  <2> QED BY <1>3, <1>4, <1>7, <1>14, <2>1, <2>2, <2>3, CallerStays
<1>15. k = Key(c)' /\ Keys(c)' = Keys(c)
  BY <1>1, <1>3, WorldStays DEF Key
<1>16. SearchIs(c)'
  <2>1. which[c] = 2 => Keys(c)[1] \notin DOMAIN world.opts
    BY <1>3, <1>4 DEF SearchIs, Busy, Working
  <2> QED BY <1>3, <1>8, <1>15, <2>1 DEF SearchIs, Working
<1>17. CountIs(c)'
  <2> SUFFICES ASSUME Alone(c)', NEW x \in {Key(c)'}
               PROVE  /\ \A l \in Touched(c)' : l # x => Value(l)' = Original(l)'
                      /\ \A v \in {Original(x)'} : ~Moves(Followed(v)[Many])' =>
                            /\ count[c]' \in 0..Many'
                            /\ Value(x)' = Followed(v)'[count[c]']
                            /\ \A i \in 0..count[c]' - 1 : Moves(Followed(v)[i])'
    BY <1>8 DEF CountIs, Working
  <2>1. Alone(c) /\ x = k
    BY <1>3, <1>15, WorldStays
  <2>2. PICK v, f, n, m : v = Original(k) /\ f = Followed(v) /\ n = count[c] /\ m = Many
    OBVIOUS
  <2>3. v = Original(k)' /\ f = Followed(v)' /\ m = Many' /\ count[c]' = n + 1
    BY <1>3, <1>8, <2>2, WorldStays
  <2>4. /\ \A l \in Touched(c) : l # k => Value(l) = Original(l)
        /\ s = Value(k)
        /\ ~Moves(f[m]) =>
             /\ n \in 0..m /\ Value(k) = f[n]
             /\ \A i \in 0..n - 1 : Moves(f[i])
    BY <1>1, <1>3, <1>4, <2>1, <2>2 DEF CountIs, Busy, Working
  <2>5. \A l \in Touched(c)' : l # x => Value(l)' = Original(l)'
    BY <1>3, <1>11, <2>1, <2>4, WorldStays
  <2>6. \A y : Moves(y)' = Moves(y)
    BY <1>3, WorldStays
  <2>7. m \in Nat /\ \A j \in 1..m : f[j] = After(f[j - 1])
    BY <1>4, <2>2, FollowedIs, WorldFacts
  <2>8. ASSUME ~Moves(f[m])
        PROVE  n + 1 \in 0..m /\ t = f[n + 1] /\ \A i \in 0..(n + 1) - 1 : Moves(f[i])
    <3>1. n \in 0..m /\ s = f[n] /\ \A i \in 0..n - 1 : Moves(f[i])
      BY <2>4, <2>8
    <3>2. n # m
      BY <1>5, <2>8, <3>1
    <3>3. n + 1 \in 1..m /\ (n + 1) - 1 = n /\ n \in Nat
      BY <2>7, <3>1, <3>2
    <3>4. f[n + 1] = After(f[(n + 1) - 1])
      BY <2>7, <3>3
    <3>5. t = f[n + 1]
      BY <1>2, <1>5, <3>1, <3>3, <3>4 DEF After
    <3>6. \A i \in 0..n : i = n \/ i \in 0..n - 1
      BY <3>3
    <3>7. \A i \in 0..n : Moves(f[i])
      BY <1>5, <3>1, <3>6
    <3> QED BY <2>7, <3>3, <3>5, <3>7
  <2>9. ASSUME NEW w \in {Original(x)'}, ~Moves(Followed(w)[Many])'
        PROVE  /\ count[c]' \in 0..Many'
               /\ Value(x)' = Followed(w)'[count[c]']
               /\ \A i \in 0..count[c]' - 1 : Moves(Followed(w)[i])'
    <3>1. w = v /\ Followed(w)' = f
      BY <2>1, <2>3, <2>9
    <3>2. ~Moves(f[m])
      <4>1. PICK y : y = f[m]
        OBVIOUS
      <4>2. y = Followed(w)'[Many']
        BY <2>3, <3>1, <4>1
      <4>3. ~Moves(y)'
        BY <2>9, <4>2 DEF Moves, Behind
      <4> QED BY <2>6, <4>1, <4>3
    <3>3. n + 1 \in 0..m /\ Value(k)' = f[n + 1] /\ \A i \in 0..(n + 1) - 1 : Moves(f[i])
      BY <1>11, <2>8, <3>2
    <3>4. ASSUME NEW i \in 0..(n + 1) - 1 PROVE Moves(Followed(w)[i])'
      <4>1. PICK y : y = f[i]
        OBVIOUS
      <4>2. y = Followed(w)'[i] /\ Moves(y)'
        BY <2>6, <3>1, <3>3, <4>1
      <4> QED BY <4>2 DEF Moves, Behind
    <3> QED BY <2>1, <2>3, <3>1, <3>3, <3>4
  <2> QED BY <2>5, <2>9
<1>18. FollowsThePolicies'
  BY <1>3, AnswersStay DEF ContextInv
<1> QED BY <1>4, <1>9, <1>10, <1>12, <1>14, <1>16, <1>17, <1>18 DEF ContextInv

\* What is recorded is sent; nothing is recorded once it is fixed.
LEMMA LocalKeeps ==
    ASSUME ContextInv, NEW c \in Caller,
           (\E p \in Path : Record(c, p)) \/ UseOutput(c)
    PROVE  ContextInv'
<1>1. ContextTypeOK /\ Sending
  BY DEF ContextInv
<1>2. CASE \E p \in Path : Record(c, p)
  <2>1. PICK p \in Path : Record(c, p)
    BY <1>2
  <2>2. /\ pc[c] = "dispatch"
        /\ recorded' = [recorded EXCEPT ![c] = recorded[c] \cup {p}]
        /\ UNCHANGED <<world, opts, pc, which, count, seen, answer, sent, once>>
    BY <2>1 DEF Record, At, search
  <2>3. Caller' = Caller
    BY <2>2, WorldStays
  <2>4. pc' = [pc EXCEPT ![c] = "dispatch"]
    BY <1>1, <2>2 DEF ContextTypeOK
  <2>5. DOMAIN sent' = Caller /\ DOMAIN recorded' = Caller /\ once' \in [Caller -> BOOLEAN]
    BY <1>1, <2>2 DEF ContextTypeOK
  <2>6. Sending'
    <3>1. \A d \in Caller : d # c => recorded'[d] = recorded[d]
      BY <1>1, <2>2 DEF ContextTypeOK
    <3>2. ~once[c]
      BY <1>1, <2>2 DEF Sending
    <3> QED BY <1>1, <2>2, <2>3, <3>1, <3>2 DEF Sending
  <2> QED BY <2>2, <2>4, <2>5, <2>6, DoneKeeps
<1>3. CASE UseOutput(c)
  <2> DEFINE w == IF once[c] THEN "done" ELSE "marshal"
  <2>1. /\ pc[c] = "marshal"
        /\ sent' = [sent EXCEPT ![c] = IF once[c] THEN sent[c] ELSE recorded[c]]
        /\ once' = [once EXCEPT ![c] = TRUE]
        /\ pc' = [pc EXCEPT ![c] = w]
        /\ UNCHANGED <<world, opts, which, count, seen, answer, recorded>>
    BY <1>3 DEF UseOutput, At, Goto, search
  <2>2. Caller' = Caller
    BY <2>1, WorldStays
  <2>3. PICK u \in {"dispatch", "marshal", "done"} : u = w /\ pc' = [pc EXCEPT ![c] = u]
    BY <2>1
  <2>4. DOMAIN sent' = Caller /\ DOMAIN recorded' = Caller /\ once' \in [Caller -> BOOLEAN]
    BY <1>1, <2>1 DEF ContextTypeOK
  <2>5. Sending'
    <3>1. ASSUME NEW d \in Caller, once'[d] PROVE pc'[d] \in {"marshal", "done"} /\ sent'[d] = recorded'[d]
      <4>1. CASE d = c
        <5>1. pc'[c] = w /\ sent'[c] = IF once[c] THEN sent[c] ELSE recorded[c]
          BY <1>1, <2>1 DEF ContextTypeOK
        <5>2. once[c] => sent[c] = recorded[c]
          BY <1>1 DEF Sending
        <5> QED BY <2>1, <4>1, <5>1, <5>2
      <4>2. CASE d # c
        <5>1. once[d] /\ pc'[d] = pc[d] /\ sent'[d] = sent[d]
          BY <1>1, <2>1, <3>1, <4>2 DEF ContextTypeOK
        <5> QED BY <1>1, <2>1, <5>1 DEF Sending
      <4> QED BY <4>1, <4>2
    <3> QED BY <2>2, <3>1 DEF Sending
  <2> HIDE DEF w
  <2> QED BY <2>1, <2>3, <2>4, <2>5, DoneKeeps
<1> QED BY <1>2, <1>3

LEMMA InitContextInv == ContextInit => ContextInv
<1> SUFFICES ASSUME ContextInit PROVE ContextInv
  OBVIOUS
<1>1. /\ world \in Worlds /\ opts = world.opts
      /\ \A c \in Caller : /\ pc[c] = "ask" /\ which[c] = 1 /\ count[c] = 0 /\ seen[c] = NoOption
                           /\ answer[c] = NoAnswer /\ ~once[c]
  BY DEF ContextInit
<1>2. ContextTypeOK
  <2>1. opts \in [DOMAIN world.opts -> Option]
    BY <1>1, WorldsAssumption
  <2>2. "ask" \in Busy
    BY DEF Busy
  <2>3. pc \in [Caller -> Busy \cup {"dispatch", "marshal", "done"}]
    BY <2>2 DEF ContextInit
  <2> QED BY <1>1, <2>1, <2>3 DEF ContextInit, ContextTypeOK
<1>3. Sending
  BY <1>1 DEF Sending
<1>4. \A k : Value(k) = Original(k)
  BY <1>1 DEF Value, Original
<1>5. OptionsAreOnTheWay
  BY <1>1, <1>4, ChainBegins DEF OptionsAreOnTheWay
<1>6. ASSUME NEW c \in Caller PROVE SearchIs(c) /\ CountIs(c)
  <2>1. SearchIs(c)
    BY <1>1, <1>6 DEF SearchIs, Working
  <2>2. \A v : Followed(v)[0] = v /\ 0 \in 0..Many
    BY <1>1, FollowedIs, WorldFacts
  <2>3. \A i : i \notin 0..0 - 1
    OBVIOUS
  <2>4. CountIs(c)
    BY <1>1, <1>4, <1>6, <2>2, <2>3 DEF CountIs, Working
  <2> QED BY <2>1, <2>4
<1>7. FollowsThePolicies
  BY <1>1, RightAnswers DEF Answered
<1> QED BY <1>2, <1>3, <1>5, <1>6, <1>7 DEF ContextInv

LEMMA ContextNextInv == ContextInv /\ [ContextNext]_contextVars => ContextInv'
<1> SUFFICES ASSUME ContextInv, [ContextNext]_contextVars PROVE ContextInv'
  OBVIOUS
<1>1. ASSUME UNCHANGED <<world, opts, pc, which, count, seen, answer, recorded, sent, once>> PROVE ContextInv'
  <2>1. ContextTypeOK /\ Caller' = Caller
    BY <1>1, WorldStays DEF ContextInv
  <2>2. ContextTypeOK'
    BY <1>1, <2>1 DEF ContextTypeOK
  <2>3. Sending'
    BY <1>1, <2>1 DEF ContextInv, Sending
  <2>4. OptionsAreOnTheWay' /\ \A k : Value(k)' = Value(k)
    BY <1>1, OptionsStay DEF ContextInv
  <2>5. ASSUME NEW d \in Caller PROVE SearchIs(d)' /\ CountIs(d)'
    <3>1. SearchIs(d) /\ CountIs(d)
      BY DEF ContextInv
    <3>2. pc'[d] \in {"write", "writing"} => Moves(seen[d])
      BY <1>1, <3>1 DEF SearchIs
    <3> QED BY <1>1, <2>1, <2>4, <3>1, <3>2, CallerStays
  <2>6. FollowsThePolicies'
    BY <1>1, AnswersStay DEF ContextInv
  <2> QED BY <2>1, <2>2, <2>3, <2>4, <2>5, <2>6 DEF ContextInv
<1>2. CASE UNCHANGED contextVars
  BY <1>1, <1>2 DEF contextVars, search, local
<1>3. ASSUME NEW c \in Caller, RaceDetected(c) PROVE ContextInv'
  BY <1>1, <1>3 DEF RaceDetected, search, local
<1>4. ASSUME NEW c \in Caller, \E p \in Path : Record(c, p) PROVE ContextInv'
  BY <1>4, LocalKeeps
<1>5. ASSUME NEW c \in Caller, Step(c) PROVE ContextInv'
  <2>1. CASE Ask(c)
    BY <2>1, AskKeeps
  <2>2. CASE Lookup(c)
    BY <2>2, LookupKeeps
  <2>3. CASE \/ Unsupported(c) \/ CallFails(c) \/ OpenScratch(c) \/ ResolveImage(c)
             \/ OpenRemote(c) \/ OpenLocal(c) \/ OpenInput(c)
    BY <2>3, OpenKeeps
  <2>4. CASE ResolveToNonImage(c)
    <3>1. /\ pc[c] = "open" /\ Moves(seen[c]) /\ pc' = [pc EXCEPT ![c] = "write"]
          /\ UNCHANGED <<world, opts, which, count, seen, answer, recorded, sent, once>>
      BY <2>4 DEF ResolveToNonImage, Opens, At, Goto, search, local
    <3> QED BY <3>1, WayKeeps
  <2>5. CASE BeginWrite(c)
    <3>1. /\ pc[c] = "write" /\ pc' = [pc EXCEPT ![c] = "writing"]
          /\ UNCHANGED <<world, opts, which, count, seen, answer, recorded, sent, once>>
      BY <2>5 DEF BeginWrite, At, Goto, search, local
    <3> QED BY <3>1, WayKeeps
  <2>6. CASE EndWrite(c)
    BY <2>6, EndWriteKeeps
  <2>7. CASE Marshal(c)
    <3>1. /\ pc[c] = "dispatch" /\ pc' = [pc EXCEPT ![c] = "marshal"]
          /\ UNCHANGED <<world, opts, which, count, seen, answer, recorded, sent, once>>
      BY <2>7 DEF Marshal, At, Goto, search, local
    <3> QED BY <3>1, WayKeeps
  <2>8. CASE UseOutput(c)
    BY <2>8, LocalKeeps
  <2> QED BY <1>5, <2>1, <2>2, <2>3, <2>4, <2>5, <2>6, <2>7, <2>8 DEF Step
<1> QED BY <1>2, <1>3, <1>4, <1>5 DEF ContextNext

LEMMA ContextInvariant == ContextSpec => []ContextInv
BY InitContextInv, ContextNextInv, PTL DEF ContextSpec

\* Each caller gets the context at the end of the policies that start at the
\* option the user has given for it, or none if there is none; and is refused
\* for the depth exactly when the policies are too many or a circle.
THEOREM FollowsThePoliciesHolds == ContextSpec => []FollowsThePolicies
<1>1. ContextInv => FollowsThePolicies
  BY DEF ContextInv
<1> QED BY <1>1, ContextInvariant, PTL

\* A local context is narrowed to all that its recipe reads, however late.
THEOREM SendsWhatIsReadHolds == ContextSpec => []SendsWhatIsRead
<1>1. ContextInv => SendsWhatIsRead
  BY DEF ContextInv, Sending, SendsWhatIsRead
<1> QED BY <1>1, ContextInvariant, PTL
=============================================================================
