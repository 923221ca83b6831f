----------------------------- MODULE CycleCheck -----------------------------
(***************************************************************************)
(* What validateCircularDependency promises (ggufpackerfile2llb/convert.go) *)
(* on the dependency graph of the dispatch states: one verdict, "circular" *)
(* exactly when following `deps` can come back to where it started.        *)
(***************************************************************************)
EXTENDS Naturals

CONSTANTS
    Node,    \* dispatch states
    Graphs   \* the dependency graphs that the caller may hand over

VARIABLES
    deps,    \* deps[s]: the states that the commands of s take sources from
    verdict

Verdict == {"running", "circular", "ok"}

\* A set of nodes in which everybody has a dependency: on a finite graph it
\* exists exactly when there is a cycle, and it needs no path to be spelled out.
Endless(S, d) == S # {} /\ \A s \in S : d[s] \cap S # {}

HasCycle(d) == \E S \in SUBSET Node : Endless(S, d)

Init == deps \in Graphs /\ verdict = "running"

Decide ==
    /\ verdict = "running"
    /\ verdict' = IF HasCycle(deps) THEN "circular" ELSE "ok"
    /\ UNCHANGED deps

Spec == Init /\ [][Decide]_<<deps, verdict>>
=============================================================================
