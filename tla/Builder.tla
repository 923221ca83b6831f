------------------------------ MODULE Builder ------------------------------
(***************************************************************************)
(* Build of builder/build.go from the request to the answer: Frontend      *)
(* makes a client of the request and reads the recipe, and PlatformBuild   *)
(* builds what it hands over.  The caller sees what BuildResult promises.  *)
(***************************************************************************)
EXTENDS Naturals, Sequences, FiniteSets

CONSTANTS
    Requests,    \* the requests that may come
    Builds,      \* the builds that they may lead to, with what these will meet
    MaxTargets   \* bound: target platforms of a build

\* Where a recipe may be.
Places == {"context", "recipes", "git", "http", "input"}

ASSUME BuilderAssumption ==
    /\ MaxTargets \in Nat
    /\ \A r \in Requests : \A p \in Places : \A f \in DOMAIN r.files[p] : r.files[p][f] \in {"text", "nil"}
    /\ \A b \in Builds :
          /\ b.targets \in Seq(STRING)
          /\ Len(b.targets) \in 1..MaxTargets
          /\ Len(b.targets) > 1 => b.multi

VARIABLES
    request, phase, options, bctx, recipe, ignore,
    build, answer, pc, config, linter, called, ignored, read, excludes, refs, configs, platforms, failed

Front == INSTANCE Frontend WITH config <- options
Platforms == INSTANCE PlatformBuild

before == <<request, phase, options, bctx, recipe, ignore>>
during == <<build, answer, pc, config, linter, called, ignored, read, excludes, refs, configs, platforms, failed>>
vars == <<before, during>>

Init == Front!Init /\ Platforms!Init

BeforeBuild == Front!Next /\ UNCHANGED during

\* buildkit's Build goes on to bc.Build with what the client holds.
Begin ==
    /\ phase = "build" /\ build = Platforms!Promise!NoBuild
    /\ \E b \in Builds : (\A f \in DOMAIN Front!Handed : b[f] = Front!Handed[f]) /\ Platforms!Begin(b)
    /\ UNCHANGED before

Goroutine(i) == i \in Platforms!Running /\ Platforms!Goroutine(i) /\ UNCHANGED before

Wait == Platforms!Wait /\ UNCHANGED before

Next == BeforeBuild \/ Begin \/ Wait \/ \E i \in Platforms!Running : Goroutine(i)

Spec == Init /\ [][Next]_vars

\* The frontend goes on, every goroutine is scheduled, every call to BuildKit
\* returns.
FairSpec ==
    /\ Spec
    /\ WF_vars(BeforeBuild) /\ WF_vars(Begin) /\ WF_vars(Wait)
    /\ \A i \in 1..MaxTargets : WF_vars(Goroutine(i))

\* What the caller has been told.
Told ==
    IF phase = "failed" THEN [kind |-> "error"]
    ELSE IF phase = "answered" THEN [kind |-> "subrequest"] ELSE answer

Promise == INSTANCE BuildResult WITH answer <- Told

-----------------------------------------------------------------------------
(* Properties *)

\* Build implements its promise: one answer; the caller sees an error or every
\* image under its key and in its slot, whatever the order in which the
\* goroutines come, and whichever fail; a build that must fail does; and what
\* is no request for an image never starts a build.
ImplementsBuildResult ==
    Promise!Spec /\ [][build' # build => request.requestid = ""]_vars

\* Every request is answered, with several platforms as well: the options, the
\* build arguments and their defaults never lead to a build whose platforms
\* share a key, which no goroutine could answer.
Answers == <>(Told # Promise!NoAnswer)

\* The recipe is the file the user means: with a local source of its own it is
\* never read from the context, the name that was given counts, and the
\* lower-case name only in place of a default that is not there.
RecipeIsTheUsers ==
    phase \in {"request", "build", "answered"} =>
        LET name == IF request.context = "http" /\ ~request.archive THEN "context"
                    ELSE IF request.filename = "" THEN Front!Default ELSE request.filename
        IN  /\ request.forced => recipe.place = "recipes"
            /\ ~request.forced => recipe.place = IF request.context # "local" THEN request.context
                                                ELSE IF request.inputs = "context" THEN "input" ELSE "context"
            /\ recipe.file # name =>
                   /\ name = Front!Default /\ recipe.file = Front!Lower
                   /\ Front!Default \notin DOMAIN request.files[recipe.place]

\* A local context is narrowed by the ignore file that belongs to the recipe,
\* if that holds anything and could be read, and by that of the context
\* otherwise; the files of one recipe never narrow the context of another.
IgnoreFileOfTheRecipe ==
    LET own == Front!IgnoreOf(bctx.filename)
        there == own \in DOMAIN request.files[recipe.place] /\ request.files[recipe.place][own] = "text"
    IN  build # Promise!NoBuild =>
            /\ build.ignore = "set" => ignore = [place |-> recipe.place, file |-> own] /\ there
            /\ bctx.context = "none" /\ ~request.faulty /\ there => build.ignore = "set"

\* A platform that does not race with another for the ignore file checks its
\* COPYs and sends its context by the same patterns: those of the file, as
\* long as it can be read.
PatternsAreOfTheFile ==
    \A i \in Platforms!Running :
        pc[i] = "done" /\ i \notin build.faulty /\ ~failed /\ build.ignore # "remote"
        /\ (Len(build.targets) = 1 \/ build.ignore \in {"set", "none"})
            => excludes[i] = IF build.ignore = "none" THEN <<"empty", "empty">> ELSE <<"file", "file">>

\* "there were warnings, and ... our linter has been configured to return an
\* error on warnings, so we appropriately return that error" (convert.go).
StrictBuildsFail == answer.kind = "images" => ~Promise!MustFail(build)
=============================================================================
