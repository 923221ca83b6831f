--------------------------- MODULE PlatformBuild ---------------------------
(***************************************************************************)
(* Client.Build of ggufpackerui/build.go with the function that            *)
(* builder/build.go gives it: a goroutine per target platform makes a      *)
(* linter, reads the ignore file if nobody has, converts, solves, and      *)
(* stores its image in the result; the first error cancels the others.     *)
(*                                                                         *)
(* The goroutines share the linter configuration of the client, if it has  *)
(* one, and the bytes of the ignore file.  A slice is written as a pointer *)
(* and a length, in either order, and read in between by whoever runs: the *)
(* code takes no lock.                                                     *)
(*                                                                         *)
(* LoadsAgain, ByArrival and WaitsForAll are wrong variants of the         *)
(* definitions that follow them: the checks show that the properties tell  *)
(* them from the code.                                                     *)
(***************************************************************************)
EXTENDS Naturals, Sequences, FiniteSets

CONSTANT Builds    \* the builds that may be asked for

VARIABLES
    build,      \* the build, with what it will meet
    answer,     \* what Build has returned
    pc,         \* where each goroutine is
    config,     \* Warn of the client's LinterConfig: the platform it is for, 0 if nil
    linter,     \* Warn of the linter of each goroutine
    called,     \* whether that linter has called a rule
    ignored,    \* bc.ggufpackerignore: its pointer and its length
    read,       \* what ReadFile gave a goroutine
    excludes,   \* the patterns each goroutine takes for its conversion and its context
    refs,       \* the refs of the result
    configs,    \* the metadata of the result
    platforms,  \* expPlatforms
    failed      \* the group has an error, and its context is cancelled

shared == <<config, ignored>>
own == <<linter, called, read, excludes>>
result == <<refs, configs, platforms>>
vars == <<build, answer, pc, shared, own, result, failed>>

Promise == INSTANCE BuildResult
Key(b, i) == Promise!Key(b, i)

Running == 1..Len(build.targets)

(***************************************************************************)
(* A build as it is asked for: the platforms (targets) and whether the     *)
(* answer has a key for each (multi); whether the client has no            *)
(* LinterConfig, so that every conversion parses one of its own (own);     *)
(* ReturnAsError (strict); whether the recipe breaks a rule (broken);      *)
(* where the patterns come from (ignore: "set" by ReadEntrypoint, a file   *)
(* of the context that is a "file" or "none", or "remote"); and the        *)
(* goroutines whose solves may fail (faulty).                              *)
(***************************************************************************)
Init ==
    /\ build = Promise!NoBuild
    /\ answer = Promise!NoAnswer
    /\ pc = <<>>
    /\ config = 0
    /\ linter = <<>>
    /\ called = <<>>
    /\ ignored = [pointer |-> "nil", length |-> 0]
    /\ read = <<>>
    /\ excludes = <<>>
    /\ refs = [key \in {} |-> "none"]
    /\ configs = [key \in {} |-> "none"]
    /\ platforms = <<>>
    /\ failed = FALSE

\* Build is called: a goroutine for every platform.
Begin(b) ==
    /\ build = Promise!NoBuild
    /\ build' = b
    /\ pc' = [i \in DOMAIN b.targets |-> "lint"]
    /\ linter' = [i \in DOMAIN b.targets |-> 0]
    /\ called' = [i \in DOMAIN b.targets |-> FALSE]
    /\ ignored' = IF b.ignore = "set" THEN [pointer |-> "file", length |-> 1] ELSE ignored
    /\ read' = [i \in DOMAIN b.targets |-> "nil"]
    /\ excludes' = [i \in DOMAIN b.targets |-> <<"nil", "nil">>]
    /\ refs' = [key \in Promise!Keys(b) |-> "none"]
    /\ configs' = [key \in Promise!Keys(b) |-> "none"]
    /\ platforms' = [i \in DOMAIN b.targets |-> "none"]
    /\ UNCHANGED <<answer, config, failed>>

Step(i, from, to) == pc[i] = from /\ pc' = [pc EXCEPT ![i] = to]

\* The goroutine i ends with an error.  A call fails for a reason of its own
\* or because the context is cancelled.
Abort(i) ==
    /\ pc' = [pc EXCEPT ![i] = "failed"]
    /\ failed' = TRUE
    /\ UNCHANGED <<build, answer, shared, own, result>>

MayFail(i) == failed \/ i \in build.faulty

\* opt.Warn: only the first platform warns.
Warn(i) == IF i = 1 THEN 1 ELSE 0

\* newRuleLinter: Warn is set in the configuration of the client, or in one of its own...
SetWarn(i) ==
    /\ IF build.own
       THEN Step(i, "lint", "rules") /\ linter' = [linter EXCEPT ![i] = Warn(i)] /\ config' = config
       ELSE Step(i, "lint", "new") /\ config' = Warn(i) /\ linter' = linter
    /\ UNCHANGED <<build, answer, ignored, called, read, excludes, result, failed>>

\* ... and linter.New copies it from there.
NewLinter(i) ==
    /\ Step(i, "new", "rules")
    /\ linter' = [linter EXCEPT ![i] = config]
    /\ UNCHANGED <<build, answer, shared, called, read, excludes, result, failed>>

\* Linter.Run: without a Warn no rule counts as called.
RunRules(i) ==
    /\ Step(i, "rules", IF build.ignore = "remote" THEN "verdict" ELSE "check")
    /\ called' = [called EXCEPT ![i] = build.broken /\ linter[i] # 0]
    /\ UNCHANGED <<build, answer, shared, linter, read, excludes, result, failed>>

(* ggufpackerIgnorePatterns *)

\* A wrong look at the patterns: what ReadEntrypoint has set does not count.
LoadsAgain(i) ==
    /\ Step(i, "check", "load")
    /\ UNCHANGED <<build, answer, shared, own, result, failed>>

Check(i) ==
    /\ Step(i, "check", IF ignored.pointer = "nil" THEN "load" ELSE "use")
    /\ UNCHANGED <<build, answer, shared, own, result, failed>>

LoadFails(i) == pc[i] = "load" /\ MayFail(i) /\ Abort(i)

\* A file that is not there, or cannot be read, is an empty one.
Load(i) ==
    /\ \E order \in {"pointer", "length"} : Step(i, "load", order)
    /\ \E content \in {IF build.ignore = "file" THEN "file" ELSE "empty"} \cup IF MayFail(i) THEN {"empty"} ELSE {} :
           read' = [read EXCEPT ![i] = content]
    /\ UNCHANGED <<build, answer, shared, linter, called, excludes, result, failed>>

Length(i) == IF read[i] = "file" THEN 1 ELSE 0

\* The assignment of the slice: the half that comes first, then the other.
WritePointer(i) ==
    /\ pc[i] \in {"pointer", "pointer2"}
    /\ Step(i, pc[i], IF pc[i] = "pointer" THEN "length2" ELSE "use")
    /\ ignored' = [ignored EXCEPT !.pointer = read[i]]
    /\ UNCHANGED <<build, answer, config, own, result, failed>>

WriteLength(i) ==
    /\ pc[i] \in {"length", "length2"}
    /\ Step(i, pc[i], IF pc[i] = "length" THEN "pointer2" ELSE "use")
    /\ ignored' = [ignored EXCEPT !.length = Length(i)]
    /\ UNCHANGED <<build, answer, config, own, result, failed>>

Patterns == IF ignored.length = 0 THEN "empty" ELSE ignored.pointer

\* The patterns that COPY and ADD are checked against.
Use(i) ==
    /\ Step(i, "use", "verdict")
    /\ excludes' = [excludes EXCEPT ![i][1] = Patterns]
    /\ UNCHANGED <<build, answer, shared, linter, called, read, result, failed>>

\* Linter.Error at the end of toDispatchState.
LintFails(i) == pc[i] = "verdict" /\ build.strict /\ called[i] /\ Abort(i)

LintPasses(i) ==
    /\ Step(i, "verdict", IF build.ignore = "remote" THEN "solve" ELSE "context")
    /\ ~(build.strict /\ called[i])
    /\ UNCHANGED <<build, answer, shared, own, result, failed>>

\* MainContext: the patterns that the context is sent without, read again.
MainContext(i) ==
    /\ Step(i, "context", "solve")
    /\ excludes' = [excludes EXCEPT ![i][2] = Patterns]
    /\ UNCHANGED <<build, answer, shared, linter, called, read, result, failed>>

SolveFails(i) == pc[i] = "solve" /\ MayFail(i) /\ Abort(i)

Solve(i) ==
    /\ Step(i, "solve", "ref")
    /\ UNCHANGED <<build, answer, shared, own, result, failed>>

(* The image of the platform in the result *)

AddRef(i) ==
    /\ Step(i, "ref", "meta")
    /\ refs' = [refs EXCEPT ![Key(build, i)] = build.targets[i]]
    /\ UNCHANGED <<build, answer, shared, own, configs, platforms, failed>>

AddMeta(i) ==
    /\ Step(i, "meta", "slot")
    /\ configs' = [configs EXCEPT ![Key(build, i)] = build.targets[i]]
    /\ UNCHANGED <<build, answer, shared, own, refs, platforms, failed>>

\* A wrong Build: a slot for each that arrives.
ByArrival(i) ==
    /\ Step(i, "slot", "done")
    /\ platforms' = [platforms EXCEPT ![1 + Cardinality({j \in Running : pc[j] = "done"})] = build.targets[i]]
    /\ UNCHANGED <<build, answer, shared, own, refs, configs, failed>>

SetSlot(i) ==
    /\ Step(i, "slot", "done")
    /\ platforms' = [platforms EXCEPT ![i] = build.targets[i]]
    /\ UNCHANGED <<build, answer, shared, own, refs, configs, failed>>

\* A wrong Wait: all goroutines must have stored an image.
WaitsForAll ==
    /\ build # Promise!NoBuild /\ answer = Promise!NoAnswer
    /\ \A i \in Running : pc[i] = "done"
    /\ answer' = [kind |-> "images", refs |-> refs, configs |-> configs, platforms |-> platforms]
    /\ UNCHANGED <<build, pc, shared, own, result, failed>>

\* Wait, and Finalize: all goroutines have ended; one error is enough.
Wait ==
    /\ build # Promise!NoBuild /\ answer = Promise!NoAnswer
    /\ \A i \in Running : pc[i] \in {"done", "failed"}
    /\ answer' = IF failed THEN Promise!Error
                 ELSE [kind |-> "images", refs |-> refs, configs |-> configs, platforms |-> platforms]
    /\ UNCHANGED <<build, pc, shared, own, result, failed>>

Goroutine(i) ==
    \/ SetWarn(i) \/ NewLinter(i) \/ RunRules(i)
    \/ Check(i) \/ LoadFails(i) \/ Load(i) \/ WritePointer(i) \/ WriteLength(i) \/ Use(i)
    \/ LintFails(i) \/ LintPasses(i) \/ MainContext(i) \/ SolveFails(i) \/ Solve(i)
    \/ AddRef(i) \/ AddMeta(i) \/ SetSlot(i)
=============================================================================
