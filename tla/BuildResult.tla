---------------------------- MODULE BuildResult ----------------------------
(***************************************************************************)
(* What the frontend promises of a request (Build of builder/build.go,     *)
(* with Client.Build and Finalize of ggufpackerui/build.go): one answer,   *)
(* an error or what a subrequest asks for, or else a build of several      *)
(* platforms, which is answered with an error or the images of all of      *)
(* them; and an error for certain when the recipe breaks a rule and rules  *)
(* are to be kept.                                                         *)
(***************************************************************************)
EXTENDS Naturals, Sequences

CONSTANT Builds    \* the builds that may be asked for

VARIABLES
    build,     \* the build: its target platforms and what it will meet
    answer

NoBuild == [targets |-> <<>>, multi |-> FALSE]
NoAnswer == [kind |-> "none"]
Error == [kind |-> "error"]
Subanswer == [kind |-> "subrequest"]

\* The key of a platform in the answer: its own if several are asked for.
Key(b, i) == IF b.multi THEN b.targets[i] ELSE "single"
Keys(b) == {Key(b, i) : i \in DOMAIN b.targets}

\* The platform whose image belongs under each key.
Images(b) == [key \in Keys(b) |-> IF b.multi THEN key ELSE b.targets[1]]

Whole(b) == [kind |-> "images", refs |-> Images(b), configs |-> Images(b), platforms |-> b.targets]

\* The rules that the recipe breaks must fail the build.
MustFail(b) == b.strict /\ b.broken

Init == build = NoBuild /\ answer = NoAnswer

\* Before a build, or in place of it.
Decline == build = NoBuild /\ answer' \in {Error, Subanswer} /\ UNCHANGED build

Begin == build = NoBuild /\ build' \in Builds /\ UNCHANGED answer

Fail == build # NoBuild /\ answer' = Error /\ UNCHANGED build

Succeed == build # NoBuild /\ ~MustFail(build) /\ answer' = Whole(build) /\ UNCHANGED build

Next == answer = NoAnswer /\ (Decline \/ Begin \/ Fail \/ Succeed)

Spec == Init /\ [][Next]_<<build, answer>>
=============================================================================
