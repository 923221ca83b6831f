--------------------------- MODULE BuilderProofs ---------------------------
(***************************************************************************)
(* Whatever a client asks for, however many platforms it has and in        *)
(* whatever order their goroutines run: the recipe and the ignore file are *)
(* those of the user, and the answer is what BuildResult promises.         *)
(***************************************************************************)
EXTENDS Builder, TLAPS, SequenceTheorems

(***************************************************************************)
(* Before a build                                                          *)
(***************************************************************************)

\* What the request means by its recipe.
MeantFile ==
    IF request.context = "http" /\ ~request.archive THEN "context"
    ELSE IF request.filename = "" THEN Front!Default ELSE request.filename

MeantPlace ==
    IF request.forced THEN "recipes"
    ELSE IF request.context # "local" THEN request.context
    ELSE IF request.inputs = "context" THEN "input" ELSE "context"

Phases == {"client", "context", "entry", "request", "build", "answered", "failed"}

\* initContext has found what the request means...
ContextFound ==
    phase \in {"entry", "request", "build", "answered"} =>
        /\ bctx.filename = MeantFile
        /\ Front!Source = MeantPlace
        /\ request.context \in {"git", "http", "local"}

\* ... and ReadEntrypoint has read it.
RecipeRead ==
    phase \in {"request", "build", "answered"} =>
        /\ recipe = [place |-> Front!Source, file |-> Front!EntryFile]
        /\ ignore \in {Front!OwnIgnore, Front!None}
        /\ ~request.faulty => ignore = Front!OwnIgnore

FrontInv ==
    /\ request \in Requests
    /\ phase \in Phases
    /\ ContextFound
    /\ RecipeRead
    /\ phase = "build" => request.requestid = ""

LEMMA FrontInit == Init => FrontInv
BY DEF Init, Front!Init, FrontInv, Phases, ContextFound, RecipeRead

\* A request fails, or goes on with the same context and recipe.
LEMMA PhaseKeeps ==
    ASSUME FrontInv, UNCHANGED <<request, options, bctx, recipe, ignore>>,
           \/ phase' \in {"failed", "context"}
           \/ phase \in {"request", "build", "answered"} /\ phase' = "answered"
           \/ phase = "request" /\ phase' = "build" /\ request.requestid = ""
    PROVE  FrontInv'
BY DEF FrontInv, Phases, ContextFound, RecipeRead, MeantFile, MeantPlace, Front!Source, Front!EntryFile, Front!OwnIgnore,
       Front!Content, Front!Followed, Front!IgnoreOf

LEMMA ContextKeeps ==
    ASSUME FrontInv, Front!DetectGitContext \/ Front!DetectHTTPContext \/ Front!FrontendInputs
    PROVE  FrontInv'
<1>1. request' = request /\ phase' = "entry"
  BY DEF Front!DetectGitContext, Front!DetectHTTPContext, Front!FrontendInputs, Front!InContext
<1>2. bctx'.filename = MeantFile /\ Front!Source' = MeantPlace
  <2>1. CASE Front!DetectGitContext
    BY <2>1 DEF Front!DetectGitContext, Front!InContext, Front!Named, Front!NoContext, Front!Source, MeantFile, MeantPlace
  <2>2. CASE Front!DetectHTTPContext
    BY <2>2 DEF Front!DetectHTTPContext, Front!InContext, Front!Named, Front!NoContext, Front!Source, MeantFile, MeantPlace
  <2>3. CASE Front!FrontendInputs
    BY <2>3 DEF Front!FrontendInputs, Front!InContext, Front!Named, Front!NoContext, Front!Source, MeantFile, MeantPlace
  <2> QED BY <2>1, <2>2, <2>3
<1>3. request.context \in {"git", "http", "local"}
  BY DEF Front!DetectGitContext, Front!DetectHTTPContext, Front!FrontendInputs
<1> QED BY <1>1, <1>2, <1>3 DEF FrontInv, Phases, ContextFound, RecipeRead, MeantFile, MeantPlace

LEMMA ReadEntrypointKeeps == ASSUME FrontInv, Front!ReadEntrypoint PROVE FrontInv'
<1>1. phase = "entry" /\ phase' = "request" /\ UNCHANGED <<request, options, bctx>>
  BY DEF Front!ReadEntrypoint
<1>2. UNCHANGED <<Front!Source, Front!EntryFile, Front!OwnIgnore>>
  BY <1>1 DEF Front!Source, Front!EntryFile, Front!OwnIgnore, Front!Content, Front!Followed, Front!IgnoreOf
<1>3. ContextFound'
  BY <1>1, <1>2 DEF FrontInv, ContextFound, MeantFile, MeantPlace
<1>4. RecipeRead'
  BY <1>1, <1>2 DEF Front!ReadEntrypoint, RecipeRead, Front!None
<1> QED BY <1>1, <1>3, <1>4 DEF FrontInv, Phases

LEMMA FrontKeeps == ASSUME FrontInv, [BeforeBuild]_before PROVE FrontInv'
<1>1. CASE Front!CallFails \/ Front!NewClientFails \/ Front!ReadFails \/ Front!SubrequestFails
  BY <1>1, PhaseKeeps DEF Front!CallFails, Front!NewClientFails, Front!ReadFails, Front!SubrequestFails, Front!Fail
<1>2. CASE Front!NewClient
  BY <1>2 DEF Front!NewClient, FrontInv, Phases, ContextFound, RecipeRead
<1>3. CASE Front!NoSubrequest \/ Front!Subrequest
  BY <1>3, PhaseKeeps DEF Front!NoSubrequest, Front!Subrequest
<1>4. CASE UNCHANGED before
  BY <1>4 DEF before, FrontInv, ContextFound, RecipeRead, MeantFile, MeantPlace, Front!Source, Front!EntryFile,
              Front!OwnIgnore, Front!Content, Front!Followed, Front!IgnoreOf
<1> QED BY <1>1, <1>2, <1>3, <1>4, ContextKeeps, ReadEntrypointKeeps DEF BeforeBuild, Front!Next

\* The recipe is read under the name that is meant, or in lower case when
\* there is no file of the default name.
LEMMA RecipeOfTheInvariant == FrontInv => RecipeIsTheUsers
<1> SUFFICES ASSUME FrontInv, phase \in {"request", "build", "answered"}
             PROVE  /\ recipe.place = MeantPlace
                    /\ recipe.file # MeantFile =>
                          /\ MeantFile = Front!Default /\ recipe.file = Front!Lower
                          /\ Front!Default \notin DOMAIN request.files[recipe.place]
  BY DEF RecipeIsTheUsers, MeantFile, MeantPlace
<1>1. /\ recipe.place = MeantPlace /\ recipe.file = Front!EntryFile
      /\ bctx.filename = MeantFile /\ Front!Source = MeantPlace
  <2>1. recipe = [place |-> Front!Source, file |-> Front!EntryFile]
    BY DEF FrontInv, RecipeRead
  <2>2. bctx.filename = MeantFile /\ Front!Source = MeantPlace
    BY DEF FrontInv, ContextFound
  <2> QED BY <2>1, <2>2
<1>2. SUFFICES ASSUME Front!EntryFile # MeantFile
               PROVE  /\ MeantFile = Front!Default /\ Front!EntryFile = Front!Lower
                      /\ Front!Default \notin DOMAIN request.files[MeantPlace]
  BY <1>1
<1>3. MeantFile = Front!Default /\ Front!EntryFile = Front!Lower /\ Front!Content(Front!Default) = "missing"
  BY <1>1, <1>2 DEF Front!EntryFile
<1>4. Front!Default \in Front!Followed
  BY <1>1, <1>3 DEF Front!Followed
<1>5. MeantPlace \in Places
  BY DEF MeantPlace, Places, FrontInv, ContextFound
<1>6. ASSUME Front!Default \in DOMAIN request.files[MeantPlace] PROVE FALSE
  <2>1. request.files[MeantPlace][Front!Default] = "missing"
    BY <1>1, <1>3, <1>4, <1>6 DEF Front!Content
  <2>2. request.files[MeantPlace][Front!Default] \in {"text", "nil"}
    BY <1>5, <1>6, BuilderAssumption DEF FrontInv
  <2> QED BY <2>1, <2>2
<1> QED BY <1>3, <1>6

(***************************************************************************)
(* From the request to the build                                           *)
(***************************************************************************)

\* A build is begun with what the client holds, and nothing of that changes.
Begun ==
    /\ build = Promise!NoBuild =>
           answer = Promise!NoAnswer /\ config = 0 /\ ignored = [pointer |-> "nil", length |-> 0] /\ failed = FALSE
    /\ build # Promise!NoBuild => phase = "build" /\ build \in Builds /\ build.ignore = Front!IgnoreKind

LEMMA BuildIsNone ==
    /\ Platforms!Promise!NoBuild = Promise!NoBuild
    /\ Platforms!Promise!NoAnswer = Promise!NoAnswer
    /\ Promise!NoBuild \notin Builds
<1>1. \A b \in Builds : b.targets # <<>>
  BY BuilderAssumption
<1> QED BY <1>1 DEF Platforms!Promise!NoBuild, Promise!NoBuild, Platforms!Promise!NoAnswer, Promise!NoAnswer

LEMMA BegunInit == Init => Begun
BY DEF Init, Platforms!Init, Begun, Platforms!Promise!NoBuild, Promise!NoBuild, Platforms!Promise!NoAnswer, Promise!NoAnswer

LEMMA GoroutineKeeps ==
    ASSUME NEW i, Platforms!Goroutine(i)
    PROVE  UNCHANGED <<build, answer>>
BY DEF Platforms!Goroutine, Platforms!SetWarn, Platforms!NewLinter, Platforms!RunRules, Platforms!Check, Platforms!LoadFails,
       Platforms!Load, Platforms!WritePointer, Platforms!WriteLength, Platforms!Use, Platforms!LintFails, Platforms!LintPasses,
       Platforms!MainContext, Platforms!SolveFails, Platforms!Solve, Platforms!AddRef, Platforms!AddMeta, Platforms!SetSlot,
       Platforms!Abort

LEMMA BegunKeeps == ASSUME FrontInv, Begun, [Next]_vars PROVE Begun'
<1>1. CASE BeforeBuild
  <2>1. build = Promise!NoBuild
    BY <1>1 DEF Begun, BeforeBuild, Front!Next, Front!CallFails, Front!NewClientFails, Front!NewClient, Front!DetectGitContext,
           Front!DetectHTTPContext, Front!FrontendInputs, Front!ReadFails, Front!ReadEntrypoint, Front!NoSubrequest,
           Front!Subrequest, Front!SubrequestFails
  <2> QED BY <1>1, <2>1 DEF BeforeBuild, during, Begun
<1>2. CASE Begin
  <2>1. PICK b \in Builds : (\A f \in DOMAIN Front!Handed : b[f] = Front!Handed[f]) /\ Platforms!Begin(b)
    BY <1>2 DEF Begin
  <2>2. b.ignore = Front!IgnoreKind
    BY <2>1 DEF Front!Handed
  <2>3. Front!IgnoreKind' = Front!IgnoreKind /\ phase' = "build"
    BY <1>2 DEF Begin, before, Front!IgnoreKind
  <2> QED BY <2>1, <2>2, <2>3, BuildIsNone DEF Begun, Platforms!Begin
<1>3. CASE Wait \/ UNCHANGED vars \/ \E i \in Platforms!Running : Goroutine(i)
  <2>1. UNCHANGED before /\ build' = build /\ (UNCHANGED during \/ build # Promise!NoBuild)
    <3>1. CASE Wait
      BY <3>1, BuildIsNone DEF Wait, before, Platforms!Wait
    <3>2. CASE UNCHANGED vars
      BY <3>2 DEF vars, before, during
    <3>3. ASSUME NEW i \in Platforms!Running, Goroutine(i) PROVE UNCHANGED <<before, build>> /\ build # Promise!NoBuild
      BY <3>3, GoroutineKeeps DEF Platforms!Running, Promise!NoBuild, Goroutine
    <3> QED BY <1>3, <3>1, <3>2, <3>3 DEF before
  <2>2. Front!IgnoreKind' = Front!IgnoreKind
    BY <2>1 DEF before, Front!IgnoreKind
  <2> QED BY <2>1, <2>2 DEF Begun, before, during
<1> QED BY <1>1, <1>2, <1>3 DEF Next

\* A build has the patterns of the recipe's own ignore file exactly when there is
\* one that could be read.
LEMMA IgnoreOfTheInvariant == FrontInv /\ Begun => IgnoreFileOfTheRecipe
<1> DEFINE own == Front!IgnoreOf(bctx.filename)
           there == own \in DOMAIN request.files[recipe.place] /\ request.files[recipe.place][own] = "text"
<1> SUFFICES ASSUME FrontInv, Begun, build # Promise!NoBuild
             PROVE  /\ build.ignore = "set" => ignore = [place |-> recipe.place, file |-> own] /\ there
                    /\ bctx.context = "none" /\ ~request.faulty /\ there => build.ignore = "set"
  BY DEF IgnoreFileOfTheRecipe
<1>1. phase = "build" /\ build.ignore = Front!IgnoreKind
  BY DEF Begun
<1>2. /\ recipe.place = Front!Source /\ ignore \in {Front!OwnIgnore, Front!None}
      /\ ~request.faulty => ignore = Front!OwnIgnore
      /\ Front!Source = MeantPlace /\ request.context \in {"git", "http", "local"}
  <2>1. /\ recipe = [place |-> Front!Source, file |-> Front!EntryFile]
        /\ ignore \in {Front!OwnIgnore, Front!None}
        /\ ~request.faulty => ignore = Front!OwnIgnore
    BY <1>1 DEF FrontInv, RecipeRead
  <2>2. Front!Source = MeantPlace /\ request.context \in {"git", "http", "local"}
    BY <1>1 DEF FrontInv, ContextFound
  <2> QED BY <2>1, <2>2
<1>3. Front!Content(own) = "text" <=> there
  <2>1. own \in Front!Followed
    BY DEF Front!Followed
  <2> QED BY <1>2, <2>1 DEF Front!Content
<1>4. Front!Source # "none"
  BY <1>2 DEF MeantPlace
<1>5. Front!OwnIgnore = IF there THEN [place |-> recipe.place, file |-> own] ELSE Front!None
  BY <1>2, <1>3 DEF Front!OwnIgnore
<1>6. Front!None # [place |-> recipe.place, file |-> own]
  BY <1>2, <1>4 DEF Front!None
<1>7. Front!IgnoreKind = "set" <=> bctx.context = "none" /\ ignore # Front!None
  BY DEF Front!IgnoreKind
<1> HIDE DEF own, there
<1> QED BY <1>1, <1>2, <1>5, <1>6, <1>7

(***************************************************************************)
(* The goroutines of a build                                               *)
(***************************************************************************)

Goroutines == Platforms!Running
Keys == Promise!Keys(build)

\* What a goroutine passes on its way.
Loading == {"load", "pointer", "length", "pointer2", "length2"}
Stored == {"solve", "ref", "meta", "slot", "done"}
Linted == {"context"} \cup Stored
Ruled == {"check", "use", "verdict"} \cup Loading \cup Linted
Stages == {"lint", "new", "rules", "failed"} \cup Ruled
Contents == {"nil", "file", "empty"}

Types ==
    /\ pc \in [Goroutines -> Stages]
    /\ config \in {0, 1}
    /\ linter \in [Goroutines -> {0, 1}]
    /\ called \in [Goroutines -> BOOLEAN]
    /\ ignored \in [pointer : Contents, length : {0, 1}]
    /\ read \in [Goroutines -> Contents]
    /\ excludes \in [Goroutines -> [1..2 -> Contents]]
    /\ refs = [key \in Keys |-> refs[key]]
    /\ configs = [key \in Keys |-> configs[key]]
    /\ platforms = [i \in Goroutines |-> platforms[i]]
    /\ failed \in BOOLEAN

\* A goroutine that fails leaves its error in the group.
ErrorsStay == \A i \in Goroutines : pc[i] = "failed" => failed

\* What a goroutine has stored stays, whoever comes after it.
ImagesStay ==
    \A i \in Goroutines :
        /\ pc[i] \in {"meta", "slot", "done"} => refs[Promise!Key(build, i)] = build.targets[i]
        /\ pc[i] \in {"slot", "done"} => configs[Promise!Key(build, i)] = build.targets[i]
        /\ pc[i] = "done" => platforms[i] = build.targets[i]

\* Nobody else sets the Warn of this build's linters.
Alone == build.own \/ Len(build.targets) = 1

\* The first linter warns, and lets no broken rule of a strict build pass.
FirstLints ==
    Alone =>
        /\ pc[1] = "new" => config = 1
        /\ pc[1] \in {"rules"} \cup Ruled => linter[1] = 1
        /\ pc[1] \in Ruled => (called[1] <=> build.broken)
        /\ pc[1] \in Linted => ~Promise!MustFail(build)

\* The patterns that are right for the build, and who can count on them.
Right == IF build.ignore = "none" THEN "empty" ELSE "file"

Counts(i) ==
    /\ i \notin build.faulty /\ ~failed
    /\ Len(build.targets) = 1 \/ build.ignore \in {"set", "none"}

\* What nobody writes stays as it is; what one goroutine writes alone it
\* finds again, whichever half it writes first.
PatternsKept ==
    /\ build.ignore = "set" =>
           ignored = [pointer |-> "file", length |-> 1] /\ \A i \in Goroutines : pc[i] \notin Loading
    /\ build.ignore = "none" => ignored.length = 0 /\ \A i \in Goroutines : read[i] # "file"
    /\ build.ignore = "file" =>
           \A i \in Goroutines : Counts(i) =>
               /\ pc[i] \in {"lint", "new", "rules", "check"} => ignored.pointer = "nil"
               /\ pc[i] \in {"pointer", "length", "pointer2", "length2"} => read[i] = "file"
               /\ pc[i] = "length2" => ignored.pointer = "file"
               /\ pc[i] = "pointer2" => ignored.length = 1
               /\ pc[i] \in {"use", "verdict", "context"} => Platforms!Patterns = "file"

Taken ==
    \A i \in Goroutines : Counts(i) /\ build.ignore # "remote" =>
        /\ pc[i] \in {"verdict"} \cup Linted => excludes[i][1] = Right
        /\ pc[i] \in Stored => excludes[i][2] = Right

\* Nothing is answered before every goroutine has ended.
Answered == answer # Promise!NoAnswer => answer = Promise!Error \/ answer = Promise!Whole(build)

BuildInv ==
    build # Promise!NoBuild =>
        /\ build \in Builds
        /\ build.ignore \in {"set", "file", "none", "remote"}
        /\ Types
        /\ ErrorsStay
        /\ ImagesStay
        /\ FirstLints
        /\ PatternsKept
        /\ Taken
        /\ Answered

LEMMA BuildsAre ==
    ASSUME NEW b \in Builds
    PROVE  /\ b.targets \in Seq(STRING) /\ Len(b.targets) \in Nat /\ Len(b.targets) > 0
           /\ DOMAIN b.targets = 1..Len(b.targets)
           /\ Len(b.targets) > 1 => b.multi
           /\ \A i \in 1..Len(b.targets) : b.targets[i] \in STRING /\ Promise!Key(b, i) \in Promise!Keys(b)
<1>1. b.targets \in Seq(STRING) /\ Len(b.targets) \in 1..MaxTargets /\ MaxTargets \in Nat
  BY BuilderAssumption
<1>2. Len(b.targets) > 1 => b.multi
  BY BuilderAssumption
<1>3. Len(b.targets) \in Nat /\ Len(b.targets) > 0
  BY <1>1
<1>4. DOMAIN b.targets = 1..Len(b.targets)
  BY <1>1, LenProperties
<1>5. \A i \in 1..Len(b.targets) : b.targets[i] \in STRING
  BY <1>1, ElementOfSeq
<1>6. \A i \in 1..Len(b.targets) : Promise!Key(b, i) \in Promise!Keys(b)
  BY <1>4 DEF Promise!Keys
<1> QED BY <1>1, <1>2, <1>3, <1>4, <1>5, <1>6

LEMMA KeysAre == \A b, i : Platforms!Key(b, i) = Promise!Key(b, i) /\ Platforms!Promise!Keys(b) = Promise!Keys(b)
BY DEF Platforms!Key, Platforms!Promise!Key, Promise!Key, Platforms!Promise!Keys, Promise!Keys

\* One key is one platform: a single platform needs no key of its own.
LEMMA KeyDetermines ==
    ASSUME build \in Builds, NEW i \in Goroutines, NEW j \in Goroutines, Promise!Key(build, i) = Promise!Key(build, j)
    PROVE  build.targets[i] = build.targets[j]
<1>1. CASE build.multi
  BY <1>1 DEF Promise!Key
<1>2. CASE ~build.multi
  <2>1. Len(build.targets) \in Nat /\ Len(build.targets) > 0 /\ ~(Len(build.targets) > 1)
    BY <1>2, BuildsAre
  <2> QED BY <2>1 DEF Goroutines, Platforms!Running
<1> QED BY <1>1, <1>2

LEMMA PairsAre == ASSUME NEW S, NEW a \in S, NEW b \in S PROVE <<a, b>> \in [1..2 -> S]
<1>1. <<a, b>> \in Seq(S) /\ Len(<<a, b>>) = 2
  OBVIOUS
<1> QED BY <1>1, LenProperties

LEMMA BuildBegins == ASSUME FrontInv, Begun, Begin PROVE BuildInv'
<1>1. PICK b \in Builds : (\A f \in DOMAIN Front!Handed : b[f] = Front!Handed[f]) /\ Platforms!Begin(b)
  BY DEF Begin
<1>2. b.ignore \in {"set", "file", "none", "remote"}
  BY <1>1 DEF Front!Handed, Front!IgnoreKind
<1>3. Goroutines' = DOMAIN b.targets /\ build' = b
  BY <1>1, BuildsAre DEF Platforms!Begin, Goroutines, Platforms!Running
<1>4. Types'
  <2>1. Goroutines' = DOMAIN b.targets /\ Keys' = Promise!Keys(b)
    BY <1>3 DEF Keys, Promise!Keys, Promise!Key
  <2>2. pc' \in [Goroutines' -> Stages]
    BY <1>1, <2>1 DEF Platforms!Begin, Stages
  <2>3. linter' \in [Goroutines' -> {0, 1}] /\ called' \in [Goroutines' -> BOOLEAN]
    BY <1>1, <2>1 DEF Platforms!Begin
  <2>4. read' \in [Goroutines' -> Contents] /\ platforms' = [i \in Goroutines' |-> platforms'[i]]
    BY <1>1, <2>1 DEF Platforms!Begin, Contents
  <2>5. excludes' \in [Goroutines' -> [1..2 -> Contents]]
    <3>1. <<"nil", "nil">> \in [1..2 -> Contents]
      BY PairsAre DEF Contents
    <3>2. excludes' = [i \in DOMAIN b.targets |-> <<"nil", "nil">>]
      BY <1>1 DEF Platforms!Begin
    <3> QED BY <2>1, <3>1, <3>2
  <2>6. Platforms!Promise!Keys(b) = Promise!Keys(b)
    BY KeysAre
  <2>7. refs' = [key \in Keys' |-> refs'[key]] /\ configs' = [key \in Keys' |-> configs'[key]]
    <3>1. /\ refs' = [key \in Platforms!Promise!Keys(b) |-> "none"]
          /\ configs' = [key \in Platforms!Promise!Keys(b) |-> "none"]
      BY <1>1, Zenon DEF Platforms!Begin
    <3>2. /\ refs' = [key \in Promise!Keys(b) |-> "none"]
          /\ configs' = [key \in Promise!Keys(b) |-> "none"]
      BY <3>1, <2>6, Zenon
    <3> QED BY <2>1, <3>2
  <2>8. config' \in {0, 1} /\ failed' \in BOOLEAN
    BY <1>1, BuildIsNone DEF Begun, Platforms!Begin
  <2>9. ignored' \in [pointer : Contents, length : {0, 1}]
    BY <1>1, BuildIsNone DEF Begun, Platforms!Begin, Contents
  <2> QED BY <2>2, <2>3, <2>4, <2>5, <2>7, <2>8, <2>9 DEF Types
<1>5. ErrorsStay' /\ ImagesStay'
  BY <1>1, <1>3 DEF Platforms!Begin, ErrorsStay, ImagesStay
<1>6. FirstLints'
  BY <1>1, <1>3, BuildsAre DEF Platforms!Begin, FirstLints, Ruled, Linted, Loading, Stored
<1>7. PatternsKept'
  BY <1>1, <1>3, BuildIsNone DEF Begun, Platforms!Begin, PatternsKept, Loading
<1>8. Taken'
  BY <1>1, <1>3 DEF Platforms!Begin, Taken, Linted, Stored
<1>9. Answered'
  BY <1>1, BuildIsNone DEF Begun, Platforms!Begin, Answered, Promise!NoAnswer
<1> QED BY <1>1, <1>2, <1>3, <1>4, <1>5, <1>6, <1>7, <1>8, <1>9 DEF BuildInv

\* What a step of a goroutine changes, and that only its own place moves.
LEMMA GoroutineMoves ==
    ASSUME Types, NEW i \in Goroutines, Platforms!Goroutine(i)
    PROVE  /\ \E to \in Stages : pc' = [pc EXCEPT ![i] = to]
           /\ failed' \in BOOLEAN /\ (failed => failed')
           /\ pc'[i] = "failed" => failed'
           /\ Goroutines' = Goroutines /\ Keys' = Keys
<1>1. UNCHANGED build
  BY GoroutineKeeps
<1>2. Goroutines' = Goroutines /\ Keys' = Keys
  BY <1>1 DEF Goroutines, Platforms!Running, Keys, Promise!Keys, Promise!Key
<1>3. \E to \in Stages : pc' = [pc EXCEPT ![i] = to]
  <2>1. CASE Platforms!SetWarn(i) \/ Platforms!NewLinter(i) \/ Platforms!RunRules(i)
    BY <2>1 DEF Platforms!SetWarn, Platforms!NewLinter, Platforms!RunRules, Platforms!Step, Stages, Ruled, Types
  <2>2. CASE Platforms!Check(i) \/ Platforms!Load(i) \/ Platforms!WritePointer(i) \/ Platforms!WriteLength(i) \/ Platforms!Use(i)
    BY <2>2 DEF Platforms!Check, Platforms!Load, Platforms!WritePointer, Platforms!WriteLength, Platforms!Use, Platforms!Step,
           Stages, Ruled, Loading, Types
  <2>3. CASE Platforms!LintPasses(i) \/ Platforms!MainContext(i) \/ Platforms!Solve(i) \/ Platforms!AddRef(i)
             \/ Platforms!AddMeta(i) \/ Platforms!SetSlot(i)
    BY <2>3 DEF Platforms!LintPasses, Platforms!MainContext, Platforms!Solve, Platforms!AddRef, Platforms!AddMeta,
           Platforms!SetSlot, Platforms!Step, Stages, Ruled, Linted, Stored, Types
  <2>4. CASE Platforms!LoadFails(i) \/ Platforms!LintFails(i) \/ Platforms!SolveFails(i)
    BY <2>4 DEF Platforms!LoadFails, Platforms!LintFails, Platforms!SolveFails, Platforms!Abort, Stages
  <2> QED BY <2>1, <2>2, <2>3, <2>4 DEF Platforms!Goroutine
<1>4. failed' \in BOOLEAN /\ (failed => failed') /\ (pc'[i] = "failed" => failed')
  <2>1. CASE Platforms!LoadFails(i) \/ Platforms!LintFails(i) \/ Platforms!SolveFails(i)
    BY <2>1 DEF Platforms!LoadFails, Platforms!LintFails, Platforms!SolveFails, Platforms!Abort
  <2>2. CASE Platforms!SetWarn(i) \/ Platforms!NewLinter(i) \/ Platforms!RunRules(i)
    BY <2>2 DEF Platforms!SetWarn, Platforms!NewLinter, Platforms!RunRules, Platforms!Step, Types
  <2>3. CASE Platforms!Check(i) \/ Platforms!Load(i) \/ Platforms!WritePointer(i) \/ Platforms!WriteLength(i) \/ Platforms!Use(i)
    BY <2>3 DEF Platforms!Check, Platforms!Load, Platforms!WritePointer, Platforms!WriteLength, Platforms!Use, Platforms!Step, Types
  <2>4. CASE Platforms!LintPasses(i) \/ Platforms!MainContext(i) \/ Platforms!Solve(i) \/ Platforms!AddRef(i)
             \/ Platforms!AddMeta(i) \/ Platforms!SetSlot(i)
    BY <2>4 DEF Platforms!LintPasses, Platforms!MainContext, Platforms!Solve, Platforms!AddRef, Platforms!AddMeta,
           Platforms!SetSlot, Platforms!Step, Types
  <2> QED BY <2>1, <2>2, <2>3, <2>4 DEF Platforms!Goroutine
<1> QED BY <1>2, <1>3, <1>4

LEMMA ErrorsStayKeeps ==
    ASSUME Types, ErrorsStay, NEW i \in Goroutines, Platforms!Goroutine(i)
    PROVE  ErrorsStay'
BY GoroutineMoves DEF ErrorsStay, Types

LEMMA TypesKeep ==
    ASSUME build \in Builds, Types, NEW i \in Goroutines, Platforms!Goroutine(i)
    PROVE  Types'
<1> DEFINE Kept == /\ config' \in {0, 1}
                   /\ linter' \in [Goroutines -> {0, 1}] /\ called' \in [Goroutines -> BOOLEAN]
                   /\ ignored' \in [pointer : Contents, length : {0, 1}]
                   /\ read' \in [Goroutines -> Contents] /\ excludes' \in [Goroutines -> [1..2 -> Contents]]
                   /\ refs' = [key \in Keys |-> refs'[key]] /\ configs' = [key \in Keys |-> configs'[key]]
                   /\ platforms' = [j \in Goroutines |-> platforms'[j]]
<1>1. pc' \in [Goroutines -> Stages] /\ failed' \in BOOLEAN /\ Goroutines' = Goroutines /\ Keys' = Keys
  BY GoroutineMoves DEF Types
<1>2. Kept
  <2>1. CASE Platforms!SetWarn(i) \/ Platforms!NewLinter(i)
    BY <2>1 DEF Platforms!SetWarn, Platforms!NewLinter, Platforms!Warn, Platforms!shared, Platforms!result, Types
  <2>2. CASE Platforms!RunRules(i)
    <3>1. UNCHANGED <<config, ignored, linter, read, excludes, refs, configs, platforms>>
          /\ called' = [called EXCEPT ![i] = build.broken /\ linter[i] # 0]
      BY <2>2 DEF Platforms!RunRules, Platforms!shared, Platforms!result
    <3> QED BY <3>1, BuilderAssumption DEF Types
  <2>3. CASE \/ Platforms!Check(i) \/ Platforms!LoadFails(i) \/ Platforms!LintFails(i) \/ Platforms!LintPasses(i)
             \/ Platforms!SolveFails(i) \/ Platforms!Solve(i)
    BY <2>3 DEF Platforms!Check, Platforms!LoadFails, Platforms!LintFails, Platforms!LintPasses, Platforms!SolveFails,
           Platforms!Solve, Platforms!Abort, Platforms!shared, Platforms!own, Platforms!result, Types
  <2>4. CASE Platforms!Load(i)
    BY <2>4 DEF Platforms!Load, Platforms!shared, Platforms!result, Types, Contents
  <2>5. CASE Platforms!WritePointer(i) \/ Platforms!WriteLength(i)
    BY <2>5 DEF Platforms!WritePointer, Platforms!WriteLength, Platforms!Length, Platforms!own, Platforms!result, Types
  <2>6. CASE Platforms!Use(i) \/ Platforms!MainContext(i)
    <3>1. Platforms!Patterns \in Contents
      BY DEF Platforms!Patterns, Types, Contents
    <3>2. PICK h \in 1..2 : excludes' = [excludes EXCEPT ![i][h] = Platforms!Patterns]
      BY <2>6 DEF Platforms!Use, Platforms!MainContext
    <3>3. UNCHANGED <<config, linter, called, ignored, read, refs, configs, platforms>>
      BY <2>6 DEF Platforms!Use, Platforms!MainContext, Platforms!shared, Platforms!result
    <3>4. excludes \in [Goroutines -> [1..2 -> Contents]]
      BY DEF Types
    <3>5. excludes' \in [Goroutines -> [1..2 -> Contents]]
      <4> HIDE DEF Kept
      <4>1. [excludes[i] EXCEPT ![h] = Platforms!Patterns] \in [1..2 -> Contents]
        BY <3>1, <3>4
      <4> QED BY <3>2, <3>4, <4>1
    <3> QED BY <3>3, <3>5 DEF Types
  <2>7. CASE Platforms!AddRef(i) \/ Platforms!AddMeta(i) \/ Platforms!SetSlot(i)
    BY <2>7 DEF Platforms!AddRef, Platforms!AddMeta, Platforms!SetSlot, Platforms!shared, Platforms!own, Types
  <2> QED BY <2>1, <2>2, <2>3, <2>4, <2>5, <2>6, <2>7 DEF Platforms!Goroutine
<1> QED BY <1>1, <1>2 DEF Types

LEMMA ImagesStayKeeps ==
    ASSUME build \in Builds, Types, ImagesStay, NEW i \in Goroutines, Platforms!Goroutine(i)
    PROVE  ImagesStay'
<1>1. UNCHANGED build /\ Goroutines' = Goroutines
  BY GoroutineKeeps, GoroutineMoves
<1>2. \A j \in Goroutines : Promise!Key(build, j) \in Keys /\ Promise!Key(build, j)' = Promise!Key(build, j)
  BY <1>1, BuildsAre DEF Goroutines, Platforms!Running, Keys, Promise!Key
<1>3. CASE Platforms!AddRef(i)
  <2>1. /\ pc[i] = "ref" /\ pc' = [pc EXCEPT ![i] = "meta"] /\ UNCHANGED <<configs, platforms>>
        /\ refs' = [refs EXCEPT ![Promise!Key(build, i)] = build.targets[i]]
    BY <1>3, KeysAre DEF Platforms!AddRef, Platforms!Step
  <2>2. ASSUME NEW j \in Goroutines, pc'[j] \in {"meta", "slot", "done"}
        PROVE  refs'[Promise!Key(build, j)] = build.targets[j]
    <3>1. CASE Promise!Key(build, j) = Promise!Key(build, i)
      BY <1>2, <2>1, <3>1, KeyDetermines DEF Types
    <3>2. CASE Promise!Key(build, j) # Promise!Key(build, i)
      BY <1>2, <2>1, <2>2, <3>2 DEF ImagesStay, Types
    <3> QED BY <3>1, <3>2
  <2> QED BY <1>1, <1>2, <2>1, <2>2 DEF ImagesStay, Types
<1>4. CASE Platforms!AddMeta(i)
  <2>1. /\ pc[i] = "meta" /\ pc' = [pc EXCEPT ![i] = "slot"] /\ UNCHANGED <<refs, platforms>>
        /\ configs' = [configs EXCEPT ![Promise!Key(build, i)] = build.targets[i]]
    BY <1>4, KeysAre DEF Platforms!AddMeta, Platforms!Step
  <2>2. ASSUME NEW j \in Goroutines, pc'[j] \in {"slot", "done"}
        PROVE  configs'[Promise!Key(build, j)] = build.targets[j]
    <3>1. CASE Promise!Key(build, j) = Promise!Key(build, i)
      BY <1>2, <2>1, <3>1, KeyDetermines DEF Types
    <3>2. CASE Promise!Key(build, j) # Promise!Key(build, i)
      BY <1>2, <2>1, <2>2, <3>2 DEF ImagesStay, Types
    <3> QED BY <3>1, <3>2
  <2> QED BY <1>1, <1>2, <2>1, <2>2 DEF ImagesStay, Types
<1>5. CASE Platforms!SetSlot(i)
  BY <1>1, <1>2, <1>5 DEF Platforms!SetSlot, Platforms!Step, ImagesStay, Types
<1>6. CASE ~(Platforms!AddRef(i) \/ Platforms!AddMeta(i) \/ Platforms!SetSlot(i))
  <2>1. UNCHANGED <<refs, configs, platforms>> /\ pc'[i] \notin {"meta", "slot", "done"}
    <3>1. CASE Platforms!SetWarn(i) \/ Platforms!NewLinter(i) \/ Platforms!RunRules(i) \/ Platforms!Check(i)
               \/ Platforms!LoadFails(i) \/ Platforms!LintFails(i) \/ Platforms!SolveFails(i)
      BY <3>1 DEF Platforms!SetWarn, Platforms!NewLinter, Platforms!RunRules, Platforms!Check, Platforms!LoadFails,
             Platforms!LintFails, Platforms!SolveFails, Platforms!Abort, Platforms!Step, Platforms!result, Types
    <3>2. CASE Platforms!Load(i) \/ Platforms!WritePointer(i) \/ Platforms!WriteLength(i) \/ Platforms!Use(i)
               \/ Platforms!LintPasses(i) \/ Platforms!MainContext(i) \/ Platforms!Solve(i)
      BY <3>2 DEF Platforms!Load, Platforms!WritePointer, Platforms!WriteLength, Platforms!Use, Platforms!LintPasses,
             Platforms!MainContext, Platforms!Solve, Platforms!Step, Platforms!result, Types
    <3> QED BY <1>6, <3>1, <3>2 DEF Platforms!Goroutine
  <2>2. \A j \in Goroutines : j # i => pc'[j] = pc[j]
    BY GoroutineMoves DEF Types
  <2> QED BY <1>1, <1>2, <2>1, <2>2 DEF ImagesStay
<1> QED BY <1>3, <1>4, <1>5, <1>6

LEMMA FirstLintsKeeps ==
    ASSUME build \in Builds, Types, FirstLints, NEW i \in Goroutines, Platforms!Goroutine(i)
    PROVE  FirstLints'
<1>1. UNCHANGED build /\ 1 \in Goroutines /\ Alone' = Alone /\ Promise!MustFail(build)' = Promise!MustFail(build)
  BY GoroutineKeeps, BuildsAre DEF Goroutines, Platforms!Running, Alone, Promise!MustFail
<1> SUFFICES ASSUME Alone
             PROVE  /\ pc'[1] = "new" => config' = 1
                    /\ pc'[1] \in {"rules"} \cup Ruled => linter'[1] = 1
                    /\ pc'[1] \in Ruled => (called'[1] <=> build.broken)
                    /\ pc'[1] \in Linted => ~Promise!MustFail(build)
  BY <1>1 DEF FirstLints
<1>2. CASE Platforms!SetWarn(i)
  <2>1. CASE build.own
    BY <1>1, <1>2, <2>1 DEF Platforms!SetWarn, Platforms!Step, Platforms!Warn, FirstLints, Types, Ruled, Linted, Loading, Stored
  <2>2. CASE ~build.own
    <3>1. i = 1
      BY <2>2, BuildsAre DEF Alone, Goroutines, Platforms!Running
    <3> QED BY <1>2, <2>2, <3>1 DEF Platforms!SetWarn, Platforms!Step, Platforms!Warn, Types, Ruled, Linted, Loading, Stored
  <2> QED BY <2>1, <2>2
<1>3. CASE Platforms!NewLinter(i)
  BY <1>1, <1>3 DEF Platforms!NewLinter, Platforms!Step, Platforms!shared, FirstLints, Types, Ruled, Linted, Loading, Stored
<1>4. CASE Platforms!RunRules(i)
  <2>1. /\ UNCHANGED <<config, linter>> /\ pc[i] = "rules" /\ called' = [called EXCEPT ![i] = build.broken /\ linter[i] # 0]
        /\ \E to \in {"verdict", "check"} : pc' = [pc EXCEPT ![i] = to]
    BY <1>4 DEF Platforms!RunRules, Platforms!Step, Platforms!shared
  <2>2. CASE i = 1
    <3>1. linter[1] = 1 /\ linter'[1] = 1 /\ pc'[1] \in {"verdict", "check"}
      BY <1>1, <2>1, <2>2 DEF FirstLints, Types
    <3>2. called'[1] = (build.broken /\ linter[1] # 0)
      BY <1>1, <2>1, <2>2 DEF Types
    <3>3. called'[1] <=> build.broken
      <4>1. linter[1] # 0
        BY <3>1
      <4>2. (build.broken /\ linter[1] # 0) <=> build.broken
        BY <4>1, Zenon
      <4> QED BY <3>2, <4>2, Zenon
    <3> QED BY <3>1, <3>3 DEF Linted, Stored
  <2>3. CASE i # 1
    BY <1>1, <2>1, <2>3 DEF FirstLints, Types
  <2> QED BY <2>2, <2>3
<1>5. CASE ~(Platforms!SetWarn(i) \/ Platforms!NewLinter(i) \/ Platforms!RunRules(i))
  <2>1. /\ UNCHANGED <<config, linter, called>>
        /\ pc'[i] \notin {"new", "rules"} /\ (pc'[i] \in Ruled => pc[i] \in Ruled)
        /\ pc'[i] \in Linted => pc[i] \in Linted \/ ~(build.strict /\ called[i])
    <3>1. CASE \/ Platforms!Check(i) \/ Platforms!Load(i) \/ Platforms!WritePointer(i) \/ Platforms!WriteLength(i)
               \/ Platforms!Use(i)
      BY <3>1 DEF Platforms!Check, Platforms!Load, Platforms!WritePointer, Platforms!WriteLength, Platforms!Use, Platforms!Step,
             Platforms!shared, Platforms!own, Types, Ruled, Linted, Loading, Stored
    <3>2. CASE Platforms!LintPasses(i) \/ Platforms!LoadFails(i) \/ Platforms!LintFails(i) \/ Platforms!SolveFails(i)
      BY <3>2 DEF Platforms!LintPasses, Platforms!LoadFails, Platforms!LintFails, Platforms!SolveFails, Platforms!Abort,
             Platforms!Step, Platforms!shared, Platforms!own, Types, Ruled, Linted, Loading, Stored
    <3>3. CASE Platforms!MainContext(i) \/ Platforms!Solve(i) \/ Platforms!AddRef(i) \/ Platforms!AddMeta(i) \/ Platforms!SetSlot(i)
      BY <3>3 DEF Platforms!MainContext, Platforms!Solve, Platforms!AddRef, Platforms!AddMeta, Platforms!SetSlot,
             Platforms!Step, Platforms!shared, Platforms!own, Types, Ruled, Linted, Loading, Stored
    <3> QED BY <1>5, <3>1, <3>2, <3>3 DEF Platforms!Goroutine
  <2>2. CASE i = 1
    BY <1>1, <2>1, <2>2 DEF FirstLints, Ruled, Promise!MustFail
  <2>3. CASE i # 1
    BY <1>1, <2>1, <2>3, GoroutineMoves DEF FirstLints, Types
  <2> QED BY <2>2, <2>3
<1> QED BY <1>2, <1>3, <1>4, <1>5

LEMMA CountsKeeps ==
    ASSUME build \in Builds, Types, NEW i \in Goroutines, Platforms!Goroutine(i), NEW j \in Goroutines, Counts(j)'
    PROVE  Counts(j) /\ (build.ignore = "file" => j = i /\ i = 1)
<1>1. UNCHANGED build /\ (failed => failed')
  BY GoroutineKeeps, GoroutineMoves
<1>2. Counts(j)
  BY <1>1 DEF Counts
<1> QED BY <1>2, BuildsAre DEF Counts, Goroutines, Platforms!Running

\* The steps that neither read the ignore file nor write what is known of it.
LEMMA OtherSteps ==
    ASSUME Types, NEW i \in Goroutines, Platforms!Goroutine(i),
           ~(Platforms!Check(i) \/ Platforms!Load(i) \/ Platforms!WritePointer(i) \/ Platforms!WriteLength(i))
    PROVE  /\ UNCHANGED <<ignored, read>>
           /\ pc'[i] \notin Loading
           /\ pc'[i] \in {"lint", "new", "rules", "check"} => pc[i] \in {"lint", "new", "rules", "check"}
           /\ pc'[i] \in {"use", "verdict", "context"} /\ build.ignore # "remote" => pc[i] \in {"use", "verdict"}
<1>1. CASE Platforms!SetWarn(i) \/ Platforms!NewLinter(i) \/ Platforms!RunRules(i)
  BY <1>1 DEF Platforms!SetWarn, Platforms!NewLinter, Platforms!RunRules, Platforms!Step, Platforms!shared, Types, Loading
<1>2. CASE Platforms!LoadFails(i) \/ Platforms!LintFails(i) \/ Platforms!SolveFails(i)
  BY <1>2 DEF Platforms!LoadFails, Platforms!LintFails, Platforms!SolveFails, Platforms!Abort, Platforms!shared, Platforms!own,
         Types, Loading
<1>3. CASE Platforms!Use(i) \/ Platforms!LintPasses(i) \/ Platforms!MainContext(i) \/ Platforms!Solve(i)
  BY <1>3 DEF Platforms!Use, Platforms!LintPasses, Platforms!MainContext, Platforms!Solve, Platforms!Step, Platforms!shared,
         Platforms!own, Types, Loading
<1>4. CASE Platforms!AddRef(i) \/ Platforms!AddMeta(i) \/ Platforms!SetSlot(i)
  BY <1>4 DEF Platforms!AddRef, Platforms!AddMeta, Platforms!SetSlot, Platforms!Step, Platforms!shared, Platforms!own, Types, Loading
<1> QED BY <1>1, <1>2, <1>3, <1>4 DEF Platforms!Goroutine

LEMMA PatternsKeptKeeps ==
    ASSUME build \in Builds, Types, PatternsKept, NEW i \in Goroutines, Platforms!Goroutine(i)
    PROVE  PatternsKept'
<1> DEFINE Staged(j) ==
               /\ pc[j] \in {"lint", "new", "rules", "check"} => ignored.pointer = "nil"
               /\ pc[j] \in {"pointer", "length", "pointer2", "length2"} => read[j] = "file"
               /\ pc[j] = "length2" => ignored.pointer = "file"
               /\ pc[j] = "pointer2" => ignored.length = 1
               /\ pc[j] \in {"use", "verdict", "context"} => Platforms!Patterns = "file"
<1>1. UNCHANGED build /\ Goroutines' = Goroutines
  BY GoroutineKeeps, GoroutineMoves
<1>2. \A j \in Goroutines : j # i => pc'[j] = pc[j]
  BY GoroutineMoves DEF Types
<1>3. ASSUME build.ignore = "set"
      PROVE  ignored' = [pointer |-> "file", length |-> 1] /\ \A j \in Goroutines : pc'[j] \notin Loading
  <2>1. ignored = [pointer |-> "file", length |-> 1] /\ \A j \in Goroutines : pc[j] \notin Loading
    BY <1>3 DEF PatternsKept
  <2>2. ignored' = ignored /\ pc'[i] \notin Loading
    <3>1. ~(Platforms!Load(i) \/ Platforms!WritePointer(i) \/ Platforms!WriteLength(i))
      BY <2>1 DEF Platforms!Load, Platforms!WritePointer, Platforms!WriteLength, Platforms!Step, Loading
    <3>2. CASE Platforms!Check(i)
      BY <2>1, <3>2 DEF Platforms!Check, Platforms!Step, Platforms!shared, Types, Loading
    <3> QED BY <3>1, <3>2, OtherSteps
  <2> QED BY <1>2, <2>1, <2>2
<1>4. ASSUME build.ignore = "none" PROVE ignored'.length = 0 /\ \A j \in Goroutines : read'[j] # "file"
  <2>1. ignored.length = 0 /\ \A j \in Goroutines : read[j] # "file"
    BY <1>4 DEF PatternsKept
  <2>2. CASE Platforms!Check(i)
    BY <2>1, <2>2 DEF Platforms!Check, Platforms!shared, Platforms!own
  <2>3. CASE Platforms!Load(i)
    BY <1>4, <2>1, <2>3 DEF Platforms!Load, Platforms!shared, Types
  <2>4. CASE Platforms!WritePointer(i) \/ Platforms!WriteLength(i)
    BY <2>1, <2>4 DEF Platforms!WritePointer, Platforms!WriteLength, Platforms!Length, Platforms!own, Types
  <2> QED BY <2>1, <2>2, <2>3, <2>4, OtherSteps
<1>5. ASSUME build.ignore = "file", NEW j \in Goroutines, Counts(j)' PROVE Staged(j)'
  <2>1. j = i /\ Counts(i) /\ Staged(i) /\ ~failed /\ i \notin build.faulty
    BY <1>5, CountsKeeps DEF PatternsKept, Counts
  <2>2. CASE Platforms!Check(i)
    BY <2>1, <2>2 DEF Platforms!Check, Platforms!Step, Platforms!shared, Platforms!own, Platforms!Patterns, Types
  <2>3. CASE Platforms!Load(i)
    BY <1>5, <2>1, <2>3 DEF Platforms!Load, Platforms!Step, Platforms!MayFail, Platforms!shared, Types
  <2>4. CASE Platforms!WritePointer(i)
    BY <2>1, <2>4 DEF Platforms!WritePointer, Platforms!Step, Platforms!own, Platforms!Patterns, Types
  <2>5. CASE Platforms!WriteLength(i)
    BY <2>1, <2>5 DEF Platforms!WriteLength, Platforms!Length, Platforms!Step, Platforms!own, Platforms!Patterns, Types
  <2>6. CASE ~(Platforms!Check(i) \/ Platforms!Load(i) \/ Platforms!WritePointer(i) \/ Platforms!WriteLength(i))
    BY <1>5, <2>1, <2>6, OtherSteps DEF Platforms!Patterns, Loading
  <2> QED BY <2>2, <2>3, <2>4, <2>5, <2>6
<1> QED BY <1>1, <1>3, <1>4, <1>5 DEF PatternsKept

LEMMA TakenKeeps ==
    ASSUME build \in Builds, build.ignore \in {"set", "file", "none", "remote"}, Types, PatternsKept, Taken,
           NEW i \in Goroutines, Platforms!Goroutine(i)
    PROVE  Taken'
<1> SUFFICES ASSUME NEW j \in Goroutines, Counts(j)', build.ignore # "remote"
             PROVE  /\ pc'[j] \in {"verdict"} \cup Linted => excludes'[j][1] = Right
                    /\ pc'[j] \in Stored => excludes'[j][2] = Right
  BY GoroutineKeeps, GoroutineMoves DEF Taken, Right
<1>1. Counts(j) /\ (pc[j] \in {"verdict"} \cup Linted => excludes[j][1] = Right) /\ (pc[j] \in Stored => excludes[j][2] = Right)
  BY CountsKeeps DEF Taken
<1>2. pc[i] \in {"use", "context"} /\ i = j => Platforms!Patterns = Right
  BY <1>1 DEF PatternsKept, Platforms!Patterns, Right
<1>3. CASE Platforms!Use(i)
  BY <1>1, <1>2, <1>3 DEF Platforms!Use, Platforms!Step, Types, Linted, Stored
<1>4. CASE Platforms!MainContext(i)
  BY <1>1, <1>2, <1>4 DEF Platforms!MainContext, Platforms!Step, Types, Linted, Stored
<1>5. CASE ~(Platforms!Use(i) \/ Platforms!MainContext(i))
  <2>1. /\ excludes' = excludes
        /\ pc'[i] \in {"verdict"} \cup Linted => pc[i] \in {"verdict"} \cup Linted
        /\ pc'[i] \in Stored => pc[i] \in Stored
    <3>1. CASE Platforms!SetWarn(i) \/ Platforms!NewLinter(i) \/ Platforms!RunRules(i)
      BY <3>1 DEF Platforms!SetWarn, Platforms!NewLinter, Platforms!RunRules, Platforms!Step, Types, Linted, Stored
    <3>2. CASE Platforms!Check(i) \/ Platforms!Load(i) \/ Platforms!WritePointer(i) \/ Platforms!WriteLength(i)
      BY <3>2 DEF Platforms!Check, Platforms!Load, Platforms!WritePointer, Platforms!WriteLength, Platforms!Step, Platforms!own,
             Types, Linted, Stored
    <3>3. CASE Platforms!LoadFails(i) \/ Platforms!LintFails(i) \/ Platforms!SolveFails(i)
      BY <3>3 DEF Platforms!LoadFails, Platforms!LintFails, Platforms!SolveFails, Platforms!Abort, Platforms!own,
             Types, Linted, Stored
    <3>4. CASE Platforms!LintPasses(i) \/ Platforms!Solve(i) \/ Platforms!AddRef(i) \/ Platforms!AddMeta(i) \/ Platforms!SetSlot(i)
      BY <3>4 DEF Platforms!LintPasses, Platforms!Solve, Platforms!AddRef, Platforms!AddMeta, Platforms!SetSlot, Platforms!Step,
             Platforms!own, Types, Linted, Stored
    <3> QED BY <1>5, <3>1, <3>2, <3>3, <3>4 DEF Platforms!Goroutine
  <2>2. j # i => pc'[j] = pc[j]
    BY GoroutineMoves DEF Types
  <2> QED BY <1>1, <2>1, <2>2
<1> QED BY <1>3, <1>4, <1>5

(***************************************************************************)
(* The answer                                                              *)
(***************************************************************************)

\* When the last goroutine has ended without an error, every image is there
\* under its key and in its slot.
LEMMA WaitGathers ==
    ASSUME BuildInv, build # Promise!NoBuild, Platforms!Wait
    PROVE  answer' = IF failed THEN Promise!Error ELSE Promise!Whole(build)
<1>1. CASE failed
  BY <1>1 DEF Platforms!Wait, Platforms!Promise!Error, Promise!Error
<1>2. CASE ~failed
  <2>1. /\ \A i \in Goroutines : pc[i] = "done"
        /\ answer' = [kind |-> "images", refs |-> refs, configs |-> configs, platforms |-> platforms]
    BY <1>2 DEF Platforms!Wait, BuildInv, ErrorsStay, Goroutines
  <2>2. build \in Builds /\ Types /\ ImagesStay
    BY DEF BuildInv
  <2>3. Goroutines = DOMAIN build.targets /\ Goroutines = 1..Len(build.targets) /\ 1 \in Goroutines
    BY <2>2, BuildsAre DEF Goroutines, Platforms!Running
  <2>4. platforms = build.targets
    <3>1. build.targets \in [Goroutines -> STRING]
      BY <2>2, <2>3, BuildsAre
    <3>2. \A i \in Goroutines : platforms[i] = build.targets[i]
      BY <2>1, <2>2 DEF ImagesStay
    <3> QED BY <2>2, <3>1, <3>2 DEF Types
  <2>5. \A key \in Keys : refs[key] = Promise!Images(build)[key] /\ configs[key] = Promise!Images(build)[key]
    <3> SUFFICES ASSUME NEW key \in Keys
                 PROVE  refs[key] = Promise!Images(build)[key] /\ configs[key] = Promise!Images(build)[key]
      OBVIOUS
    <3>1. PICK i \in Goroutines : key = Promise!Key(build, i)
      BY <2>3 DEF Keys, Promise!Keys
    <3>2. refs[key] = build.targets[i] /\ configs[key] = build.targets[i]
      BY <2>1, <2>2, <3>1 DEF ImagesStay
    <3>3. Promise!Images(build)[key] = IF build.multi THEN key ELSE build.targets[1]
      BY DEF Promise!Images, Keys
    <3>4. CASE build.multi
      BY <3>1, <3>2, <3>3, <3>4 DEF Promise!Key
    <3>5. CASE ~build.multi
      BY <2>2, <2>3, <3>1, <3>2, <3>3, <3>5, KeyDetermines DEF Promise!Key
    <3> QED BY <3>4, <3>5
  <2>6. refs = Promise!Images(build) /\ configs = Promise!Images(build)
    <3>1. Promise!Images(build) = [key \in Keys |-> Promise!Images(build)[key]]
      BY DEF Promise!Images, Keys
    <3> QED BY <2>2, <2>5, <3>1 DEF Types
  <2> QED BY <1>2, <2>1, <2>4, <2>6 DEF Promise!Whole
<1> QED BY <1>1, <1>2

LEMMA BuildInvInit == Init => BuildInv
BY DEF Init, Platforms!Init, BuildInv, Platforms!Promise!NoBuild, Promise!NoBuild

LEMMA BuildInvKeeps == ASSUME FrontInv, Begun, BuildInv, [Next]_vars PROVE BuildInv'
<1>1. CASE UNCHANGED during
  BY <1>1 DEF during, BuildInv, Types, ErrorsStay, ImagesStay, FirstLints, PatternsKept, Taken, Answered, Goroutines, Keys,
         Platforms!Running, Platforms!Patterns, Alone, Counts, Right, Promise!Keys, Promise!Key, Promise!MustFail, Promise!Whole,
         Promise!Images
<1>2. CASE Begin
  BY <1>2, BuildBegins
<1>3. CASE Wait
  <2>1. build # Promise!NoBuild /\ UNCHANGED <<build, pc, config, ignored, linter, called, read, excludes, refs, configs, platforms, failed>>
    BY <1>3, BuildIsNone DEF Wait, Platforms!Wait, Platforms!shared, Platforms!own, Platforms!result
  <2>2. Answered'
    BY <1>3, <2>1, WaitGathers DEF Wait, Answered, Promise!Whole, Promise!Images, Promise!Keys, Promise!Key
  <2> QED BY <2>1, <2>2 DEF BuildInv, Types, ErrorsStay, ImagesStay, FirstLints, PatternsKept, Taken, Goroutines, Keys,
         Platforms!Running, Platforms!Patterns, Alone, Counts, Right, Promise!Keys, Promise!Key, Promise!MustFail
<1>4. ASSUME NEW i \in Platforms!Running, Goroutine(i) PROVE BuildInv'
  <2>1. Platforms!Goroutine(i) /\ UNCHANGED <<build, answer>> /\ i \in Goroutines /\ build # Promise!NoBuild
    BY <1>4, GoroutineKeeps DEF Goroutine, Goroutines, Platforms!Running, Promise!NoBuild
  <2>2. /\ build \in Builds /\ build.ignore \in {"set", "file", "none", "remote"} /\ Types /\ ErrorsStay /\ ImagesStay
        /\ FirstLints /\ PatternsKept /\ Taken /\ Answered
    BY <2>1 DEF BuildInv
  <2>3. Answered'
    BY <2>1, <2>2 DEF Answered, Promise!Whole, Promise!Images, Promise!Keys, Promise!Key
  <2> QED BY <2>1, <2>2, <2>3, TypesKeep, ErrorsStayKeeps, ImagesStayKeeps, FirstLintsKeeps, PatternsKeptKeeps, TakenKeeps
         DEF BuildInv
<1> QED BY <1>1, <1>2, <1>3, <1>4 DEF Next, BeforeBuild, vars

(***************************************************************************)
(* Theorems                                                                *)
(***************************************************************************)

Inv == FrontInv /\ Begun /\ BuildInv

LEMMA Invariant == Spec => []Inv
<1>1. Init => Inv
  BY FrontInit, BegunInit, BuildInvInit DEF Inv
<1>2. Inv /\ [Next]_vars => Inv'
  <2> SUFFICES ASSUME Inv, [Next]_vars PROVE Inv'
    OBVIOUS
  <2>1. [BeforeBuild]_before
    BY DEF Next, Begin, Wait, Goroutine, vars
  <2> QED BY <2>1, FrontKeeps, BegunKeeps, BuildInvKeeps DEF Inv
<1> QED BY <1>1, <1>2, PTL DEF Spec

\* Whatever the sources of a request and the files in them: the recipe that is
\* built is the one the user means (initContext and ReadEntrypoint).
THEOREM RecipeIsTheUsersHolds == Spec => []RecipeIsTheUsers
<1>1. Inv => RecipeIsTheUsers
  BY RecipeOfTheInvariant DEF Inv
<1> QED BY <1>1, Invariant, PTL

\* A local context is narrowed by the recipe's own ignore file exactly when
\* that holds something and could be read (ReadEntrypoint).
THEOREM IgnoreFileOfTheRecipeHolds == Spec => []IgnoreFileOfTheRecipe
<1>1. Inv => IgnoreFileOfTheRecipe
  BY IgnoreOfTheInvariant DEF Inv
<1> QED BY <1>1, Invariant, PTL

\* In every order of the goroutines and of the halves that they write: whoever
\* does not race for the ignore file checks and sends by its patterns
\* (ggufpackerIgnorePatterns).
THEOREM PatternsAreOfTheFileHolds == Spec => []PatternsAreOfTheFile
<1>1. Inv => PatternsAreOfTheFile
  <2> SUFFICES ASSUME BuildInv, NEW i \in Platforms!Running, pc[i] = "done", Counts(i), build.ignore # "remote"
               PROVE  excludes[i] = IF build.ignore = "none" THEN <<"empty", "empty">> ELSE <<"file", "file">>
    BY DEF PatternsAreOfTheFile, Counts, Inv
  <2>1. build # Promise!NoBuild
    BY DEF Platforms!Running, Promise!NoBuild
  <2>2. excludes[i] \in [1..2 -> Contents] /\ excludes[i][1] = Right /\ excludes[i][2] = Right
    BY <2>1 DEF BuildInv, Types, Taken, Goroutines, Linted, Stored
  <2>3. excludes[i] = <<Right, Right>>
    BY <2>2, PairsAre
  <2> QED BY <2>3 DEF Right
<1> QED BY <1>1, Invariant, PTL

\* No platform is missing from an answer, and none is answered for another:
\* what Wait returns is an error or the image of each, even if linters are shared.
THEOREM AnswersAreWhole == Spec => [](build # Promise!NoBuild => Answered)
<1>1. Inv => (build # Promise!NoBuild => Answered)
  BY DEF Inv, BuildInv
<1> QED BY <1>1, Invariant, PTL

\* A client has no LinterConfig unless the request has options for the linter;
\* with one, the platforms of a build race for its Warn (see the run
\* shared_linter): strict rules are kept where they do not.
OwnLinters == \A b \in Builds : Len(b.targets) > 1 /\ b.strict => b.own

LEMMA ToldIs == ASSUME Inv, build # Promise!NoBuild PROVE Told = answer
BY DEF Inv, Begun, Told

LEMMA RefinesInit == Init => Promise!Init
BY DEF Init, Front!Init, Platforms!Init, Promise!Init, Told, Platforms!Promise!NoBuild, Promise!NoBuild,
       Platforms!Promise!NoAnswer, Promise!NoAnswer

LEMMA RefinesBefore == ASSUME Inv, BeforeBuild PROVE [Promise!Next]_<<build, Told>>
<1>1. /\ UNCHANGED during /\ phase \notin {"answered", "failed"} /\ build = Promise!NoBuild
      /\ phase' \in Phases
  BY FrontKeeps DEF Inv, FrontInv, Begun, BeforeBuild, before, Front!Next, Front!CallFails, Front!NewClientFails, Front!NewClient,
     Front!DetectGitContext, Front!DetectHTTPContext, Front!FrontendInputs, Front!ReadFails, Front!ReadEntrypoint,
     Front!NoSubrequest, Front!Subrequest, Front!SubrequestFails
<1>2. answer = Promise!NoAnswer /\ answer' = Promise!NoAnswer /\ Told = Promise!NoAnswer
  BY <1>1 DEF Inv, Begun, during, Told
<1>3. Told' \in {Promise!Error, Promise!Subanswer, Promise!NoAnswer}
  BY <1>2 DEF Told, Promise!Error, Promise!Subanswer
<1> QED BY <1>1, <1>2, <1>3 DEF Promise!Next, Promise!Decline, during

LEMMA RefinesBegin == ASSUME Inv, Begin PROVE Promise!Next
<1>1. PICK b \in Builds : Platforms!Begin(b)
  BY DEF Begin
<1>2. build = Promise!NoBuild /\ build' = b /\ answer' = answer /\ answer = Promise!NoAnswer /\ UNCHANGED phase
  BY <1>1, BuildIsNone DEF Begin, Platforms!Begin, Inv, Begun, before
<1>3. phase = "build"
  BY DEF Begin
<1> QED BY <1>1, <1>2, <1>3 DEF Promise!Next, Promise!Begin, Told

LEMMA OneOrSeveral == \A b \in Builds : Len(b.targets) # 1 => Len(b.targets) > 1
<1> TAKE b \in Builds
<1>1. Len(b.targets) \in Nat /\ Len(b.targets) > 0
  BY BuildsAre
<1>2. \A n \in Nat : n > 0 /\ n # 1 => n > 1
  OBVIOUS
<1> QED BY <1>1, <1>2, Zenon

LEMMA SharedAreLenient ==
    ASSUME OwnLinters, NEW b \in Builds, ~(b.own \/ Len(b.targets) = 1)
    PROVE  ~Promise!MustFail(b)
<1>1. ~b.own /\ Len(b.targets) > 1
  BY OneOrSeveral, Zenon
<1>2. ~(b.strict /\ ~b.own)
  BY <1>1, Zenon DEF OwnLinters
<1> QED BY <1>1, <1>2, Zenon DEF Promise!MustFail

LEMMA RefinesWait == ASSUME OwnLinters, Inv, Wait PROVE Promise!Next
<1>1. Platforms!Wait /\ build # Promise!NoBuild /\ answer = Promise!NoAnswer /\ UNCHANGED <<build, phase>>
  BY BuildIsNone DEF Wait, Platforms!Wait, before
<1>2. Told = answer /\ Told' = answer'
  BY <1>1 DEF Inv, Begun, Told
<1>3. answer' = IF failed THEN Promise!Error ELSE Promise!Whole(build)
  BY <1>1, WaitGathers DEF Inv
<1>4. ~failed => ~Promise!MustFail(build)
  <2> SUFFICES ASSUME ~failed PROVE ~Promise!MustFail(build)
    OBVIOUS
  <2>1. build \in Builds /\ FirstLints /\ 1 \in Goroutines /\ Len(build.targets) \in Nat /\ Len(build.targets) > 0
    BY <1>1, BuildsAre DEF Inv, BuildInv, Goroutines, Platforms!Running
  <2>2. pc[1] = "done"
    BY <1>1, <2>1 DEF Platforms!Wait, Inv, BuildInv, ErrorsStay, Goroutines
  <2>3. CASE Alone
    BY <2>1, <2>2, <2>3 DEF FirstLints, Linted, Stored
  <2>4. CASE ~Alone
    <3>1. ~(build.own \/ Len(build.targets) = 1)
      BY <2>4, Zenon DEF Alone
    <3> QED BY <2>1, <3>1, SharedAreLenient, Zenon
  <2> QED BY <2>3, <2>4
<1> QED BY <1>1, <1>2, <1>3, <1>4 DEF Promise!Next, Promise!Fail, Promise!Succeed

\* Build keeps its promise: one answer, an error or all images under their keys
\* and in their slots, an error for certain where broken rules must fail, and no
\* build for what is no request for an image.
THEOREM BuildRefinesItsPromise == ASSUME OwnLinters PROVE Spec => ImplementsBuildResult
<1>1. Init => Promise!Init
  BY RefinesInit
<1>2. Inv /\ [Next]_vars => [Promise!Next]_<<build, Told>>
  <2> SUFFICES ASSUME Inv, [Next]_vars PROVE [Promise!Next]_<<build, Told>>
    OBVIOUS
  <2>1. CASE BeforeBuild
    BY <2>1, RefinesBefore
  <2>2. CASE Begin
    BY <2>2, RefinesBegin
  <2>3. CASE Wait
    BY <2>3, RefinesWait
  <2>4. ASSUME NEW i \in Platforms!Running, Goroutine(i) PROVE UNCHANGED <<build, Told>>
    BY <2>4, GoroutineKeeps DEF Goroutine, before, Told
  <2>5. CASE UNCHANGED vars
    BY <2>5 DEF vars, before, during, Told
  <2> QED BY <2>1, <2>2, <2>3, <2>4, <2>5 DEF Next
<1>3. Inv /\ Inv' /\ [Next]_vars => [build' # build => request.requestid = ""]_vars
  <2> SUFFICES ASSUME Inv, Inv', [Next]_vars, build' # build PROVE request.requestid = ""
    OBVIOUS
  <2>1. phase = "build"
    BY GoroutineKeeps DEF Next, vars, during, BeforeBuild, Begin, Wait, Platforms!Wait, Goroutine
  <2> QED BY <2>1 DEF Inv, FrontInv
<1> QED BY <1>1, <1>2, <1>3, Invariant, PTL DEF Spec, ImplementsBuildResult, Promise!Spec
=============================================================================
