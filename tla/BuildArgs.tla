------------------------------ MODULE BuildArgs ------------------------------
(***************************************************************************)
(* The arguments of a build: from the options, the platform and the global *)
(* and local ARG instructions, toDispatchState and dispatchArg of          *)
(* ggufpackerfile2llb/convert.go make the environment of every stage, and  *)
(* outline.go lists the arguments that the target uses.                    *)
(*                                                                         *)
(* DefaultFirst, OnlyFromImage, Shallow and ExpandAlways are wrong variants *)
(* of the definitions that follow them: the checks show that the           *)
(* properties of this module tell them from the code.                      *)
(***************************************************************************)
EXTENDS Naturals, Sequences

CONSTANTS
    Key,            \* names of arguments
    PlatformArgs,   \* those of the platform with their values
    Recipes,        \* global arguments and stages
    Given           \* build arguments: functions from some keys to values

Word == [kind : {"none", "text", "ref", "must"}, of : STRING]
Arg == [key : Key, default : Word]

\* The platform has arguments of its own, and a recipe without a stage is refused.
ASSUME BuildArgsAssumption ==
    /\ PlatformArgs \in Seq([key : Key, value : STRING]) /\ PlatformArgs # <<>>
    /\ \A r \in Recipes :
           /\ r.globals \in Seq(Arg)
           /\ r.stages \in Seq([name : STRING, from : Word, args : Seq(Arg)]) /\ r.stages # <<>>
    /\ \A g \in Given : \A k \in DOMAIN g : k \in Key /\ g[k] \in STRING

(***************************************************************************)
(* An argument is a key and its default: none, a text, a reference to      *)
(* another key ("${K}"), or one that must be set ("${K:?}").  A recipe has *)
(* global arguments and stages; a stage has a name, what it is FROM (a     *)
(* text or a reference) and its own arguments.  The target is the last.    *)
(***************************************************************************)
VARIABLES
    recipe, given,
    phase,
    metaArgs, allArgs,   \* the global arguments with values, and their dependencies by key
    warned,              \* stages that the linter warns of
    at, arg,             \* the stage and the argument of it that is next
    base,                \* the stage that a stage is FROM, 0 if it is an image
    env,                 \* the environment of a stage
    info, used,          \* the outline of a stage
    stack,               \* the calls of markAllUsed: keys each has still to see
    listed               \* keys in the outline of the target

convert == <<metaArgs, allArgs, warned, base, env>>
vars == <<recipe, given, phase, convert, at, arg, info, used, stack, listed>>

Stages == recipe.stages
Target == Len(Stages)

\* The value of a pointer that is nil.
Nil == "nil"
Empty == [k \in {} |-> ""]
\* Two maps by key, of which the first prevails.
Over(m, n) == [k \in DOMAIN m \cup DOMAIN n |-> IF k \in DOMAIN m THEN m[k] ELSE n[k]]

(* Words *)

Expands(word, e) == word.kind = "must" => word.of \in DOMAIN e /\ e[word.of] # ""
Expand(word, e) == IF word.kind = "text" THEN word.of ELSE IF word.of \in DOMAIN e THEN e[word.of] ELSE ""
Matched(word, e) == {word.of} \cap (IF word.kind = "text" THEN {} ELSE DOMAIN e)

\* The later of two arguments with one key counts.
ArgsToEnvs(args) ==
    [k \in {args[i].key : i \in 1..Len(args)} |->
        LET i == CHOOSE i \in 1..Len(args) : args[i].key = k /\ \A j \in i + 1..Len(args) : args[j].key # k
        IN  args[i].value]
MetaArgsToEnvs(args) == [k \in DOMAIN ArgsToEnvs(args) |-> IF ArgsToEnvs(args)[k] = Nil THEN "" ELSE ArgsToEnvs(args)[k]]

(* Global arguments *)

\* With the values that are given in place of those of the platform.
OptMetaArgs ==
    [i \in 1..Len(PlatformArgs) |->
        IF PlatformArgs[i].key \in DOMAIN given THEN [PlatformArgs[i] EXCEPT !.value = given[PlatformArgs[i].key]] ELSE PlatformArgs[i]]

AddMetaArg(built, a, values) ==
    LET e == MetaArgsToEnvs(built.args)
        value == IF a.key \in DOMAIN values THEN values[a.key]
                 ELSE IF a.default.kind = "none" THEN Nil ELSE Expand(a.default, e)
        deps == IF a.key \in DOMAIN values \/ a.default.kind = "none" THEN {} ELSE Matched(a.default, e)
    IN  [args |-> Append(built.args, [key |-> a.key, value |-> value]),
         all |-> Over([k \in {a.key} |-> deps], built.all),
         failed |-> built.failed \/ ~(a.key \in DOMAIN values \/ Expands(a.default, e))]

BuildMetaArgs(start, values) ==
    LET built[n \in 0..Len(recipe.globals)] ==
            IF n = 0 THEN [args |-> start, all |-> [k \in {} |-> {}], failed |-> FALSE]
            ELSE AddMetaArg(built[n - 1], recipe.globals[n], values)
    IN  built[Len(recipe.globals)]

Init ==
    /\ recipe \in Recipes /\ given \in Given
    /\ phase = "lint"
    /\ metaArgs = <<>> /\ allArgs = [k \in {} |-> {}]
    /\ warned = {}
    /\ at = 1 /\ arg = 1
    /\ base = <<>>
    /\ env = [i \in 1..Len(recipe.stages) |-> Empty]
    /\ info = <<>> /\ used = <<>>
    /\ stack = <<>> /\ listed = {}

Stop(where) == phase' = where /\ UNCHANGED <<recipe, given, convert, at, arg, info, used, stack, listed>>

\* The stages with a blank name, which is that of no image.
Blank(built) ==
    LET e == MetaArgsToEnvs(built.args)
    IN  IF built.failed THEN {}
        ELSE {i \in 1..Target : Expand(Stages[i].from, e) = "" /\ \A j \in 1..i : Expands(Stages[j].from, e)}

ValidateBaseImagesWithDefaultArgs ==
    /\ phase = "lint"
    /\ warned' = Blank(BuildMetaArgs(OptMetaArgs, Empty))
    /\ phase' = "meta"
    /\ UNCHANGED <<recipe, given, metaArgs, allArgs, base, env, at, arg, info, used, stack, listed>>

MetaArgs ==
    /\ phase = "meta" /\ ~BuildMetaArgs(OptMetaArgs, given).failed
    /\ metaArgs' = BuildMetaArgs(OptMetaArgs, given).args
    /\ allArgs' = BuildMetaArgs(OptMetaArgs, given).all
    /\ phase' = "from"
    /\ UNCHANGED <<recipe, given, warned, base, env, at, arg, info, used, stack, listed>>

MetaArgsFail == phase = "meta" /\ BuildMetaArgs(OptMetaArgs, given).failed /\ Stop("failed")

(* The stages and their bases *)

FromEnv == MetaArgsToEnvs(metaArgs)
BaseName == Expand(Stages[at].from, FromEnv)

FromFails == phase = "from" /\ (~Expands(Stages[at].from, FromEnv) \/ BaseName = "") /\ Stop("failed")

\* A stage that is FROM another starts with its outline.
From ==
    /\ phase = "from"
    /\ Expands(Stages[at].from, FromEnv) /\ BaseName # ""
    /\ LET named == {j \in 1..at - 1 : Stages[j].name = BaseName}
           b == IF named = {} THEN 0 ELSE CHOOSE j \in named : \A k \in named : k <= j
       IN  /\ base' = Append(base, b)
           /\ info' = Append(info, IF b = 0 THEN allArgs ELSE info[b])
           /\ used' = Append(used, Matched(Stages[at].from, FromEnv) \cup (IF b = 0 THEN {} ELSE used[b]))
    /\ at' = IF at = Target THEN 1 ELSE at + 1
    /\ phase' = IF at = Target THEN "stage" ELSE "from"
    /\ UNCHANGED <<recipe, given, metaArgs, allArgs, warned, env, arg, stack, listed>>

(* The environment of a stage *)

\* The bases of a stage: with itself, what a build of it goes through.
Chain(i) ==
    LET up[n \in 0..Target] == IF n = 0 THEN i ELSE IF up[n - 1] = 0 THEN 0 ELSE base[up[n - 1]]
    IN  {up[n] : n \in 0..Target} \ {0}

SkipStage ==
    /\ phase = "stage" /\ at \notin Chain(Target)
    /\ at' = at + 1
    /\ UNCHANGED <<recipe, given, phase, convert, arg, info, used, stack, listed>>

\* A wrong environment: a stage keeps the values of its base.
OnlyFromImage(inherited) == Over(inherited, ArgsToEnvs(metaArgs))
\* Every global argument is put into every stage.
AddMetaArgs(inherited) == Over(ArgsToEnvs(metaArgs), inherited)

InitStage ==
    /\ phase = "stage" /\ at \in Chain(Target)
    /\ \A i \in 1..Len(metaArgs) : metaArgs[i].value # Nil
    /\ env' = [env EXCEPT ![at] = AddMetaArgs(IF base[at] = 0 THEN Empty ELSE env[base[at]])]
    /\ arg' = 1
    /\ phase' = "args"
    /\ UNCHANGED <<recipe, given, metaArgs, allArgs, warned, base, at, info, used, stack, listed>>

\* The value of a pointer that is nil: a panic.
InitStagePanics ==
    /\ phase = "stage" /\ at \in Chain(Target)
    /\ \E i \in 1..Len(metaArgs) : metaArgs[i].value = Nil
    /\ Stop("panic")

Args == Stages[at].args
HasValue(a) == a.key \in DOMAIN given
IsGlobal(a) == a.key \in DOMAIN ArgsToEnvs(metaArgs)

\* A wrong order: the default is looked at before what is given.
DefaultFirst(a) ==
    IF a.default.kind # "none" THEN Expand(a.default, env[at])
    ELSE IF HasValue(a) THEN given[a.key]
    ELSE IF IsGlobal(a) THEN ArgsToEnvs(metaArgs)[a.key] ELSE Nil
ArgValue(a) ==
    IF HasValue(a) THEN given[a.key]
    ELSE IF a.default.kind # "none" THEN Expand(a.default, env[at])
    ELSE IF IsGlobal(a) THEN ArgsToEnvs(metaArgs)[a.key] ELSE Nil

\* A wrong check: a default is expanded even where another value is given.
ExpandAlways(a) == ~Expands(a.default, env[at])
ArgFails(a) == ~HasValue(a) /\ ~Expands(a.default, env[at])

DispatchArgFails == phase = "args" /\ arg <= Len(Args) /\ ArgFails(Args[arg]) /\ Stop("failed")

DispatchArg ==
    /\ phase = "args" /\ arg <= Len(Args)
    /\ LET a == Args[arg]
           value == ArgValue(a)
           skipArgInfo == a.default.kind = "none" /\ ~HasValue(a) /\ IsGlobal(a)
       IN  /\ ~ArgFails(a)
           /\ env' = IF value = Nil THEN env ELSE [env EXCEPT ![at] = Over([k \in {a.key} |-> value], @)]
           /\ info' = IF skipArgInfo THEN info ELSE [info EXCEPT ![at] = Over([k \in {a.key} |-> {}], @)]
           /\ used' = [used EXCEPT ![at] = @ \cup {a.key}]
    /\ arg' = arg + 1
    /\ UNCHANGED <<recipe, given, phase, metaArgs, allArgs, warned, base, at, stack, listed>>

\* The target is the last stage; the outline begins with it.
EndStage ==
    /\ phase = "args" /\ arg > Len(Args)
    /\ phase' = IF at = Target THEN "outline" ELSE "stage"
    /\ at' = IF at = Target THEN at ELSE at + 1
    /\ stack' = IF at = Target THEN <<used[at]>> ELSE <<>>
    /\ UNCHANGED <<recipe, given, convert, arg, info, used, listed>>

(* The outline *)

\* A wrong search: one level of dependencies.
Shallow(k) == IF Len(stack) > 1 THEN {} ELSE info[at][k]
Deps(k) == info[at][k]

\* Every key calls for its dependencies, whether they have been seen or not.
MarkAllUsed(k) ==
    /\ phase = "outline" /\ stack # <<>>
    /\ k \in Head(stack)
    /\ used' = [used EXCEPT ![at] = @ \cup {k}]
    /\ stack' = (IF k \in DOMAIN info[at] THEN <<Deps(k)>> ELSE <<>>) \o <<Head(stack) \ {k}>> \o Tail(stack)
    /\ phase' = IF Len(stack') > Len(recipe.globals) + 2 THEN "overflow" ELSE phase
    /\ UNCHANGED <<recipe, given, convert, at, arg, info, listed>>

Return ==
    /\ phase = "outline" /\ stack # <<>>
    /\ Head(stack) = {}
    /\ stack' = Tail(stack)
    /\ UNCHANGED <<recipe, given, phase, convert, at, arg, info, used, listed>>

\* What this stage uses is listed, and its base is next.
ListArgs ==
    /\ phase = "outline" /\ stack = <<>>
    /\ listed' = listed \cup (used[at] \cap DOMAIN info[at])
    /\ IF base[at] = 0 THEN phase' = "outlined" /\ UNCHANGED <<at, stack>>
       ELSE at' = base[at] /\ stack' = <<used[base[at]]>> /\ UNCHANGED phase
    /\ UNCHANGED <<recipe, given, convert, arg, info, used>>

Next ==
    \/ ValidateBaseImagesWithDefaultArgs \/ MetaArgs \/ MetaArgsFail
    \/ From \/ FromFails
    \/ SkipStage \/ InitStage \/ InitStagePanics \/ DispatchArg \/ DispatchArgFails \/ EndStage
    \/ (\E k \in Key : MarkAllUsed(k)) \/ Return \/ ListArgs

Spec == Init /\ [][Next]_vars

-----------------------------------------------------------------------------
(* Properties *)

\* The stages whose environment has been made, and the arguments seen in each.
Begun(i) == phase = "args" /\ i \in Chain(Target) /\ i <= at
SeenIn(i) == {Stages[i].args[j].key : j \in 1..(IF i = at THEN arg - 1 ELSE Len(Stages[i].args))}

\* A value that is given with the build prevails over every default, of the
\* platform, a global argument, one of the stage or of a base, in all stages.
GivenPrevails ==
    \A i \in 1..Target : Begun(i) =>
        \A k \in DOMAIN env[i] \cap DOMAIN given : env[i][k] = given[k]

\* A global argument has its global value in every stage that does not set it
\* itself, also if a stage that it is FROM does.
SameInEveryStage ==
    \A i \in 1..Target : Begun(i) =>
        \A k \in DOMAIN ArgsToEnvs(metaArgs) \ SeenIn(i) :
            k \in DOMAIN env[i] /\ env[i][k] = ArgsToEnvs(metaArgs)[k]

\* A default that must not fail cannot fail where another value is given: if
\* everything that is declared is given, only the name of a base can be wrong.
IgnoredDefaultsNeverFail ==
    phase = "failed" /\ (\A i \in 1..Len(recipe.globals) : recipe.globals[i].key \in DOMAIN given)
        /\ (\A i \in 1..Target : \A j \in 1..Len(Stages[i].args) : Stages[i].args[j].key \in DOMAIN given)
    => metaArgs # <<>> /\ Len(base) < Target

\* What a stage uses, with all that it depends on.
Reaches(i, from) ==
    LET more[n \in 0..Len(recipe.globals) + 1] ==
            IF n = 0 THEN from
            ELSE more[n - 1] \cup UNION {info[i][k] : k \in more[n - 1] \cap DOMAIN info[i]}
    IN  more[Len(recipe.globals) + 1]

\* The outline of a target has all that it and its bases use, directly or
\* through defaults, and its search goes on for ever only if a default depends
\* on itself through another of the same name.
OutlineIsWhole ==
    /\ phase = "outlined" =>
           listed = UNION {Reaches(i, used[i]) \cap DOMAIN info[i] : i \in Chain(Target)}
    /\ phase = "overflow" => \E k \in used[at] \cap DOMAIN info[at] : k \in Reaches(at, info[at][k])

\* instructions/commands.go:18: a key has an optional value.
ValuesAreOptional == phase # "panic"

\* convert.go:2301: the linter looks at the bases as if nothing was given.
LintedWithDefaults == phase # "lint" => warned = Blank(BuildMetaArgs(PlatformArgs, Empty))
=============================================================================
