------------------------------ MODULE Convert ------------------------------
(***************************************************************************)
(* toDispatchState of ggufpackerfile2llb/convert.go: the stages of a       *)
(* recipe become dispatch states, which point to each other through FROM   *)
(* (base) and --from (sources); their images are resolved by one goroutine *)
(* each; then the states are dispatched in order, command by command.      *)
(*                                                                         *)
(* The content of a state is the set of vertices of its LLB graph: enough  *)
(* to tell a finished stage from one that is read too early.               *)
(*                                                                         *)
(* NoCircle, Sourced, Everything, Unsettled, Hangs and InheritContent are  *)
(* wrong variants of the definitions that follow them: the checks show     *)
(* that the properties of this module tell them from the code.             *)
(***************************************************************************)
EXTENDS Recipe

CONSTANTS
    MaxStates,      \* bound: dispatch states of a conversion
    Inputs          \* the recipes and options to convert

ASSUME MaxStatesAssumption == MaxStates \in Nat
ASSUME InputsAssumption ==
    /\ Inputs \subseteq Input
    /\ \A in \in Inputs : Len(in.stages) <= MaxStates

Id == 1..MaxStates
None == 0

VARIABLES
    input,
    phase,     \* which part of toDispatchState is running
    pos,       \* its loop over the stages or over the states
    cmd,       \* its loop over the commands of a state; 0 before the state is entered
    n,         \* dispatch states created so far
    order,     \* allDispatchStates.states, which may hold a state twice
    byName,    \* allDispatchStates.statesByName
    stage,     \* d.stage
    base,      \* d.base
    implicit,  \* states with d.unregistered: images behind --from and the tools
    srcs,      \* srcs[d][k]: command.sources of the k-th command
    noinit,    \* states with d.noinit
    fs,        \* d.state
    pathsOf,   \* the map that d.paths points to, by the state that made it
    paths,     \* content of those maps
    ctxPaths,  \* the union of the ctxPaths of the states dispatched so far
    target,    \* the state that is converted
    reach,     \* allReachable
    job,       \* the goroutine of each position of the resolve loop
    fetched,   \* images whose config the registry was asked for
    copied     \* states that some COPY --from has read

graph == <<n, order, byName, stage, base, implicit, srcs>>
result == <<fs, noinit, pathsOf, paths, ctxPaths>>
vars == <<input, phase, pos, cmd, graph, result, target, reach, job, fetched, copied>>

-----------------------------------------------------------------------------

\* The states that d takes sources from: the keys of d.deps.
Deps(d) == UNION {{srcs[d][k][j] : j \in DOMAIN srcs[d][k]} : k \in DOMAIN srcs[d]}

NoCircle == FALSE
Circular == \E S \in SUBSET Id : S # {} /\ \A d \in S : Deps(d) \cap S # {}

Sourced(d) == Deps(d) \ {None}
Parents(d) == (Deps(d) \cup {base[d]}) \ {None}
Everything(t) == Id
Reachable(t) ==
    {i \in Id : \A S \in SUBSET Id :
        (t \in S /\ \A d \in S : Parents(d) \subseteq S) => i \in S}

\* filterPaths: without paths, or with the root among them, nothing is filtered.
Filtered(ps) == IF ps = {} \/ Root \in ps THEN Path ELSE ps

Fail == phase' = "failed"
Fails(step) == step \in input.fails

-----------------------------------------------------------------------------

Init ==
    /\ input \in Inputs
    /\ phase = "register"
    /\ pos = 1
    /\ cmd = 0
    /\ n = 0
    /\ order = <<>>
    /\ byName = [x \in Name |-> None]
    /\ stage = [d \in Id |-> [name |-> NoName, image |-> Scratch, cmds |-> <<>>]]
    /\ base = [d \in Id |-> None]
    /\ implicit = {}
    /\ srcs = [d \in Id |-> <<>>]
    /\ noinit = {}
    /\ fs = [d \in Id |-> {}]
    /\ pathsOf = [d \in Id |-> d]
    /\ paths = [d \in Id |-> {}]
    /\ ctxPaths = {}
    /\ target = None
    /\ reach = {}
    /\ job = <<>>
    /\ fetched = {}
    /\ copied = {}

\* A stage becomes a dispatch state; a named context of its name replaces it.
RegisterStage ==
    /\ phase = "register"
    /\ pos <= Len(input.stages)
    /\ LET s == input.stages[pos]
           replaced == Replaced(input, s)
       IN IF replaced /\ s.name \in input.broken
          THEN /\ Fail
               /\ UNCHANGED <<pos, graph, fs, noinit>>
          ELSE /\ n' = pos
               /\ stage' = [stage EXCEPT ![pos] = s]
               /\ order' = Append(order, pos)
               /\ base' = [base EXCEPT ![pos] = byName[s.image]]
               /\ byName' = IF s.name = NoName THEN byName ELSE [byName EXCEPT ![s.name] = pos]
               /\ IF replaced
                  THEN /\ noinit' = noinit \cup {pos}
                       /\ fs' = [fs EXCEPT ![pos] = {<<"local", s.name>>}]
                  ELSE UNCHANGED <<noinit, fs>>
               /\ pos' = pos + 1
               /\ UNCHANGED <<phase, implicit, srcs>>
    /\ UNCHANGED <<input, cmd, pathsOf, paths, ctxPaths, target, reach, job, fetched, copied>>

SelectTarget ==
    /\ phase = "register"
    /\ pos > Len(input.stages)
    /\ target' = IF input.target = NoName THEN n ELSE byName[input.target]
    /\ phase' = IF target' = None THEN "failed" ELSE "fill"
    /\ pos' = 1
    /\ cmd' = 1
    /\ UNCHANGED <<input, graph, result, reach, job, fetched, copied>>

-----------------------------------------------------------------------------
\* The fill loop ranges over the stages: their position is their identity, and
\* the states that the loop adds have no commands.

Filling == stage[pos].cmds[cmd]

\* findStateByName and findStateByIndex; None where toCommand makes a new state.
Found(from) ==
    CASE from.by = "name"  -> byName[from.name]
      [] from.by = "index" -> order[from.index + 1]
      [] OTHER             -> None

\* toCommand makes a state for the image, or "context", that --from names when
\* no stage has that name, and one for the image that runs a CONVERT or QUANTIZE.
NewFrom(c) == c.from.by = "name" /\ Found(c.from) = None
FromId(c) == IF NewFrom(c) THEN n + 1 ELSE Found(c.from)
ToolId(c) == IF NewFrom(c) THEN n + 2 ELSE n + 1

One(d) == IF d = None THEN <<>> ELSE <<d>>
Sources(c) == One(FromId(c)) \o One(IF IsTool(c) THEN ToolId(c) ELSE None)

Unregistered(c) ==
    (IF NewFrom(c) /\ c.from.name # Context THEN {FromId(c)} ELSE {})
        \cup (IF IsTool(c) THEN {ToolId(c)} ELSE {})

Made(c, d) ==
    CASE NewFrom(c) /\ d = FromId(c) ->
           IF c.from.name = Context
           THEN [name |-> Context, image |-> Scratch, cmds |-> <<>>]
           ELSE [name |-> NoName, image |-> c.from.name, cmds |-> <<>>]
      [] IsTool(c) /\ d = ToolId(c) -> [name |-> NoName, image |-> ToolImage(c), cmds |-> <<>>]
      [] OTHER -> stage[d]

\* A source that is unregistered, the one of an earlier command too, is added
\* to the states, and gets the stage named like its image as its base.
FillCommand ==
    /\ phase = "fill"
    /\ pos <= Len(input.stages)
    /\ cmd <= Len(stage[pos].cmds)
    /\ LET c == Filling IN
       IF c.from.by = "index" /\ c.from.index >= Len(order)
       THEN /\ Fail
            /\ UNCHANGED <<cmd, graph, noinit>>
       ELSE LET added == {d \in {FromId(c), ToolId(c)} : d \in Unregistered(c) \/ d \in implicit}
            IN /\ n' = n + (IF NewFrom(c) THEN 1 ELSE 0) + (IF IsTool(c) THEN 1 ELSE 0)
               /\ n' <= MaxStates
               /\ stage' = [d \in Id |-> Made(c, d)]
               /\ implicit' = implicit \cup Unregistered(c)
               /\ noinit' = noinit \cup (IF NewFrom(c) /\ c.from.name = Context THEN {FromId(c)} ELSE {})
               /\ srcs' = [srcs EXCEPT ![pos] = Append(@, Sources(c))]
               /\ order' = order \o One(IF FromId(c) \in added THEN FromId(c) ELSE None)
                                 \o One(IF IsTool(c) THEN ToolId(c) ELSE None)
               /\ base' = [d \in Id |-> IF d \in added THEN byName[stage'[d].image] ELSE base[d]]
               /\ cmd' = cmd + 1
               /\ UNCHANGED <<phase, byName>>
    /\ UNCHANGED <<input, pos, fs, pathsOf, paths, ctxPaths, target, reach, job, fetched, copied>>

FillNextStage ==
    /\ phase = "fill"
    /\ pos <= Len(input.stages)
    /\ cmd > Len(stage[pos].cmds)
    /\ pos' = pos + 1
    /\ cmd' = 1
    /\ UNCHANGED <<input, phase, graph, result, target, reach, job, fetched, copied>>

\* validateCircularDependency, then allReachableStages.
Validate ==
    /\ phase = "fill"
    /\ pos > Len(input.stages)
    /\ IF Circular
       THEN Fail /\ UNCHANGED reach
       ELSE phase' = "resolve" /\ reach' = Reachable(target)
    /\ pos' = 1
    /\ cmd' = 0
    /\ UNCHANGED <<input, graph, result, target, job, fetched, copied>>

-----------------------------------------------------------------------------
\* The resolve loop starts one goroutine for each state without a base; after
\* the first error the context of the others is cancelled.

\* A state that the fill loop added needs no dispatch once it is resolved.
Unsettled(d) == {}
Settled(d) == IF d \in implicit THEN {d} ELSE {}

StartResolve ==
    /\ phase = "resolve"
    /\ pos <= Len(order)
    /\ LET d == order[pos]
           resolves == base[d] = None /\ d \notin noinit
           scratch == stage[d].image = Scratch
       IN /\ job' = Append(job, IF resolves /\ ~scratch THEN "named" ELSE "ok")
          /\ noinit' = noinit \cup (IF resolves /\ scratch THEN Settled(d) ELSE {})
    /\ pos' = pos + 1
    /\ UNCHANGED <<input, phase, cmd, graph, fs, pathsOf, paths, ctxPaths, target, reach, fetched, copied>>

Ends(k, kind) ==
    /\ job' = [job EXCEPT ![k] = "ok"]
    /\ fs' = [fs EXCEPT ![order[k]] = {<<kind, stage[order[k]].image>>}]
    /\ noinit' = noinit \cup Settled(order[k])

Hangs(k) ==
    /\ noinit' = noinit \cup Settled(order[k])
    /\ UNCHANGED <<job, fs>>
Breaks(k) ==
    /\ job' = [job EXCEPT ![k] = "failed"]
    /\ noinit' = noinit \cup Settled(order[k])
    /\ UNCHANGED fs

\* The client is asked for a named context in place of the image; an image that
\* the target does not reach is used without a look at its config.
ResolveNamed(k) ==
    /\ phase = "resolve"
    /\ job[k] = "named"
    /\ LET image == stage[order[k]].image IN
       CASE image \in input.named /\ image \in input.broken -> Breaks(k)
         [] image \in input.named /\ image \notin input.broken -> Ends(k, "local")
         [] image \notin input.named /\ ~input.allStages /\ order[k] \notin reach -> Ends(k, "image")
         [] OTHER -> job' = [job EXCEPT ![k] = "config"] /\ UNCHANGED <<fs, noinit>>
    /\ UNCHANGED <<input, phase, pos, cmd, graph, pathsOf, paths, ctxPaths, target, reach, fetched, copied>>

ResolveConfig(k) ==
    /\ phase = "resolve"
    /\ job[k] = "config"
    /\ fetched' = fetched \cup {stage[order[k]].image}
    /\ IF stage[order[k]].image \in input.broken THEN Breaks(k) ELSE Ends(k, "image")
    /\ UNCHANGED <<input, phase, pos, cmd, graph, pathsOf, paths, ctxPaths, target, reach, copied>>

Cancel(k) ==
    /\ phase = "resolve"
    /\ job[k] \in {"named", "config"}
    /\ \E j \in DOMAIN job : job[j] = "failed"
    /\ Breaks(k)
    /\ UNCHANGED <<input, phase, pos, cmd, graph, pathsOf, paths, ctxPaths, target, reach, fetched, copied>>

\* eg.Wait, and the ignore patterns of the client.
FinishResolve ==
    /\ phase = "resolve"
    /\ pos > Len(order)
    /\ \A k \in DOMAIN job : job[k] \in {"ok", "failed"}
    /\ IF Fails("ignore") \/ \E k \in DOMAIN job : job[k] = "failed"
       THEN Fail
       ELSE phase' = "dispatch"
    /\ pos' = 1
    /\ UNCHANGED <<input, cmd, graph, result, target, reach, job, fetched, copied>>

-----------------------------------------------------------------------------

Current == order[pos]
Dispatching == stage[Current].cmds[cmd]
FromSources == srcs[Current][cmd]    \* the --from state, if any, then the tool

SkipState ==
    /\ phase = "dispatch"
    /\ pos <= Len(order)
    /\ cmd = 0
    /\ ~input.allStages
    /\ Current \notin reach \/ Current \in noinit
    /\ pos' = pos + 1
    /\ UNCHANGED <<input, phase, cmd, graph, result, target, reach, job, fetched, copied>>

\* d.init(): the state goes on from what its base holds at this moment, and
\* shares the paths of its base.
InheritContent(d) ==
    /\ fs' = [fs EXCEPT ![d] = fs[base[d]]]
    /\ UNCHANGED pathsOf
Inherit(d) ==
    /\ fs' = [fs EXCEPT ![d] = fs[base[d]]]
    /\ pathsOf' = [pathsOf EXCEPT ![d] = pathsOf[base[d]]]

EnterState ==
    /\ phase = "dispatch"
    /\ pos <= Len(order)
    /\ cmd = 0
    /\ input.allStages \/ (Current \in reach /\ Current \notin noinit)
    /\ noinit' = noinit \cup {Current}
    /\ IF base[Current] = None THEN UNCHANGED <<fs, pathsOf>> ELSE Inherit(Current)
    /\ cmd' = 1
    /\ UNCHANGED <<input, phase, pos, graph, paths, ctxPaths, target, reach, job, fetched, copied>>

AtCommand(ops) ==
    /\ phase = "dispatch"
    /\ pos <= Len(order)
    /\ cmd \in 1..Len(stage[Current].cmds)
    /\ Dispatching.op \in ops

\* The command's vertex goes on top of the state and of all that it reads.
Extend(read) == fs' = [fs EXCEPT ![Current] = @ \cup read \cup {<<"op", Current, cmd>>}]

BuildContext(c) == IF c.path = Remote THEN {} ELSE {<<"context">>}

DispatchAdd ==
    /\ AtCommand({"ADD"})
    /\ Dispatching.ok
    /\ Extend(BuildContext(Dispatching))
    /\ ctxPaths' = ctxPaths \cup ({Dispatching.path} \ {Remote})
    /\ cmd' = cmd + 1
    /\ UNCHANGED <<input, phase, pos, graph, noinit, pathsOf, paths, target, reach, job, fetched, copied>>

\* A COPY without --from reads the build context, and records no path.
DispatchCopyContext ==
    /\ AtCommand({"COPY"})
    /\ FromSources = <<>>
    /\ Dispatching.ok /\ Dispatching.path # Remote
    /\ Extend(BuildContext(Dispatching))
    /\ cmd' = cmd + 1
    /\ UNCHANGED <<input, phase, pos, graph, noinit, pathsOf, paths, ctxPaths, target, reach, job, fetched, copied>>

\* A COPY takes the state of its source as it is, and records the path there.
DispatchCopyFrom ==
    /\ AtCommand({"COPY"})
    /\ FromSources # <<>>
    /\ LET s == FromSources[1] IN
       /\ s \in noinit
       /\ Dispatching.ok /\ Dispatching.path # Remote
       /\ Extend(fs[s])
       /\ paths' = [paths EXCEPT ![pathsOf[s]] = @ \cup {Dispatching.path}]
       /\ copied' = copied \cup {s}
    /\ cmd' = cmd + 1
    /\ UNCHANGED <<input, phase, pos, graph, noinit, pathsOf, ctxPaths, target, reach, job, fetched>>

\* CONVERT and QUANTIZE run their tool over the source state, or over the state
\* itself without --from; nothing tells whether the source was dispatched.
Mounted(ss) ==
    IF Len(ss) = 1 THEN fs[Current]
    ELSE IF stage[ss[1]].name = Context THEN {<<"context">>} ELSE fs[ss[1]]

RunTool ==
    /\ Dispatching.ok
    /\ Extend(Mounted(FromSources) \cup fs[FromSources[Len(FromSources)]])
    /\ cmd' = cmd + 1
    /\ UNCHANGED <<input, phase, pos, graph, noinit, pathsOf, paths, ctxPaths, target, reach, job, fetched, copied>>

DispatchConvert == AtCommand({"CONVERT"}) /\ RunTool
DispatchQuantize == AtCommand({"QUANTIZE"}) /\ RunTool

\* CAT writes inline documents into the state.
DispatchCat ==
    /\ AtCommand({"CAT"})
    /\ Dispatching.ok
    /\ Extend({})
    /\ cmd' = cmd + 1
    /\ UNCHANGED <<input, phase, pos, graph, noinit, pathsOf, paths, ctxPaths, target, reach, job, fetched, copied>>

\* LABEL changes only the image, as CMD does, and ARG the environment.
DispatchLabel ==
    /\ AtCommand({"LABEL"})
    /\ Dispatching.ok
    /\ cmd' = cmd + 1
    /\ UNCHANGED <<input, phase, pos, graph, result, target, reach, job, fetched, copied>>

\* An error of a command ends the conversion: its own, or that of a COPY whose
\* source is a URL or a stage that is still to come.
DispatchFails ==
    /\ AtCommand(Op)
    /\ \/ ~Dispatching.ok
       \/ /\ Dispatching.op = "COPY"
          /\ Dispatching.path = Remote \/ (FromSources # <<>> /\ FromSources[1] \notin noinit)
    /\ Fail
    /\ UNCHANGED <<input, pos, cmd, graph, result, target, reach, job, fetched, copied>>

LeaveState ==
    /\ phase = "dispatch"
    /\ pos <= Len(order)
    /\ cmd > Len(stage[Current].cmds)
    /\ pos' = pos + 1
    /\ cmd' = 0
    /\ UNCHANGED <<input, phase, graph, result, target, reach, job, fetched, copied>>

\* The whole target is marked as used; the linter and the client may object.
Finish ==
    /\ phase = "dispatch"
    /\ pos > Len(order)
    /\ paths' = [paths EXCEPT ![pathsOf[target]] = @ \cup {Root}]
    /\ phase' = IF Fails("lint") \/ Fails("context") THEN "failed" ELSE "done"
    /\ UNCHANGED <<input, pos, cmd, graph, fs, noinit, pathsOf, ctxPaths, target, reach, job, fetched, copied>>

-----------------------------------------------------------------------------

Next ==
    \/ RegisterStage \/ SelectTarget
    \/ FillCommand \/ FillNextStage \/ Validate
    \/ StartResolve \/ FinishResolve
    \/ \E k \in DOMAIN job : ResolveNamed(k) \/ ResolveConfig(k) \/ Cancel(k)
    \/ SkipState \/ EnterState \/ LeaveState
    \/ DispatchAdd \/ DispatchCopyContext \/ DispatchCopyFrom
    \/ DispatchConvert \/ DispatchQuantize
    \/ DispatchCat \/ DispatchLabel \/ DispatchFails
    \/ Finish

Spec == Init /\ [][Next]_vars

\* The loops are one goroutine, the resolvers answer or give up with an error.
FairSpec == Spec /\ WF_vars(Next)

-----------------------------------------------------------------------------

TypeOK ==
    /\ input \in Inputs
    /\ phase \in {"register", "fill", "resolve", "dispatch", "done", "failed"}
    /\ pos \in Nat \ {0} /\ n \in 0..MaxStates
    /\ cmd \in Nat /\ (phase = "fill" => cmd > 0)
    /\ order \in Seq(Id)
    /\ byName \in [Name -> Id \cup {None}]
    /\ stage \in [Id -> Stage]
    /\ base \in [Id -> Id \cup {None}]
    /\ implicit \in SUBSET Id
    /\ srcs \in [Id -> Seq(Seq(Id))]
    /\ noinit \in SUBSET Id
    /\ fs \in [Id -> SUBSET Vertex(Id)]
    /\ pathsOf \in [Id -> Id]
    /\ paths \in [Id -> SUBSET Path]
    /\ ctxPaths \in SUBSET Path
    /\ target \in Id \cup {None}
    /\ reach \in SUBSET Id
    /\ job \in Seq({"named", "config", "ok", "failed"})
    /\ fetched \in SUBSET Name
    /\ copied \in SUBSET Id

\* What the loops have done when they are at `pos`: the resolve loop a goroutine
\* for each state before it, the fill loop the sources of the commands before it.
LoopsDone ==
    /\ phase \in {"register", "fill"} => job = <<>>
    /\ phase = "resolve" => cmd = 0 /\ Len(job) = pos - 1 /\ Len(job) <= Len(order)
    /\ phase = "register" =>
         /\ n = pos - 1 /\ n <= Len(input.stages)
         /\ \A d \in Id : srcs[d] = <<>> /\ (d > n => stage[d].cmds = <<>>)
    /\ phase = "fill" =>
         /\ n >= Len(input.stages) /\ pos <= Len(input.stages) + 1
         /\ \A d \in Id :
              /\ d < pos => Len(srcs[d]) = Len(stage[d].cmds)
              /\ d = pos /\ d <= Len(input.stages) =>
                   Len(srcs[d]) = cmd - 1 /\ cmd - 1 <= Len(stage[d].cmds)
              /\ d > pos \/ d > Len(input.stages) => srcs[d] = <<>>
              /\ d > Len(input.stages) => stage[d].cmds = <<>>
    /\ phase \in {"resolve", "dispatch"} =>
         /\ ~Circular
         /\ \A d \in Id : Len(srcs[d]) = Len(stage[d].cmds)

\* The last source of a CONVERT or QUANTIZE is the image that runs it.
ToolsHaveImages ==
    \A d \in Id : \A k \in DOMAIN srcs[d] : IsTool(stage[d].cmds[k]) => srcs[d][k] # <<>>

\* Only states that are not dispatched any more are copied from.
CopiedIsSettled ==
    /\ phase \in {"register", "fill", "resolve"} => copied = {}
    /\ copied \subseteq noinit
    /\ phase = "dispatch" /\ cmd > 0 => pos <= Len(order)
    /\ phase = "dispatch" /\ cmd > 0 /\ ~input.allStages => Current \notin copied

IInv == TypeOK /\ LoopsDone /\ ToolsHaveImages /\ CopiedIsSettled

-----------------------------------------------------------------------------

\* The image that comes out is the one that the recipe describes: whatever the
\* order of the states, of the goroutines and of the sharing between states,
\* the target holds every command and image that it is built from, and no other.
Meaning ==
    phase = "done" /\ ~input.allStages => fs[target] = Content(input)[target]

\* A conversion fails exactly on the recipes that must be refused, also when
\* an error is due to one goroutine of several or hidden in a stage that the
\* target does not need.
VerdictIsRight ==
    /\ phase = "done" => Accepts(input)
    /\ phase = "failed" => ~Accepts(input)

\* The registry is asked for every image that the target shows, and for no
\* image of a stage that it does not need.
FetchedAsNeeded ==
    phase = "done" /\ ~input.allStages =>
        LET shown == {x \in Name : <<"image", x>> \in fs[target]} IN
        /\ shown \subseteq fetched
        /\ (\A k \in DOMAIN input.stages : ~Replaced(input, input.stages[k])) => fetched \subseteq shown

\* The state at the bottom of a chain of FROM, where its files come from.
Bottom(d) ==
    LET bottom[i \in Id] ==
            IF base[i] = None \/ (i <= Len(input.stages) /\ Replaced(input, stage[i])) THEN i ELSE bottom[base[i]]
    IN bottom[d]

\* The paths that the commands of the built stages read from the files of d: of
\* a --from source, or of the stage's own files for a tool without --from.
SourceRead(k, i) ==
    LET ss == srcs[k][i] IN
    CASE IsTool(stage[k].cmds[i]) -> Bottom(IF Len(ss) = 2 THEN ss[1] ELSE k)
      [] ~IsTool(stage[k].cmds[i]) /\ ss # <<>> -> Bottom(ss[1])
      [] OTHER -> None
PathsRead(d) ==
    UNION {{stage[k].cmds[i].path : i \in {i \in DOMAIN stage[k].cmds : SourceRead(k, i) = d}} :
              k \in Built(input)}

IsLocal(d) == \E x \in Name : <<"local", x>> \in fs[d] /\ Bottom(d) = d

ToolsRead(d) ==
    \E k \in Built(input) : \E i \in DOMAIN stage[k].cmds : IsTool(stage[k].cmds[i]) /\ SourceRead(k, i) = d

\* The client transfers no more than the recorded paths of a named context, and
\* these cover the paths that the build copies from it, through whatever chain
\* of stages: asyncLocalOpts filters by the map that those stages share.
NamedContextCovered ==
    phase = "done" => \A d \in 1..n : IsLocal(d) /\ ~ToolsRead(d) => PathsRead(d) \subseteq Filtered(paths[d])

\* The same for a named context that a CONVERT or QUANTIZE reads as well.
ToolsAreCovered ==
    phase = "done" => \A d \in 1..n : IsLocal(d) => PathsRead(d) \subseteq Filtered(paths[d])

\* The same for the build context: MainContext filters by the union of ctxPaths.
BuildContextCovered ==
    phase = "done" =>
        \A k \in Built(input) : \A c \in Commands(input, k) :
            /\ c.path # Remote
            /\ c.op = "ADD" \/ (c.op = "COPY" /\ c.from = FromNothing) \/ (IsTool(c) /\ FromContext(input, c))
            => c.path \in Filtered(ctxPaths)

\* What was copied from never changes again: no command sees a state that a
\* later step of the conversion would still extend or overwrite.  (Lint alone
\* dispatches the states that named contexts replace.)
CopiedStaysAsItWas ==
    [][~input.allStages => \A d \in copied : fs'[d] = fs[d]]_vars

\* A CONVERT without --from reads the build context.
ConvertReadsContext ==
    phase = "done" =>
        \A k \in Built(input) : \A c \in Commands(input, k) :
            c.op = "CONVERT" /\ c.from = FromNothing => <<"context">> \in fs[k]

\* The conversion comes to an end, with a result or an error.
Terminates == <>(phase \in {"done", "failed"})
=============================================================================
