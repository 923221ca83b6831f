--------------------------- MODULE ConvertProofs ---------------------------
(***************************************************************************)
(* For every recipe, client and bound: the types of Convert, that no state *)
(* changes after a COPY --from has read it, that a conversion fails        *)
(* exactly on the recipes that must be refused (IsClear says of which),    *)
(* and that the image is the one that the recipe describes, from the       *)
(* images that were asked for and the paths that were recorded (IsPlain).  *)
(***************************************************************************)
EXTENDS Convert, SequenceTheorems, WellFoundedInduction, TLAPS

LEMMA NoneIsNoState == None \notin Id
BY MaxStatesAssumption DEF None, Id

LEMMA InputFacts ==
    ASSUME input \in Inputs
    PROVE  /\ input \in Input
           /\ Len(input.stages) \in Nat /\ Len(input.stages) \in 1..MaxStates
           /\ \A k \in 1..Len(input.stages) : k \in Id /\ input.stages[k] \in Stage
           /\ input.target \in Name \cup {NoName}
<1>1. input \in Input /\ Len(input.stages) <= MaxStates
  BY InputsAssumption
<1>2. input.stages \in Seq(Stage) /\ input.stages # <<>> /\ input.target \in Name \cup {NoName}
  BY <1>1 DEF Input
<1>3. Len(input.stages) \in Nat /\ Len(input.stages) # 0
  BY <1>2
<1> QED
  BY <1>1, <1>2, <1>3, MaxStatesAssumption DEF Id

\* `One` makes a list of a source, or the empty list of none.
LEMMA OneType == \A d \in Id \cup {None} : One(d) \in Seq(Id)
BY NoneIsNoState DEF One

LEMMA InitType == Init => TypeOK
<1> SUFFICES ASSUME Init PROVE TypeOK
  OBVIOUS
<1>1. [name |-> NoName, image |-> Scratch, cmds |-> <<>>] \in Stage
  BY NameAssumption DEF Stage
<1> QED
  BY <1>1, MaxStatesAssumption DEF Init, TypeOK, None, Id

LEMMA RegisterStageType == TypeOK /\ RegisterStage => TypeOK'
<1> SUFFICES ASSUME TypeOK, RegisterStage PROVE TypeOK'
  OBVIOUS
<1> DEFINE s == input.stages[pos]
<1>1. pos \in Id /\ s \in Stage /\ pos \in Nat /\ pos <= MaxStates
  <2>1. pos \in Nat \ {0} /\ pos <= Len(input.stages)
    BY DEF RegisterStage, TypeOK
  <2>2. /\ Len(input.stages) \in 1..MaxStates
        /\ \A k \in 1..Len(input.stages) : k \in Id /\ input.stages[k] \in Stage
    BY InputFacts DEF TypeOK
  <2> QED BY <2>1, <2>2, MaxStatesAssumption
<1>2. s.image \in Name /\ s.name \in Name \cup {NoName}
  BY <1>1 DEF Stage
<1>3. UNCHANGED <<input, cmd, pathsOf, paths, ctxPaths, target, reach, job, fetched, copied>>
  BY DEF RegisterStage
<1>4. CASE phase' = "failed" /\ UNCHANGED <<pos, graph, fs, noinit>>
  BY <1>3, <1>4 DEF TypeOK, graph
<1>5. CASE ~(Replaced(input, s) /\ s.name \in input.broken)
  <2>1. /\ n' = pos
        /\ stage' = [stage EXCEPT ![pos] = s]
        /\ order' = Append(order, pos)
        /\ base' = [base EXCEPT ![pos] = byName[s.image]]
        /\ byName' = IF s.name = NoName THEN byName ELSE [byName EXCEPT ![s.name] = pos]
        /\ pos' = pos + 1
        /\ UNCHANGED <<phase, implicit, srcs>>
    BY <1>5 DEF RegisterStage
  <2>2. noinit' \in SUBSET Id /\ fs' \in [Id -> SUBSET Vertex(Id)]
    <3>1. CASE Replaced(input, s)
      <4>1. noinit' = noinit \cup {pos} /\ fs' = [fs EXCEPT ![pos] = {<<"local", s.name>>}]
        BY <1>5, <3>1 DEF RegisterStage
      <4>2. <<"local", s.name>> \in Vertex(Id)
        BY <1>2, <3>1 DEF Vertex, Replaced, Asked
      <4> QED BY <1>1, <4>1, <4>2 DEF TypeOK
    <3>2. CASE ~Replaced(input, s)
      BY <1>5, <3>2 DEF RegisterStage, TypeOK
    <3> QED BY <3>1, <3>2
  <2>3. byName' \in [Name -> Id \cup {None}] /\ base' \in [Id -> Id \cup {None}]
    BY <1>1, <1>2, <2>1 DEF TypeOK
  <2>4. order' \in Seq(Id) /\ stage' \in [Id -> Stage]
    BY <1>1, <2>1 DEF TypeOK
  <2>5. pos' \in Nat \ {0} /\ n' \in 0..MaxStates /\ UNCHANGED <<phase, implicit, srcs>>
    BY <1>1, <2>1, MaxStatesAssumption
  <2> QED BY <1>3, <2>2, <2>3, <2>4, <2>5 DEF TypeOK
<1> QED
  BY <1>4, <1>5 DEF RegisterStage, Fail

LEMMA SelectTargetType == TypeOK /\ SelectTarget => TypeOK'
<1> SUFFICES ASSUME TypeOK, SelectTarget PROVE TypeOK'
  OBVIOUS
<1>1. target' \in Id \cup {None}
  BY InputFacts DEF SelectTarget, TypeOK, Id, None
<1> QED
  BY <1>1 DEF SelectTarget, TypeOK, graph, result

LEMMA FillCommandType == TypeOK /\ FillCommand => TypeOK'
<1> SUFFICES ASSUME TypeOK, FillCommand PROVE TypeOK'
  OBVIOUS
<1>1. UNCHANGED <<input, pos, fs, pathsOf, paths, ctxPaths, target, reach, job, fetched, copied>>
  BY DEF FillCommand
<1>2. CASE phase' = "failed" /\ UNCHANGED <<cmd, graph, noinit>>
  BY <1>1, <1>2 DEF TypeOK, graph
<1>3. ASSUME NEW c, c = Filling,
             ~(c.from.by = "index" /\ c.from.index >= Len(order)),
             NEW added, added = {d \in {FromId(c), ToolId(c)} : d \in Unregistered(c) \/ d \in implicit},
             n' = n + (IF NewFrom(c) THEN 1 ELSE 0) + (IF IsTool(c) THEN 1 ELSE 0),
             n' <= MaxStates,
             stage' = [d \in Id |-> Made(c, d)],
             implicit' = implicit \cup Unregistered(c),
             noinit' = noinit \cup (IF NewFrom(c) /\ c.from.name = Context THEN {FromId(c)} ELSE {}),
             srcs' = [srcs EXCEPT ![pos] = Append(@, Sources(c))],
             order' = order \o One(IF FromId(c) \in added THEN FromId(c) ELSE None)
                            \o One(IF IsTool(c) THEN ToolId(c) ELSE None),
             base' = [d \in Id |-> IF d \in added THEN byName[stage'[d].image] ELSE base[d]],
             cmd' = cmd + 1,
             UNCHANGED <<phase, byName>>
      PROVE  TypeOK'
  <2>1. pos \in Id /\ n \in Nat /\ MaxStates \in Nat /\ None \notin Id /\ cmd \in Nat
    BY InputFacts, NoneIsNoState, MaxStatesAssumption DEF FillCommand, TypeOK
  <2>2. c \in Command
    <3>1. stage[pos].cmds \in Seq(Command) /\ cmd \in 1..Len(stage[pos].cmds)
      BY <2>1 DEF FillCommand, TypeOK, Stage
    <3>2. stage[pos].cmds[cmd] \in Command
      BY <3>1
    <3>3. c = Filling
      BY <1>3
    <3> QED BY <3>2, <3>3 DEF Filling
  <2>3. Found(c.from) \in Id \cup {None}
    <3>1. c.from \in From
      BY <2>2 DEF Command
    <3>2. CASE c.from.by = "name" /\ c.from.name \in Name
      BY <3>2 DEF Found, TypeOK
    <3>3. CASE c.from.by = "index" /\ c.from.index \in Nat
      <4>1. c.from.index + 1 \in 1..Len(order)
        BY <1>3, <3>3, SMTT(20) DEF TypeOK
      <4> QED BY <3>3, <4>1 DEF Found, TypeOK
    <3>4. CASE c.from.by = "none"
      BY <3>4 DEF Found
    <3> QED BY <3>1, <3>2, <3>3, <3>4 DEF From, FromNothing
  <2>4. FromId(c) \in Id \cup {None} /\ (IsTool(c) => ToolId(c) \in Id)
    BY <1>3, <2>1, <2>3 DEF FromId, ToolId, Id
  <2>5. NewFrom(c) => FromId(c) \in Id
    BY <1>3, <2>1 DEF FromId, Id
  <2>6. Unregistered(c) \in SUBSET Id
    BY <2>4, <2>5 DEF Unregistered
  <2>7. n' \in 0..MaxStates
    BY <1>3, <2>1
  <2>8. stage' \in [Id -> Stage]
    <3>1. \A d \in Id : Made(c, d) \in Stage
      <4>1. NewFrom(c) => c.from.name \in Name
        BY <2>2 DEF NewFrom, Command, From, FromNothing
      <4>2. ToolImage(c) \in Name /\ Context \in Name /\ Scratch \in Name
        BY NameAssumption DEF ToolImage
      <4>3. \A x \in Name \cup {NoName}, y \in Name : [name |-> x, image |-> y, cmds |-> <<>>] \in Stage
        BY DEF Stage
      <4> QED BY <4>1, <4>2, <4>3 DEF Made, TypeOK
    <3> QED BY <1>3, <3>1
  <2>9. implicit' \in SUBSET Id /\ noinit' \in SUBSET Id
    BY <1>3, <2>5, <2>6 DEF TypeOK
  <2>10. srcs' \in [Id -> Seq(Seq(Id))]
    <3>1. Sources(c) \in Seq(Id)
      BY <2>4, OneType, ConcatProperties DEF Sources
    <3> QED BY <1>3, <2>1, <3>1 DEF TypeOK
  <2>11. order' \in Seq(Id)
    <3> DEFINE x == One(IF FromId(c) \in added THEN FromId(c) ELSE None)
    <3> DEFINE y == One(IF IsTool(c) THEN ToolId(c) ELSE None)
    <3>1. x \in Seq(Id) /\ y \in Seq(Id)
      BY <2>4, OneType
    <3> HIDE DEF x, y
    <3> QED BY <1>3, <3>1, ConcatProperties DEF x, y, TypeOK
  <2>12. base' \in [Id -> Id \cup {None}]
    <3>1. \A d \in Id : stage'[d].image \in Name
      BY <2>8 DEF Stage
    <3>2. \A d \in Id : byName[stage'[d].image] \in Id \cup {None} /\ base[d] \in Id \cup {None}
      BY <3>1 DEF TypeOK
    <3> QED BY <1>3, <3>2
  <2> QED BY <1>1, <1>3, <2>1, <2>7, <2>8, <2>9, <2>10, <2>11, <2>12, SMTT(20) DEF TypeOK
<1> QED
  BY <1>2, <1>3, ZenonT(40) DEF FillCommand, Fail

LEMMA FillNextStageType == TypeOK /\ FillNextStage => TypeOK'
BY DEF FillNextStage, TypeOK, graph, result

LEMMA ValidateType == TypeOK /\ Validate => TypeOK'
<1>1. Reachable(target) \in SUBSET Id
  BY DEF Reachable
<1> QED BY <1>1 DEF Validate, Fail, TypeOK, graph, result

LEMMA StartResolveType == TypeOK /\ StartResolve => TypeOK'
<1> SUFFICES ASSUME TypeOK, StartResolve PROVE TypeOK'
  OBVIOUS
<1>1. order[pos] \in Id
  BY DEF StartResolve, TypeOK
<1>2. \A d \in Id : Settled(d) \in SUBSET Id
  BY DEF Settled
<1>3. noinit' \in SUBSET Id
  BY <1>1, <1>2 DEF StartResolve, TypeOK
<1>4. job' \in Seq({"named", "config", "ok", "failed"})
  BY DEF StartResolve, TypeOK
<1> QED
  BY <1>3, <1>4 DEF StartResolve, TypeOK, graph

\* A goroutine of the resolve loop works for a state.
LEMMA JobFacts ==
    ASSUME TypeOK, LoopsDone, phase = "resolve", NEW k \in DOMAIN job
    PROVE  order[k] \in Id /\ stage[order[k]].image \in Name
<1>1. k \in 1..Len(order)
  BY DEF TypeOK, LoopsDone
<1>2. order[k] \in Id
  BY <1>1 DEF TypeOK
<1> QED BY <1>2 DEF TypeOK, Stage

LEMMA EndsType ==
    ASSUME TypeOK, NEW k \in DOMAIN job, order[k] \in Id, stage[order[k]].image \in Name
    PROVE  /\ \A kind \in {"image", "local"} :
                Ends(k, kind) => /\ job' \in Seq({"named", "config", "ok", "failed"})
                                 /\ noinit' \in SUBSET Id /\ fs' \in [Id -> SUBSET Vertex(Id)]
           /\ Breaks(k) => /\ job' \in Seq({"named", "config", "ok", "failed"})
                           /\ noinit' \in SUBSET Id /\ fs' \in [Id -> SUBSET Vertex(Id)]
<1>1. Settled(order[k]) \in SUBSET Id
  BY DEF Settled
<1>2. \A kind \in {"image", "local"} : <<kind, stage[order[k]].image>> \in Vertex(Id)
  BY DEF Vertex
<1>3. job \in Seq({"named", "config", "ok", "failed"})
  BY DEF TypeOK
<1>4. \A x \in {"named", "config", "ok", "failed"} :
        [job EXCEPT ![k] = x] \in Seq({"named", "config", "ok", "failed"})
  BY <1>3, ExceptSeq
<1> QED
  <2>1. ASSUME NEW kind \in {"image", "local"}, Ends(k, kind)
        PROVE  /\ job' \in Seq({"named", "config", "ok", "failed"})
               /\ noinit' \in SUBSET Id /\ fs' \in [Id -> SUBSET Vertex(Id)]
    <3>1. {<<kind, stage[order[k]].image>>} \in SUBSET Vertex(Id)
      BY <1>2
    <3> DEFINE v == {<<kind, stage[order[k]].image>>}
    <3>2. fs' = [fs EXCEPT ![order[k]] = v] /\ v \in SUBSET Vertex(Id)
      BY <2>1, <3>1 DEF Ends
    <3> HIDE DEF v
    <3>3. fs' \in [Id -> SUBSET Vertex(Id)]
      BY <3>2 DEF TypeOK
    <3>4. job' = [job EXCEPT ![k] = "ok"] /\ noinit' = noinit \cup Settled(order[k])
      BY <2>1 DEF Ends
    <3> QED BY <1>1, <1>4, <3>3, <3>4 DEF TypeOK
  <2>2. ASSUME Breaks(k)
        PROVE  /\ job' \in Seq({"named", "config", "ok", "failed"})
               /\ noinit' \in SUBSET Id /\ fs' \in [Id -> SUBSET Vertex(Id)]
    BY <1>1, <1>4, <2>2 DEF Breaks, TypeOK
  <2> QED BY <2>1, <2>2

LEMMA ResolveNamedType ==
    ASSUME TypeOK, LoopsDone, NEW k \in DOMAIN job, ResolveNamed(k)
    PROVE  TypeOK'
<1>1. phase = "resolve"
      /\ UNCHANGED <<input, phase, pos, cmd, graph, pathsOf, paths, ctxPaths, target, reach, fetched, copied>>
  BY DEF ResolveNamed
<1>2. \/ Breaks(k) \/ Ends(k, "local") \/ Ends(k, "image")
      \/ job' = [job EXCEPT ![k] = "config"] /\ UNCHANGED <<fs, noinit>>
  BY DEF ResolveNamed
<1>3. /\ job' \in Seq({"named", "config", "ok", "failed"})
      /\ noinit' \in SUBSET Id /\ fs' \in [Id -> SUBSET Vertex(Id)]
  <2>1. CASE Breaks(k) \/ Ends(k, "local") \/ Ends(k, "image")
    BY <1>1, <2>1, JobFacts, EndsType
  <2>2. CASE job' = [job EXCEPT ![k] = "config"] /\ UNCHANGED <<fs, noinit>>
    BY <2>2, ExceptSeq DEF TypeOK
  <2> QED BY <1>2, <2>1, <2>2
<1> QED BY <1>1, <1>3 DEF TypeOK, graph

LEMMA ResolveConfigType ==
    ASSUME TypeOK, LoopsDone, NEW k \in DOMAIN job, ResolveConfig(k)
    PROVE  TypeOK'
<1>1. phase = "resolve" /\ fetched' = fetched \cup {stage[order[k]].image}
      /\ UNCHANGED <<input, phase, pos, cmd, graph, pathsOf, paths, ctxPaths, target, reach, copied>>
  BY DEF ResolveConfig
<1>2. Breaks(k) \/ Ends(k, "image")
  BY DEF ResolveConfig
<1>3. /\ job' \in Seq({"named", "config", "ok", "failed"})
      /\ noinit' \in SUBSET Id /\ fs' \in [Id -> SUBSET Vertex(Id)]
  BY <1>1, <1>2, JobFacts, EndsType
<1>4. fetched' \in SUBSET Name
  BY <1>1, JobFacts DEF TypeOK
<1> QED BY <1>1, <1>3, <1>4 DEF TypeOK, graph

LEMMA CancelType ==
    ASSUME TypeOK, LoopsDone, NEW k \in DOMAIN job, Cancel(k)
    PROVE  TypeOK'
<1>1. phase = "resolve" /\ Breaks(k)
      /\ UNCHANGED <<input, phase, pos, cmd, graph, pathsOf, paths, ctxPaths, target, reach, fetched, copied>>
  BY DEF Cancel
<1>2. /\ job' \in Seq({"named", "config", "ok", "failed"})
      /\ noinit' \in SUBSET Id /\ fs' \in [Id -> SUBSET Vertex(Id)]
  BY <1>1, JobFacts, EndsType
<1> QED BY <1>1, <1>2 DEF TypeOK, graph

LEMMA FinishResolveType == TypeOK /\ FinishResolve => TypeOK'
BY DEF FinishResolve, Fail, TypeOK, graph, result

LEMMA SkipStateType == TypeOK /\ SkipState => TypeOK'
BY DEF SkipState, TypeOK, graph, result

LEMMA LeaveStateType == TypeOK /\ LeaveState => TypeOK'
BY DEF LeaveState, TypeOK, graph, result

LEMMA EnterStateType == TypeOK /\ EnterState => TypeOK'
<1> SUFFICES ASSUME TypeOK, EnterState PROVE TypeOK'
  OBVIOUS
<1>1. Current \in Id
  BY DEF EnterState, TypeOK, Current
<1>2. /\ noinit' = noinit \cup {Current} /\ cmd' = 1 /\ phase = "dispatch"
      /\ UNCHANGED <<input, phase, pos, graph, paths, ctxPaths, target, reach, job, fetched, copied>>
  BY DEF EnterState
<1>3. fs' \in [Id -> SUBSET Vertex(Id)] /\ pathsOf' \in [Id -> Id]
  <2>1. CASE base[Current] = None
    BY <2>1 DEF EnterState, TypeOK
  <2>2. CASE base[Current] # None
    <3>1. base[Current] \in Id
      BY <1>1, <2>2 DEF TypeOK
    <3> HIDE DEF Current
    <3> QED BY <1>1, <2>2, <3>1 DEF EnterState, Inherit, TypeOK
  <2> QED BY <2>1, <2>2
<1> QED BY <1>1, <1>2, <1>3 DEF TypeOK, graph

-----------------------------------------------------------------------------
\* The commands.

\* A command that is being dispatched, and the states it takes its sources from.
LEMMA DispatchFacts ==
    ASSUME TypeOK, LoopsDone, AtCommand(Op)
    PROVE  /\ Current \in Id /\ cmd \in Nat /\ cmd > 0
           /\ Dispatching \in Command
           /\ FromSources \in Seq(Id)
           /\ \A j \in 1..Len(FromSources) : FromSources[j] \in Deps(Current)
<1>1. phase = "dispatch" /\ Current \in Id /\ cmd \in 1..Len(stage[Current].cmds)
  BY DEF AtCommand, Current, TypeOK
<1>2. stage[Current].cmds \in Seq(Command) /\ srcs[Current] \in Seq(Seq(Id))
  BY <1>1 DEF TypeOK, Stage
<1>3. Dispatching \in Command
  BY <1>1, <1>2 DEF Dispatching
<1>4. cmd \in 1..Len(srcs[Current])
  BY <1>1 DEF LoopsDone
<1>5. FromSources \in Seq(Id)
  BY <1>2, <1>4 DEF FromSources
<1>6. ASSUME NEW j \in 1..Len(FromSources)
      PROVE  FromSources[j] \in Deps(Current)
  <2>1. cmd \in DOMAIN srcs[Current] /\ j \in DOMAIN srcs[Current][cmd]
    BY <1>2, <1>4, <1>5 DEF FromSources
  <2> QED BY <2>1 DEF Deps, FromSources
<1> QED BY <1>1, <1>3, <1>5, <1>6

LEMMA ExtendType ==
    ASSUME TypeOK, Current \in Id, NEW read \in SUBSET Vertex(Id), Extend(read)
    PROVE  fs' \in [Id -> SUBSET Vertex(Id)]
<1>1. <<"op", Current, cmd>> \in Vertex(Id)
  BY DEF Vertex, TypeOK
<1> QED BY <1>1 DEF Extend, TypeOK

\* What the commands have in common: the step of the loop over them.
CommandStep ==
    /\ phase = "dispatch" /\ cmd' = cmd + 1
    /\ UNCHANGED <<input, phase, pos, graph, noinit, pathsOf, target, reach, job, fetched>>

LEMMA DispatchAddType == TypeOK /\ LoopsDone /\ DispatchAdd => TypeOK'
<1> SUFFICES ASSUME TypeOK, LoopsDone, DispatchAdd PROVE TypeOK'
  OBVIOUS
<1>1. AtCommand(Op) /\ CommandStep
  BY DEF DispatchAdd, AtCommand, CommandStep, Op
<1>2. Dispatching.path \in Path \cup {Remote} /\ Current \in Id
  BY <1>1, DispatchFacts DEF Command
<1>3. BuildContext(Dispatching) \in SUBSET Vertex(Id)
  BY DEF BuildContext, Vertex
<1>4. fs' \in [Id -> SUBSET Vertex(Id)]
  BY <1>2, <1>3, ExtendType DEF DispatchAdd
<1> QED BY <1>1, <1>2, <1>4 DEF DispatchAdd, CommandStep, TypeOK, graph

LEMMA DispatchCopyContextType == TypeOK /\ LoopsDone /\ DispatchCopyContext => TypeOK'
<1> SUFFICES ASSUME TypeOK, LoopsDone, DispatchCopyContext PROVE TypeOK'
  OBVIOUS
<1>1. AtCommand(Op) /\ CommandStep
  BY DEF DispatchCopyContext, AtCommand, CommandStep, Op
<1>2. BuildContext(Dispatching) \in SUBSET Vertex(Id)
  BY DEF BuildContext, Vertex
<1>3. fs' \in [Id -> SUBSET Vertex(Id)]
  BY <1>1, <1>2, DispatchFacts, ExtendType DEF DispatchCopyContext
<1> QED BY <1>1, <1>3 DEF DispatchCopyContext, CommandStep, TypeOK, graph

\* The source of a COPY --from is another state than the one that copies.
LEMMA CopySource ==
    ASSUME TypeOK, LoopsDone, DispatchCopyFrom
    PROVE  /\ FromSources[1] \in Id /\ FromSources[1] # Current
           /\ Current \in Id /\ Dispatching.path \in Path
<1>1. AtCommand(Op)
  BY DEF DispatchCopyFrom, AtCommand, Op
<1>2. 1 \in 1..Len(FromSources)
  BY <1>1, DispatchFacts DEF DispatchCopyFrom
<1>3. FromSources[1] \in Id /\ FromSources[1] \in Deps(Current) /\ Current \in Id
  BY <1>1, <1>2, DispatchFacts
<1>4. ~Circular
  BY <1>1 DEF LoopsDone, AtCommand
<1>5. Current \notin Deps(Current)
  <2> SUFFICES ASSUME Current \in Deps(Current) PROVE FALSE
    OBVIOUS
  <2>1. {Current} \in SUBSET Id /\ {Current} # {}
    BY <1>3
  <2>2. \A d \in {Current} : Deps(d) \cap {Current} # {}
    OBVIOUS
  <2> QED BY <1>4, <2>1, <2>2 DEF Circular
<1>6. Dispatching.path \in Path
  BY <1>1, DispatchFacts DEF DispatchCopyFrom, Command
<1> QED BY <1>3, <1>5, <1>6

LEMMA DispatchCopyFromType == TypeOK /\ LoopsDone /\ DispatchCopyFrom => TypeOK'
<1> SUFFICES ASSUME TypeOK, LoopsDone, DispatchCopyFrom PROVE TypeOK'
  OBVIOUS
<1>1. CommandStep /\ UNCHANGED ctxPaths
  BY DEF DispatchCopyFrom, AtCommand, CommandStep
<1> DEFINE s == FromSources[1]
<1>2. s \in Id /\ Current \in Id /\ Dispatching.path \in Path
  BY CopySource
<1>3. /\ Extend(fs[s]) /\ copied' = copied \cup {s}
      /\ paths' = [paths EXCEPT ![pathsOf[s]] = @ \cup {Dispatching.path}]
  BY DEF DispatchCopyFrom
<1> HIDE DEF s
<1>4. fs[s] \in SUBSET Vertex(Id)
  BY <1>2 DEF TypeOK
<1>5. fs' \in [Id -> SUBSET Vertex(Id)]
  BY <1>2, <1>3, <1>4, ExtendType
<1>6. paths' \in [Id -> SUBSET Path] /\ copied' \in SUBSET Id
  BY <1>2, <1>3 DEF TypeOK
<1> QED BY <1>1, <1>5, <1>6 DEF CommandStep, TypeOK, graph

DispatchTool == DispatchConvert \/ DispatchQuantize

LEMMA DispatchToolType == TypeOK /\ LoopsDone /\ ToolsHaveImages /\ DispatchTool => TypeOK'
<1> SUFFICES ASSUME TypeOK, LoopsDone, ToolsHaveImages, DispatchTool PROVE TypeOK'
  OBVIOUS
<1>1. AtCommand(Op) /\ CommandStep
  BY DEF DispatchTool, DispatchConvert, DispatchQuantize, RunTool, AtCommand, CommandStep, Op
<1>2. Current \in Id /\ FromSources \in Seq(Id)
  BY <1>1, DispatchFacts
<1>3. IsTool(Dispatching)
  BY DEF DispatchTool, DispatchConvert, DispatchQuantize, AtCommand, IsTool
<1>4. FromSources # <<>>
  <2>1. cmd \in DOMAIN srcs[Current]
    BY <1>1, <1>2 DEF AtCommand, LoopsDone, TypeOK
  <2> QED BY <1>2, <1>3, <2>1 DEF ToolsHaveImages, FromSources, Dispatching
<1>5. Len(FromSources) \in 1..Len(FromSources) /\ Len(FromSources) \in Nat
  BY <1>2, <1>4
<1>6. fs[FromSources[Len(FromSources)]] \in SUBSET Vertex(Id)
  BY <1>2, <1>5 DEF TypeOK
<1>7. Mounted(FromSources) \in SUBSET Vertex(Id)
  <2>1. <<"context">> \in Vertex(Id)
    BY DEF Vertex
  <2>2. 1 \in 1..Len(FromSources)
    BY <1>5
  <2>3. fs[FromSources[1]] \in SUBSET Vertex(Id) /\ fs[Current] \in SUBSET Vertex(Id)
    BY <1>2, <2>2 DEF TypeOK
  <2> QED BY <2>1, <2>3 DEF Mounted
<1>8. fs' \in [Id -> SUBSET Vertex(Id)]
  <2>1. Extend(Mounted(FromSources) \cup fs[FromSources[Len(FromSources)]])
    BY DEF DispatchTool, DispatchConvert, DispatchQuantize, RunTool
  <2> QED BY <1>2, <1>6, <1>7, <2>1, ExtendType
<1>9. UNCHANGED <<paths, ctxPaths, copied>>
  BY DEF DispatchTool, DispatchConvert, DispatchQuantize, RunTool
<1> QED BY <1>1, <1>8, <1>9 DEF CommandStep, TypeOK, graph

LEMMA DispatchInlineType == TypeOK /\ LoopsDone /\ (DispatchCat \/ DispatchLabel) => TypeOK'
<1> SUFFICES ASSUME TypeOK, LoopsDone, DispatchCat \/ DispatchLabel PROVE TypeOK'
  OBVIOUS
<1>1. AtCommand(Op) /\ CommandStep /\ UNCHANGED <<paths, ctxPaths, copied>>
  BY DEF DispatchCat, DispatchLabel, AtCommand, CommandStep, result, Op
<1>2. fs' \in [Id -> SUBSET Vertex(Id)]
  <2>1. Extend({}) => fs' \in [Id -> SUBSET Vertex(Id)]
    BY <1>1, DispatchFacts, ExtendType
  <2> QED BY <2>1 DEF DispatchCat, DispatchLabel, result, TypeOK
<1> QED BY <1>1, <1>2 DEF CommandStep, TypeOK, graph

LEMMA DispatchFailsType == TypeOK /\ DispatchFails => TypeOK'
BY DEF DispatchFails, Fail, TypeOK, graph, result

LEMMA FinishType == TypeOK /\ Finish => TypeOK'
<1> SUFFICES ASSUME TypeOK, Finish PROVE TypeOK'
  OBVIOUS
<1>1. paths' \in [Id -> SUBSET Path]
  BY PathAssumption DEF Finish, TypeOK
<1> QED BY <1>1 DEF Finish, TypeOK, graph

-----------------------------------------------------------------------------
\* The loops.

LEMMA InitIInv == Init => IInv
<1> SUFFICES ASSUME Init PROVE IInv
  OBVIOUS
<1>1. LoopsDone
  BY InputFacts DEF Init, LoopsDone, None
<1>2. ToolsHaveImages
  BY DEF Init, ToolsHaveImages
<1>3. CopiedIsSettled
  BY DEF Init, CopiedIsSettled
<1> QED BY <1>1, <1>2, <1>3, InitType DEF IInv

LEMMA FailedLoops ==
    phase' \notin {"register", "fill", "resolve", "dispatch"} => LoopsDone'
BY DEF LoopsDone

LEMMA RegisterStageLoops == IInv /\ RegisterStage => LoopsDone' /\ ToolsHaveImages' /\ CopiedIsSettled'
<1> SUFFICES ASSUME IInv, RegisterStage PROVE LoopsDone' /\ ToolsHaveImages' /\ CopiedIsSettled'
  OBVIOUS
<1> USE DEF IInv
<1>1. UNCHANGED <<input, job, srcs, copied>>
  BY DEF RegisterStage, graph
<1>2. phase = "register" /\ pos <= Len(input.stages) /\ \A d \in Id : srcs[d] = <<>>
  BY DEF RegisterStage, LoopsDone
<1>3. ToolsHaveImages'
  BY <1>1, <1>2 DEF ToolsHaveImages
<1>4. copied = {} /\ CopiedIsSettled'
  BY <1>1, <1>2 DEF CopiedIsSettled, RegisterStage, Fail
<1>5. CASE phase' = "failed"
  <2>1. phase' \notin {"register", "fill", "resolve", "dispatch"}
    BY <1>5
  <2> QED BY <1>3, <1>4, <2>1, FailedLoops
<1>6. CASE /\ phase' = phase /\ n' = pos /\ pos' = pos + 1
           /\ stage' = [stage EXCEPT ![pos] = input.stages[pos]]
  <2>1. n' = pos' - 1 /\ n' <= Len(input.stages)
    BY <1>2, <1>6 DEF TypeOK
  <2>2. \A d \in Id : d > n' => stage'[d].cmds = <<>>
    BY <1>2, <1>6 DEF LoopsDone, TypeOK, Id
  <2>3. /\ phase' = "register" /\ job' = <<>>
        /\ input' = input /\ \A d \in Id : srcs'[d] = <<>>
    BY <1>1, <1>2, <1>6 DEF LoopsDone
  <2>4. phase' \notin {"resolve", "fill", "dispatch"}
    BY <2>3
  <2> QED BY <1>3, <1>4, <2>1, <2>2, <2>3, <2>4 DEF LoopsDone
<1> QED BY <1>3, <1>4, <1>5, <1>6 DEF RegisterStage, Fail

LEMMA SelectTargetLoops == IInv /\ SelectTarget => LoopsDone' /\ ToolsHaveImages' /\ CopiedIsSettled'
<1> SUFFICES ASSUME IInv, SelectTarget PROVE LoopsDone' /\ ToolsHaveImages' /\ CopiedIsSettled'
  OBVIOUS
<1> USE DEF IInv
<1>1. /\ UNCHANGED <<input, n, srcs, stage, noinit, job, copied>>
      /\ phase = "register" /\ phase' \in {"failed", "fill"} /\ pos' = 1 /\ cmd' = 1
      /\ pos > Len(input.stages)
  BY DEF SelectTarget, graph, result
<1>2. n = Len(input.stages) /\ Len(input.stages) \in Nat
  BY <1>1, InputFacts DEF LoopsDone, TypeOK
<1>3. LoopsDone'
  <2>1. \A d \in Id : /\ srcs[d] = <<>> /\ d \in Nat /\ d > 0
                      /\ d > Len(input.stages) => stage[d].cmds = <<>>
                      /\ Len(stage[d].cmds) \in Nat
    BY <1>1, <1>2 DEF LoopsDone, Id, TypeOK, Stage
  <2> QED BY <1>1, <1>2, <2>1 DEF LoopsDone
<1>4. ToolsHaveImages' /\ CopiedIsSettled'
  BY <1>1 DEF ToolsHaveImages, CopiedIsSettled
<1> QED BY <1>3, <1>4

LEMMA FillCommandLoops == IInv /\ FillCommand => LoopsDone' /\ ToolsHaveImages' /\ CopiedIsSettled'
<1> SUFFICES ASSUME IInv, FillCommand PROVE LoopsDone' /\ ToolsHaveImages' /\ CopiedIsSettled'
  OBVIOUS
<1> USE DEF IInv
<1> DEFINE c == Filling
<1>1. /\ phase = "fill" /\ pos <= Len(input.stages) /\ cmd <= Len(stage[pos].cmds)
      /\ UNCHANGED <<input, pos, job, copied>>
  BY DEF FillCommand
<1>2. CASE phase' = "failed" /\ UNCHANGED <<cmd, graph, noinit>>
  BY <1>1, <1>2 DEF LoopsDone, ToolsHaveImages, CopiedIsSettled, graph
<1>3. CASE /\ n' = n + (IF NewFrom(c) THEN 1 ELSE 0) + (IF IsTool(c) THEN 1 ELSE 0)
           /\ stage' = [d \in Id |-> Made(c, d)]
           /\ noinit' = noinit \cup (IF NewFrom(c) /\ c.from.name = Context THEN {FromId(c)} ELSE {})
           /\ srcs' = [srcs EXCEPT ![pos] = Append(@, Sources(c))]
           /\ cmd' = cmd + 1
           /\ UNCHANGED phase
  <2>1. /\ pos \in Id /\ n \in Nat /\ Len(input.stages) \in Nat /\ n >= Len(input.stages)
        /\ cmd \in Nat /\ cmd > 0 /\ pos \in Nat /\ pos > 0 /\ \A d \in Id : d \in Nat
    BY <1>1, InputFacts DEF TypeOK, LoopsDone, Id
  <2>2. \A d \in Id : d <= Len(input.stages) => stage'[d] = stage[d]
    BY <1>3, <2>1 DEF Made, FromId, ToolId
  <2>3. \A d \in Id : d > Len(input.stages) => stage'[d].cmds = <<>>
    BY <1>1, <1>3 DEF Made, LoopsDone
  <2>4. srcs[pos] \in Seq(Seq(Id)) /\ Len(srcs[pos]) = cmd - 1
    BY <1>1, <2>1 DEF TypeOK, LoopsDone
  <2> HIDE DEF c
  <2>5. /\ \A d \in Id : d # pos => srcs'[d] = srcs[d]
        /\ srcs'[pos] = Append(srcs[pos], Sources(c)) /\ Len(srcs'[pos]) = cmd
        /\ \A k \in 1..(cmd - 1) : srcs'[pos][k] = srcs[pos][k]
        /\ srcs'[pos][cmd] = Sources(c) /\ DOMAIN srcs'[pos] = 1..cmd
    <3> DEFINE S == Seq(Id) \cup {Sources(c)}
    <3>1. srcs[pos] \in Seq(S) /\ Sources(c) \in S
      BY <2>4
    <3> HIDE DEF S
    <3>2. srcs'[pos] = Append(srcs[pos], Sources(c)) /\ \A d \in Id : d # pos => srcs'[d] = srcs[d]
      BY <1>3, <2>1 DEF TypeOK
    <3> DEFINE r == Append(srcs[pos], Sources(c))
    <3>3. /\ r \in Seq(S) /\ Len(r) = Len(srcs[pos]) + 1
          /\ \A k \in 1..Len(srcs[pos]) : r[k] = srcs[pos][k]
          /\ r[Len(srcs[pos]) + 1] = Sources(c)
      BY <3>1, AppendProperties
    <3>4. Len(srcs[pos]) + 1 = cmd /\ Len(srcs[pos]) = cmd - 1 /\ DOMAIN r = 1..Len(r)
      BY <2>1, <2>4, <3>3
    <3> HIDE DEF r
    <3> QED BY <3>2, <3>3, <3>4 DEF r
  <2>6. LoopsDone'
    <3>1. n' >= Len(input.stages)
      BY <1>3, <2>1
    <3>2. \A d \in Id :
            /\ d < pos => Len(srcs'[d]) = Len(stage'[d].cmds)
            /\ d = pos /\ d <= Len(input.stages) => Len(srcs'[d]) = cmd' - 1 /\ cmd' - 1 <= Len(stage'[d].cmds)
            /\ d > pos \/ d > Len(input.stages) => srcs'[d] = <<>>
      <4>0. \A d \in Id : /\ d < pos => Len(srcs[d]) = Len(stage[d].cmds)
                          /\ d > pos \/ d > Len(input.stages) => srcs[d] = <<>>
        BY <1>1 DEF LoopsDone
      <4>1. \A d \in Id : d < pos => Len(srcs'[d]) = Len(stage'[d].cmds)
        <5> SUFFICES ASSUME NEW d \in Id, d < pos PROVE Len(srcs'[d]) = Len(stage'[d].cmds)
          OBVIOUS
        <5>1. d \in Nat /\ d # pos /\ d <= Len(input.stages)
          BY <1>1, <2>1
        <5> QED BY <2>2, <2>5, <4>0, <5>1
      <4>2. Len(srcs'[pos]) = cmd' - 1 /\ cmd' - 1 <= Len(stage'[pos].cmds)
        BY <1>1, <1>3, <2>1, <2>2, <2>5
      <4>3. \A d \in Id : d > pos \/ d > Len(input.stages) => srcs'[d] = <<>>
        BY <1>1, <2>1, <2>5, <4>0
      <4> QED BY <4>1, <4>2, <4>3
    <3> QED BY <1>1, <1>3, <2>3, <3>1, <3>2 DEF LoopsDone
  <2>7. ToolsHaveImages'
    <3> SUFFICES ASSUME NEW d \in Id, NEW k \in DOMAIN srcs'[d], IsTool(stage'[d].cmds[k])
                 PROVE  srcs'[d][k] # <<>>
      BY DEF ToolsHaveImages
    <3>1. d <= Len(input.stages) /\ stage'[d] = stage[d]
      BY <1>1, <2>1, <2>2, <2>5 DEF LoopsDone
    <3>2. CASE d # pos \/ k # cmd
      <4>1. k \in DOMAIN srcs[d] /\ srcs'[d][k] = srcs[d][k]
        <5>1. CASE d # pos
          BY <2>5, <5>1
        <5>2. CASE d = pos /\ k # cmd
          <6>1. k \in 1..(cmd - 1)
            BY <2>1, <2>5, <5>2
          <6> QED BY <2>4, <2>5, <5>2, <6>1
        <5> QED BY <3>2, <5>1, <5>2
      <4> QED BY <3>1, <4>1 DEF ToolsHaveImages
    <3>3. CASE d = pos /\ k = cmd
      <4>1. IsTool(c)
        BY <3>1, <3>3 DEF c, Filling
      <4>2. ToolId(c) # None
        BY <2>1 DEF ToolId, None
      <4>3. Len(Sources(c)) # 0
        <5>1. One(FromId(c)) \in Seq({FromId(c)}) /\ One(ToolId(c)) = <<ToolId(c)>>
          BY <4>2 DEF One
        <5> QED BY <4>1, <5>1, ConcatProperties DEF Sources
      <4> QED BY <2>5, <3>3, <4>3
    <3> QED BY <3>2, <3>3
  <2>8. CopiedIsSettled'
    BY <1>1, <1>3 DEF CopiedIsSettled
  <2> QED BY <2>6, <2>7, <2>8
<1> QED BY <1>2, <1>3 DEF FillCommand, Fail

LEMMA FillNextStageLoops == IInv /\ FillNextStage => LoopsDone' /\ ToolsHaveImages' /\ CopiedIsSettled'
<1> SUFFICES ASSUME IInv, FillNextStage PROVE LoopsDone' /\ ToolsHaveImages' /\ CopiedIsSettled'
  OBVIOUS
<1> USE DEF IInv
<1>1. /\ UNCHANGED <<input, phase, n, srcs, stage, noinit, job, copied>>
      /\ phase = "fill" /\ pos' = pos + 1 /\ cmd' = 1
      /\ pos <= Len(input.stages) /\ cmd > Len(stage[pos].cmds)
  BY DEF FillNextStage, graph, result
<1>2. /\ pos \in Id /\ Len(input.stages) \in Nat /\ cmd \in Nat /\ pos \in Nat
      /\ \A d \in Id : d \in Nat /\ Len(stage[d].cmds) \in Nat /\ Len(srcs[d]) \in Nat
  BY <1>1, InputFacts DEF TypeOK, Stage, Id
<1>3. Len(srcs[pos]) = Len(stage[pos].cmds)
  BY <1>1, <1>2 DEF LoopsDone
<1>4. LoopsDone'
  BY <1>1, <1>2, <1>3 DEF LoopsDone
<1>5. ToolsHaveImages' /\ CopiedIsSettled'
  BY <1>1 DEF ToolsHaveImages, CopiedIsSettled
<1> QED BY <1>4, <1>5

LEMMA ValidateLoops == IInv /\ Validate => LoopsDone' /\ ToolsHaveImages' /\ CopiedIsSettled'
<1> SUFFICES ASSUME IInv, Validate PROVE LoopsDone' /\ ToolsHaveImages' /\ CopiedIsSettled'
  OBVIOUS
<1> USE DEF IInv
<1>1. /\ UNCHANGED <<input, n, order, srcs, stage, noinit, job, copied>>
      /\ phase = "fill" /\ pos' = 1 /\ cmd' = 0 /\ pos > Len(input.stages)
      /\ phase' = "failed" \/ (phase' = "resolve" /\ ~Circular)
  BY DEF Validate, Fail, graph, result
<1>2. \A d \in Id : Len(srcs[d]) = Len(stage[d].cmds)
  <2>1. \A d \in Id : d \in Nat
    BY DEF Id
  <2>2. Len(input.stages) \in Nat /\ pos \in Nat
    BY InputFacts DEF TypeOK
  <2>3. \A d \in Id : d >= pos => srcs[d] = <<>> /\ stage[d].cmds = <<>>
    BY <1>1, <2>1, <2>2 DEF LoopsDone
  <2>4. \A d \in Id : d < pos => Len(srcs[d]) = Len(stage[d].cmds)
    BY <1>1 DEF LoopsDone
  <2> QED BY <2>1, <2>2, <2>3, <2>4
<1>3. Circular' <=> Circular
  BY <1>1 DEF Circular, Deps
<1>4. LoopsDone'
  <2>1. job' = <<>> /\ order' \in Seq(Id)
    BY <1>1 DEF LoopsDone, TypeOK
  <2> QED BY <1>1, <1>2, <1>3, <2>1 DEF LoopsDone
<1>5. ToolsHaveImages' /\ CopiedIsSettled'
  BY <1>1 DEF ToolsHaveImages, CopiedIsSettled
<1> QED BY <1>4, <1>5

LEMMA StartResolveLoops == IInv /\ StartResolve => LoopsDone' /\ ToolsHaveImages' /\ CopiedIsSettled'
<1> SUFFICES ASSUME IInv, StartResolve PROVE LoopsDone' /\ ToolsHaveImages' /\ CopiedIsSettled'
  OBVIOUS
<1> USE DEF IInv
<1>1. /\ UNCHANGED <<input, phase, cmd, order, srcs, stage, copied>>
      /\ phase = "resolve" /\ pos' = pos + 1 /\ pos <= Len(order)
  BY DEF StartResolve, graph
<1>2. Len(job) = pos - 1 /\ pos \in Nat /\ copied = {} /\ Len(order) \in Nat
  BY <1>1 DEF LoopsDone, CopiedIsSettled, TypeOK
<1>3. Len(job') = Len(job) + 1
  BY DEF StartResolve, TypeOK
<1>4. Circular' <=> Circular
  BY <1>1 DEF Circular, Deps
<1>5. LoopsDone'
  BY <1>1, <1>2, <1>3, <1>4 DEF LoopsDone
<1>6. ToolsHaveImages' /\ CopiedIsSettled'
  BY <1>1, <1>2 DEF ToolsHaveImages, CopiedIsSettled
<1> QED BY <1>5, <1>6

\* A goroutine of the resolve loop ends, or goes on: no loop moves.
LEMMA ResolveLoops ==
    ASSUME IInv, NEW k \in DOMAIN job, ResolveNamed(k) \/ ResolveConfig(k) \/ Cancel(k)
    PROVE  LoopsDone' /\ ToolsHaveImages' /\ CopiedIsSettled'
<1> USE DEF IInv
<1>1. /\ UNCHANGED <<input, phase, pos, cmd, order, srcs, stage, copied>>
      /\ phase = "resolve"
  BY DEF ResolveNamed, ResolveConfig, Cancel, graph
<1>2. PICK x : job' = [job EXCEPT ![k] = x]
  BY DEF ResolveNamed, ResolveConfig, Cancel, Ends, Breaks
<1>3. Len(job') = Len(job)
  BY <1>2 DEF TypeOK
<1>4. Circular' <=> Circular
  BY <1>1 DEF Circular, Deps
<1>5. LoopsDone'
  BY <1>1, <1>3, <1>4 DEF LoopsDone
<1>6. ToolsHaveImages' /\ CopiedIsSettled'
  BY <1>1 DEF ToolsHaveImages, CopiedIsSettled
<1> QED BY <1>5, <1>6

LEMMA FinishResolveLoops == IInv /\ FinishResolve => LoopsDone' /\ ToolsHaveImages' /\ CopiedIsSettled'
<1> SUFFICES ASSUME IInv, FinishResolve PROVE LoopsDone' /\ ToolsHaveImages' /\ CopiedIsSettled'
  OBVIOUS
<1> USE DEF IInv
<1>1. /\ UNCHANGED <<input, cmd, srcs, stage, copied, noinit>>
      /\ phase = "resolve" /\ phase' \in {"dispatch", "failed"}
  BY DEF FinishResolve, Fail, graph, result
<1>2. copied = {} /\ cmd = 0
  BY <1>1 DEF CopiedIsSettled, LoopsDone
<1>3. Circular' <=> Circular
  BY <1>1 DEF Circular, Deps
<1>4. LoopsDone'
  BY <1>1, <1>3 DEF LoopsDone
<1>5. ToolsHaveImages'
  BY <1>1 DEF ToolsHaveImages
<1>6. CopiedIsSettled'
  BY <1>1, <1>2 DEF CopiedIsSettled
<1> QED BY <1>4, <1>5, <1>6

\* Once the sources are known, nothing that dispatching does changes them.
LEMMA DispatchLoops ==
    ASSUME IInv, phase = "dispatch", phase' \in {"dispatch", "done", "failed"},
           UNCHANGED <<srcs, stage>>
    PROVE  LoopsDone' /\ ToolsHaveImages'
<1> USE DEF IInv
<1>1. Circular' <=> Circular
  BY DEF Circular, Deps
<1> QED BY <1>1 DEF LoopsDone, ToolsHaveImages

LEMMA SkipOrLeaveCopied == IInv /\ (SkipState \/ LeaveState) => CopiedIsSettled'
<1> SUFFICES ASSUME IInv, SkipState \/ LeaveState PROVE CopiedIsSettled'
  OBVIOUS
<1> USE DEF IInv
<1>1. /\ UNCHANGED <<phase, copied, noinit>> /\ phase = "dispatch" /\ cmd' = 0
  BY DEF SkipState, LeaveState, result
<1> QED BY <1>1 DEF CopiedIsSettled

LEMMA EnterStateCopied == IInv /\ EnterState => CopiedIsSettled'
<1> SUFFICES ASSUME IInv, EnterState PROVE CopiedIsSettled'
  OBVIOUS
<1> USE DEF IInv
<1>1. /\ UNCHANGED <<input, phase, pos, order, copied>> /\ phase = "dispatch"
      /\ pos <= Len(order) /\ noinit' = noinit \cup {Current}
      /\ ~input.allStages => Current \notin noinit
  BY DEF EnterState, graph
<1>2. Current' = Current
  BY <1>1 DEF Current
<1>3. copied \subseteq noinit /\ phase' \notin {"register", "fill", "resolve"}
  BY <1>1 DEF CopiedIsSettled
<1>4. copied' \subseteq noinit' /\ pos' <= Len(order')
  BY <1>1, <1>3
<1>5. ~input'.allStages => Current' \notin copied'
  <2> HIDE DEF Current
  <2> QED BY <1>1, <1>2, <1>3
<1> QED BY <1>3, <1>4, <1>5 DEF CopiedIsSettled

LEMMA CommandCopied ==
    ASSUME IInv, CommandStep, AtCommand(Op),
           copied' = copied \/ DispatchCopyFrom
    PROVE  CopiedIsSettled'
<1> USE DEF IInv
<1>1. UNCHANGED <<input, phase, pos, order, noinit>> /\ phase = "dispatch"
  BY DEF CommandStep, graph
<1>2. Current' = Current /\ pos <= Len(order) /\ cmd > 0 /\ copied \subseteq noinit
  <2>1. cmd > 0
    BY DispatchFacts
  <2> QED BY <1>1, <2>1 DEF Current, CopiedIsSettled
<1>3. ~input.allStages => Current \notin copied
  BY <1>1, <1>2 DEF CopiedIsSettled
<1>4. CASE copied' = copied
  BY <1>1, <1>2, <1>3, <1>4 DEF CopiedIsSettled
<1>5. CASE DispatchCopyFrom
  <2>1. copied' = copied \cup {FromSources[1]} /\ FromSources[1] \in noinit
    BY <1>5 DEF DispatchCopyFrom
  <2>2. FromSources[1] # Current
    BY <1>5, CopySource
  <2> QED BY <1>1, <1>2, <1>3, <2>1, <2>2 DEF CopiedIsSettled
<1> QED BY <1>4, <1>5

LEMMA OverCopied ==
    ASSUME IInv, phase' \in {"done", "failed"}, UNCHANGED <<copied, noinit>>
    PROVE  CopiedIsSettled'
BY DEF IInv, CopiedIsSettled

DispatchCommand ==
    \/ DispatchAdd \/ DispatchCopyContext \/ DispatchCopyFrom
    \/ DispatchTool \/ DispatchCat \/ DispatchLabel

LEMMA DispatchCommandStep ==
    DispatchCommand => CommandStep /\ AtCommand(Op) /\ (copied' = copied \/ DispatchCopyFrom)
BY DEF DispatchCommand, DispatchAdd, DispatchCopyContext, DispatchCopyFrom, DispatchTool,
       DispatchConvert, DispatchQuantize, RunTool, DispatchCat, DispatchLabel, CommandStep,
       AtCommand, result, Op

LEMMA NextIInv == IInv /\ [Next]_vars => IInv'
<1> SUFFICES ASSUME IInv, [Next]_vars PROVE IInv'
  OBVIOUS
<1> USE DEF IInv
<1>1. CASE RegisterStage
  BY <1>1, RegisterStageType, RegisterStageLoops
<1>2. CASE SelectTarget
  BY <1>2, SelectTargetType, SelectTargetLoops
<1>3. CASE FillCommand
  BY <1>3, FillCommandType, FillCommandLoops
<1>4. CASE FillNextStage
  BY <1>4, FillNextStageType, FillNextStageLoops
<1>5. CASE Validate
  BY <1>5, ValidateType, ValidateLoops
<1>6. CASE StartResolve
  BY <1>6, StartResolveType, StartResolveLoops
<1>7. ASSUME NEW k \in DOMAIN job, ResolveNamed(k) \/ ResolveConfig(k) \/ Cancel(k)
      PROVE  IInv'
  BY <1>7, ResolveNamedType, ResolveConfigType, CancelType, ResolveLoops
<1>8. CASE FinishResolve
  BY <1>8, FinishResolveType, FinishResolveLoops
<1>9. CASE SkipState \/ LeaveState
  <2>1. phase = "dispatch" /\ UNCHANGED <<phase, srcs, stage>>
    BY <1>9 DEF SkipState, LeaveState, graph
  <2> QED BY <1>9, <2>1, SkipStateType, LeaveStateType, DispatchLoops, SkipOrLeaveCopied
<1>10. CASE EnterState
  <2>1. phase = "dispatch" /\ UNCHANGED <<phase, srcs, stage>>
    BY <1>10 DEF EnterState, graph
  <2> QED BY <1>10, <2>1, EnterStateType, DispatchLoops, EnterStateCopied
<1>11. CASE DispatchCommand
  <2>1. phase = "dispatch" /\ UNCHANGED <<phase, srcs, stage>>
    BY <1>11, DispatchCommandStep DEF CommandStep, graph
  <2>2. TypeOK'
    BY <1>11, DispatchAddType, DispatchCopyContextType, DispatchCopyFromType,
       DispatchToolType, DispatchInlineType DEF DispatchCommand
  <2> QED BY <1>11, <2>1, <2>2, DispatchLoops, DispatchCommandStep, CommandCopied
<1>12. CASE DispatchFails \/ Finish
  <2>1. /\ phase = "dispatch" /\ phase' \in {"done", "failed"}
        /\ UNCHANGED <<srcs, stage, copied, noinit>>
    BY <1>12 DEF DispatchFails, Finish, Fail, AtCommand, graph, result
  <2> QED BY <1>12, <2>1, DispatchFailsType, FinishType, DispatchLoops, OverCopied
<1>13. CASE UNCHANGED vars
  <2>1. TypeOK' /\ ToolsHaveImages'
    BY <1>13 DEF vars, graph, result, TypeOK, ToolsHaveImages
  <2>2. Circular' <=> Circular
    BY <1>13 DEF vars, graph, Circular, Deps
  <2>3. LoopsDone'
    BY <1>13, <2>2 DEF vars, graph, result, LoopsDone
  <2>4. CopiedIsSettled'
    BY <1>13 DEF vars, graph, result, CopiedIsSettled, Current
  <2> QED BY <2>1, <2>3, <2>4
<1> QED
  BY <1>1, <1>2, <1>3, <1>4, <1>5, <1>6, <1>7, <1>8, <1>9, <1>10, <1>11, <1>12, <1>13
     DEF Next, DispatchCommand, DispatchTool

\* The types, what the loops of toDispatchState have done where they are, and
\* that only states which are not dispatched any more are copied from.
THEOREM ConvertInvariant == Spec => []IInv
<1> QED BY InitIInv, NextIInv, PTL DEF Spec

\* A step that extends or overwrites the content of a state leaves alone those
\* that a COPY --from has read: dispatched stages, images and named contexts.
THEOREM CopiedStatesStay == Spec => CopiedStaysAsItWas
<1>1. IInv /\ [Next]_vars => [~input.allStages => \A d \in copied : fs'[d] = fs[d]]_vars
  <2> SUFFICES ASSUME IInv, Next, ~input.allStages, NEW d \in copied
               PROVE  fs'[d] = fs[d]
    OBVIOUS
  <2> USE DEF IInv
  <2>1. d \in Id /\ fs \in [Id -> SUBSET Vertex(Id)] /\ d \in noinit
    BY DEF TypeOK, CopiedIsSettled
  <2>2. phase \notin {"register", "fill", "resolve"}
    BY DEF CopiedIsSettled
  <2>3. CASE EnterState
    <3>1. Current \notin noinit
      BY <2>3 DEF EnterState
    <3> HIDE DEF Current
    <3>2. fs' = fs \/ fs' = [fs EXCEPT ![Current] = fs[base[Current]]]
      BY <2>3 DEF EnterState, Inherit
    <3> QED BY <2>1, <3>1, <3>2
  <2>4. CASE DispatchCommand
    <3>1. AtCommand(Op) /\ d # Current
      <4>1. AtCommand(Op) /\ cmd > 0
        BY <2>4, DispatchCommandStep, DispatchFacts
      <4> QED BY <4>1 DEF CopiedIsSettled, AtCommand
    <3>2. \A read : Extend(read) => fs'[d] = fs[d]
      BY <2>1, <3>1 DEF Extend
    <3> QED
      BY <2>4, <3>2 DEF DispatchCommand, DispatchAdd, DispatchCopyContext, DispatchCopyFrom,
                        DispatchTool, DispatchConvert, DispatchQuantize, RunTool, DispatchCat,
                        DispatchLabel, result
  <2>5. CASE SkipState \/ LeaveState \/ DispatchFails \/ Finish
    BY <2>5 DEF SkipState, LeaveState, DispatchFails, Finish, result
  <2>6. ~(RegisterStage \/ SelectTarget \/ FillCommand \/ FillNextStage \/ Validate \/ StartResolve
            \/ FinishResolve \/ \E k \in DOMAIN job : ResolveNamed(k) \/ ResolveConfig(k) \/ Cancel(k))
    BY <2>2 DEF RegisterStage, SelectTarget, FillCommand, FillNextStage, Validate, StartResolve,
                FinishResolve, ResolveNamed, ResolveConfig, Cancel
  <2> QED BY <2>3, <2>4, <2>5, <2>6 DEF Next, DispatchCommand, DispatchTool
<1> QED BY <1>1, ConvertInvariant, PTL DEF Spec, CopiedStaysAsItWas

-----------------------------------------------------------------------------
\* The verdict.

\* No number behind --from leads past the stages into the states that the fill
\* loop adds for images, and no stage has the name of the image of a tool.
AddsStates(in) == \E k \in Positions(in) : \E c \in Commands(in, k) : IsTool(c) \/ FromImage(in, c)
IsClear(in) ==
    \A k \in Positions(in) : \A c \in Commands(in, k) :
        /\ c.from.by = "index" /\ AddsStates(in) => c.from.index < Len(in.stages)
        /\ IsTool(c) => Last(in, ToolImage(c), Len(in.stages) + 1) = 0

Count == Len(input.stages)
Registered == IF phase = "register" THEN n ELSE Count
IsReplaced(k) == Replaced(input, input.stages[k])
Underway == phase \notin {"done", "failed"}

\* The first states are the stages, in their order, and the others that are
\* listed stand for images.
StagesAreStates ==
    /\ \A x \in Name : byName[x] = Last(input, x, Registered + 1)
    /\ Registered <= Len(order)
    /\ \A k \in 1..Registered :
         /\ stage[k] = input.stages[k] /\ order[k] = k
         /\ base[k] = BaseStage(input, k)
         /\ IsReplaced(k) => input.stages[k].name \notin input.broken
    /\ \A k \in 1..Len(order) : k > Registered => order[k] \in implicit
    /\ phase = "register" => implicit = {}
    /\ phase # "register" => /\ Count <= n
                             /\ target \in 1..Count
                             /\ target = IF input.target = NoName THEN Count ELSE Last(input, input.target, Count + 1)

ImagesAreStates ==
    /\ \A d \in implicit :
         /\ d > Count /\ d <= n
         /\ \E k \in 1..Len(order) : order[k] = d
         /\ \E k \in 1..Count : d \in Deps(k)
    /\ \A d \in Id : d > Registered => base[d] = None /\ stage[d].cmds = <<>> /\ srcs[d] = <<>>
    /\ ~AddsStates(input) => implicit = {}

FromIs(c, d) ==
    /\ FromStage(input, c.from) # 0 => d = FromStage(input, c.from) /\ d <= Count
    /\ FromImage(input, c) => d \in implicit /\ stage[d].image = c.from.name
    /\ FromContext(input, c) => d > Count /\ d <= n /\ d \in noinit \ implicit

SourcesAre(c, s) ==
    /\ Len(s) = (IF c.from.by = "none" THEN 0 ELSE 1) + (IF IsTool(c) THEN 1 ELSE 0)
    /\ c.from.by # "none" => FromIs(c, s[1])
    /\ IsTool(c) => s[Len(s)] \in implicit /\ stage[s[Len(s)]].image = ToolImage(c)

SourcesAreThose ==
    \A k \in 1..Count : \A i \in 1..Len(srcs[k]) : SourcesAre(input.stages[k].cmds[i], srcs[k][i])

Fetched(d) == input.allStages \/ d \in reach

\* States whose image is looked for, and those of which it can be had.
Resolvable(d) ==
    /\ base[d] = None /\ stage[d].image # Scratch
    /\ d \in implicit \/ (d \in 1..Count /\ ~IsReplaced(d))
IsHad(d) == stage[d].image \in input.broken => stage[d].image \notin input.named /\ ~Fetched(d)
Missing == \E k \in 1..Len(order) : Resolvable(order[k]) /\ ~IsHad(order[k])

\* The stages that need no dispatch: replaced ones, and in the dispatch loop
\* those that it has entered.
Entered(k) ==
    /\ phase = "dispatch" /\ (k < pos \/ (k = pos /\ cmd > 0))
    /\ Fetched(k)
SettledStages ==
    /\ \A k \in 1..Count : k \in noinit <=> (k <= Registered /\ IsReplaced(k)) \/ Entered(k)
    /\ noinit \subseteq 1..n
    /\ phase = "fill" => noinit \cap implicit = {}
    /\ phase = "dispatch" => implicit \subseteq noinit

Jobs ==
    /\ phase \in {"resolve", "dispatch"} => reach = Reachable(target)
    /\ phase = "resolve" =>
         /\ \A k \in 1..Len(job) : LET d == order[k] IN
              /\ job[k] # "ok" => Resolvable(d)
              /\ job[k] = "config" => stage[d].image \notin input.named /\ Fetched(d)
              /\ job[k] = "failed" => Missing
              /\ job[k] = "ok" /\ Resolvable(d) => IsHad(d) \/ \E j \in 1..Len(job) : job[j] = "failed"
              /\ job[k] = "ok" /\ d \in implicit => d \in noinit
         /\ \A d \in noinit : Resolvable(d) => IsHad(d) \/ \E j \in 1..Len(job) : job[j] = "failed"
    /\ phase = "dispatch" => ~Missing /\ ~Fails("ignore")

Dispatched(k, i) ==
    /\ k < pos \/ (k = pos /\ i < cmd)
    /\ input.allStages \/ (k \in reach /\ ~IsReplaced(k))
CommandsAreSound ==
    phase = "dispatch" =>
        /\ \A k \in 1..Count : \A i \in 1..Len(input.stages[k].cmds) :
             Dispatched(k, i) => Sound(input, k, input.stages[k].cmds[i])
        /\ cmd > 0 => pos <= Len(order) /\ (input.allStages \/ (Current \in reach /\ (pos <= Count => ~IsReplaced(pos))))

VerdictInv ==
    IsClear(input) /\ Underway =>
        StagesAreStates /\ ImagesAreStates /\ SourcesAreThose /\ SettledStages /\ Jobs /\ CommandsAreSound
ClearVerdict == IsClear(input) => VerdictIsRight

\* The least of a set of numbers.
LEMMA LeastNumber ==
    ASSUME NEW T \in SUBSET Nat, T # {}
    PROVE  \E m \in T : \A t \in T : m <= t
<1> DEFINE R == {p \in Nat \X Nat : p[1] < p[2]}
<1>1. IsWellFoundedOn(R, Nat)
  BY NatLessThanWellFounded, Zenon DEF OpToRel
<1>2. \E x \in T : \A y \in T : <<y, x>> \notin R
  <2> HIDE DEF R
  <2> QED BY <1>1, WFMin, Zenon
<1>3. PICK x \in T : \A y \in T : <<y, x>> \notin R
  BY <1>2
<1>4. \A y \in T : ~(y < x)
  BY <1>3
<1> QED BY <1>3, <1>4

\* The last of the stages of a name that come before k.
LEMMA LastFacts ==
    ASSUME NEW in \in Input, NEW name, NEW k \in 1..(Len(in.stages) + 1)
    PROVE  /\ Last(in, name, k) \in 0..(k - 1)
           /\ Last(in, name, k) = 0 => \A j \in 1..(k - 1) : in.stages[j].name # name
           /\ Last(in, name, k) # 0 =>
                /\ in.stages[Last(in, name, k)].name = name
                /\ \A j \in 1..(k - 1) : in.stages[j].name = name => j <= Last(in, name, k)
<1> DEFINE same == {j \in 1..(k - 1) : in.stages[j].name = name}
<1>1. in.stages \in Seq(Stage) /\ Len(in.stages) \in Nat /\ k \in Nat /\ k > 0
  BY DEF Input
<1>2. Last(in, name, k) = IF same = {} THEN 0 ELSE CHOOSE j \in same : \A i \in same : i <= j
  BY DEF Last
<1>3. CASE same = {}
  BY <1>1, <1>2, <1>3
<1>4. CASE same # {}
  <2> DEFINE rest == {m \in Nat : \E j \in same : m = k - j}
  <2>1. \A j \in same : j \in Nat /\ k - j \in Nat
    BY <1>1
  <2>2. rest \in SUBSET Nat /\ rest # {}
    BY <1>4, <2>1
  <2>3. PICK m \in rest : \A i \in rest : m <= i
    BY <2>2, LeastNumber
  <2>4. PICK j \in same : m = k - j
    BY <2>3
  <2>5. \A i \in same : i <= j
    <3> SUFFICES ASSUME NEW i \in same PROVE i <= j
      OBVIOUS
    <3>1. k - i \in rest
      BY <2>1
    <3>2. m <= k - i
      BY <2>3, <3>1
    <3> QED BY <1>1, <2>1, <2>4, <3>2
  <2> HIDE DEF same, rest
  <2>6. \E x \in same : \A i \in same : i <= x
    BY <2>5
  <2>7. Last(in, name, k) \in same /\ \A i \in same : i <= Last(in, name, k)
    BY <1>2, <1>4, <2>6
  <2> QED BY <1>1, <2>7 DEF same
<1> QED BY <1>3, <1>4

LEMMA LastStep ==
    ASSUME NEW in \in Input, NEW name, NEW k \in 1..Len(in.stages)
    PROVE  Last(in, name, k + 1) = IF in.stages[k].name = name THEN k ELSE Last(in, name, k)
<1>1. in.stages \in Seq(Stage) /\ Len(in.stages) \in Nat /\ k \in Nat /\ k > 0
      /\ k \in 1..(Len(in.stages) + 1) /\ k + 1 \in 1..(Len(in.stages) + 1)
  BY DEF Input
<1>2. (k + 1) - 1 = k /\ k - 1 \in Nat
  BY <1>1
<1> DEFINE a == Last(in, name, k)
           b == Last(in, name, k + 1)
<1>3. /\ a \in 0..(k - 1)
      /\ a = 0 => \A j \in 1..(k - 1) : in.stages[j].name # name
      /\ a # 0 => in.stages[a].name = name /\ \A j \in 1..(k - 1) : in.stages[j].name = name => j <= a
  BY <1>1, LastFacts
<1>4. /\ b \in 0..k
      /\ b = 0 => \A j \in 1..k : in.stages[j].name # name
      /\ b # 0 => in.stages[b].name = name /\ \A j \in 1..k : in.stages[j].name = name => j <= b
  BY <1>1, <1>2, LastFacts
<1> HIDE DEF a, b
<1>5. b = IF in.stages[k].name = name THEN k ELSE a
  BY <1>1, <1>3, <1>4
<1> QED BY <1>5 DEF a, b

LEMMA LastNone == \A in \in Input : \A name : Last(in, name, 1) = 0
<1> SUFFICES ASSUME NEW in \in Input, NEW name PROVE Last(in, name, 1) = 0
  OBVIOUS
<1> QED BY DEF Last

\* Numbers and stages of the recipe that is converted.
LEMMA Recipes ==
    ASSUME TypeOK
    PROVE  /\ input \in Input /\ Count \in Nat /\ Count \in 1..MaxStates /\ 1..Count \subseteq Id
           /\ MaxStates \in Nat /\ None \notin Id /\ None = 0 /\ Id \subseteq Nat /\ n \in Nat
           /\ \A d \in Id : d \in 1..MaxStates
           /\ Positions(input) = 1..Count
           /\ input.target \in Name \cup {NoName}
           /\ \A k \in 1..Count :
                /\ input.stages[k] \in Stage /\ input.stages[k].cmds \in Seq(Command)
                /\ input.stages[k].image \in Name /\ input.stages[k].name \in Name \cup {NoName}
<1>1. input \in Inputs
  BY DEF TypeOK
<1>2. /\ input \in Input /\ Count \in Nat /\ Count \in 1..MaxStates
      /\ \A k \in 1..Count : k \in Id /\ input.stages[k] \in Stage
      /\ input.target \in Name \cup {NoName}
  BY <1>1, InputFacts DEF Count
<1>3. /\ MaxStates \in Nat /\ None \notin Id /\ None = 0 /\ Id \subseteq Nat /\ n \in Nat
      /\ \A d \in Id : d \in 1..MaxStates
  BY MaxStatesAssumption, NoneIsNoState DEF Id, None, TypeOK
<1>4. \A s \in Stage : s.cmds \in Seq(Command) /\ s.image \in Name /\ s.name \in Name \cup {NoName}
  BY DEF Stage
<1>5. Positions(input) = 1..Count
  BY DEF Positions, Count
<1> QED BY <1>2, <1>3, <1>4, <1>5

-----------------------------------------------------------------------------
\* The stages are registered.

LEMMA InitVerdict == Init => VerdictInv
<1> SUFFICES ASSUME Init, IsClear(input) PROVE StagesAreStates /\ ImagesAreStates /\ SourcesAreThose /\ SettledStages /\ Jobs /\ CommandsAreSound
  BY DEF VerdictInv
<1>1. IInv
  BY InitIInv
<1>2. /\ phase = "register" /\ n = 0 /\ order = <<>> /\ byName = [x \in Name |-> None]
      /\ implicit = {} /\ noinit = {} /\ base = [d \in Id |-> None] /\ srcs = [d \in Id |-> <<>>]
      /\ \A d \in Id : stage[d].cmds = <<>>
  BY DEF Init
<1>3. Registered = 0 /\ Len(order) = 0
  BY <1>2 DEF Registered
<1>4. input \in Input /\ 1..Count \subseteq Id /\ None = 0
  BY <1>1, Recipes DEF IInv
<1>5. StagesAreStates
  BY <1>2, <1>3, <1>4, LastNone DEF StagesAreStates
<1>6. ImagesAreStates
  BY <1>2 DEF ImagesAreStates
<1>7. SourcesAreThose
  BY <1>2, <1>4 DEF SourcesAreThose
<1>8. SettledStages
  BY <1>2, <1>3 DEF SettledStages, Entered
<1>9. Jobs /\ CommandsAreSound
  BY <1>2 DEF Jobs, CommandsAreSound
<1> QED BY <1>5, <1>6, <1>7, <1>8, <1>9

\* As long as the stages are registered, nothing else is.
LEMMA Registering ==
    ASSUME IInv, VerdictInv, IsClear(input), phase = "register"
    PROVE  /\ n = pos - 1 /\ n \in 0..Count /\ Registered = n /\ Len(order) = n /\ implicit = {}
           /\ \A d \in Id : srcs[d] = <<>> /\ (d > n => stage[d].cmds = <<>>)
           /\ order \in Seq(Id) /\ pos \in Nat /\ pos > 0
<1>1. n = pos - 1 /\ n <= Count /\ \A d \in Id : srcs[d] = <<>> /\ (d > n => stage[d].cmds = <<>>)
  BY DEF IInv, LoopsDone, Count
<1>2. order \in Seq(Id) /\ pos \in Nat /\ n \in Nat /\ Count \in Nat /\ pos > 0
  BY Recipes DEF IInv, TypeOK
<1>3. StagesAreStates
  BY DEF VerdictInv, Underway
<1>4. implicit = {} /\ Registered = n /\ n <= Len(order) /\ \A k \in 1..Len(order) : ~(k > n)
  BY <1>3 DEF StagesAreStates, Registered
<1>5. Len(order) = n
  <2>1. Len(order) \in Nat
    BY <1>2
  <2> HIDE DEF Registered
  <2> QED BY <1>2, <1>4, <2>1
<1> QED BY <1>1, <1>2, <1>4, <1>5

LEMMA RegisterStageVerdict ==
    ASSUME IInv, VerdictInv, ClearVerdict, RegisterStage, IInv'
    PROVE  VerdictInv' /\ ClearVerdict'
<1>1. input' = input /\ phase = "register" /\ pos <= Count
  BY DEF RegisterStage, Count
<1> SUFFICES ASSUME IsClear(input)
             PROVE  (Underway' => (StagesAreStates /\ ImagesAreStates /\ SourcesAreThose /\ SettledStages /\ Jobs /\ CommandsAreSound)')
                    /\ VerdictIsRight'
  BY <1>1 DEF VerdictInv, ClearVerdict
<1> DEFINE s == input.stages[pos]
<1>2. TypeOK /\ TypeOK'
  BY DEF IInv
<1>3. /\ n = pos - 1 /\ Registered = n /\ Len(order) = n /\ implicit = {} /\ order \in Seq(Id)
      /\ \A d \in Id : srcs[d] = <<>> /\ (d > n => stage[d].cmds = <<>>)
      /\ pos \in Nat /\ pos > 0 /\ pos \in 1..Count
  BY <1>1, Registering, Recipes, <1>2
<1>4. /\ input \in Input /\ Count \in Nat /\ Positions(input) = 1..Count /\ 1..Count \subseteq Id /\ None = 0
      /\ Id \subseteq Nat /\ n \in Nat
      /\ s \in Stage /\ s.image \in Name /\ s.name \in Name \cup {NoName}
  BY <1>2, <1>3, Recipes
<1>5. StagesAreStates /\ ImagesAreStates /\ SettledStages
  BY <1>1 DEF VerdictInv, Underway
<1>6. CASE IsReplaced(pos) /\ s.name \in input.broken
  <2>1. phase' = "failed"
    BY <1>6 DEF RegisterStage, Fail, IsReplaced
  <2>2. ~Accepts(input)
    BY <1>3, <1>4, <1>6 DEF Accepts, IsReplaced
  <2> QED BY <1>1, <2>1, <2>2 DEF VerdictIsRight, Underway
<1>7. CASE ~(IsReplaced(pos) /\ s.name \in input.broken)
  <2>1. /\ n' = pos /\ stage' = [stage EXCEPT ![pos] = s]
        /\ order' = Append(order, pos)
        /\ base' = [base EXCEPT ![pos] = byName[s.image]]
        /\ byName' = IF s.name = NoName THEN byName ELSE [byName EXCEPT ![s.name] = pos]
        /\ noinit' = IF IsReplaced(pos) THEN noinit \cup {pos} ELSE noinit
        /\ pos' = pos + 1
        /\ UNCHANGED <<phase, implicit, srcs>>
    BY <1>7 DEF RegisterStage, IsReplaced
  <2>2. Registered' = pos /\ Count' = Count /\ \A k : IsReplaced(k)' <=> IsReplaced(k)
    BY <1>1, <2>1 DEF Registered, Count, IsReplaced
  <2>3. StagesAreStates'
    <3>1. \A x \in Name : byName'[x] = Last(input, x, pos + 1)
      <4> SUFFICES ASSUME NEW x \in Name PROVE byName'[x] = Last(input, x, pos + 1)
        OBVIOUS
      <4>1. Last(input, x, pos + 1) = IF s.name = x THEN pos ELSE Last(input, x, pos)
        BY <1>3, <1>4, LastStep DEF Count
      <4>2. byName[x] = Last(input, x, pos)
        BY <1>3, <1>5 DEF StagesAreStates
      <4>3. byName'[x] = IF s.name = x THEN pos ELSE byName[x]
        BY <1>2, <1>4, <2>1, NameAssumption DEF TypeOK
      <4> QED BY <4>1, <4>2, <4>3
    <3>2. Len(order') = pos /\ order'[pos] = pos /\ \A k \in 1..n : order'[k] = order[k]
      BY <1>3, <1>4, <2>1
    <3>3. \A k \in 1..pos : k \in 1..n \/ k = pos
      BY <1>3
    <3>4. ASSUME NEW k \in 1..n
          PROVE  stage'[k] = input.stages[k] /\ order'[k] = k /\ base'[k] = BaseStage(input, k)
                 /\ (IsReplaced(k) => input.stages[k].name \notin input.broken)
      <4>1. stage'[k] = stage[k] /\ base'[k] = base[k]
        <5>1. stage \in [Id -> Stage] /\ base \in [Id -> Id \cup {None}]
          BY <1>2 DEF TypeOK
        <5>2. k \in Id /\ k # pos
          BY <1>3, <1>4
        <5>3. stage' = [stage EXCEPT ![pos] = s] /\ base' = [base EXCEPT ![pos] = byName[s.image]]
          BY <2>1
        <5> HIDE DEF s
        <5> QED BY <5>1, <5>2, <5>3
      <4> QED BY <1>3, <1>5, <3>2, <4>1 DEF StagesAreStates
    <3>5. stage'[pos] = s /\ base'[pos] = BaseStage(input, pos)
      <4>1. byName[s.image] = Last(input, s.image, pos)
        BY <1>3, <1>4, <1>5 DEF StagesAreStates
      <4> QED BY <1>2, <1>3, <1>4, <2>1, <4>1 DEF TypeOK, BaseStage
    <3>6. \A k \in 1..pos : /\ stage'[k] = input.stages[k] /\ order'[k] = k
                            /\ base'[k] = BaseStage(input, k)
                            /\ IsReplaced(k) => input.stages[k].name \notin input.broken
      BY <1>7, <3>2, <3>3, <3>4, <3>5
    <3> HIDE DEF s
    <3> QED BY <1>1, <1>3, <2>1, <2>2, <3>1, <3>2, <3>6 DEF StagesAreStates
  <2>4. ImagesAreStates'
    <3>1. \A d \in Id : d > pos => base'[d] = None /\ stage'[d].cmds = <<>> /\ srcs'[d] = <<>>
      <4> SUFFICES ASSUME NEW d \in Id, d > pos PROVE base'[d] = None /\ stage'[d].cmds = <<>> /\ srcs'[d] = <<>>
        OBVIOUS
      <4>1. d > n /\ d # pos
        BY <1>3, <1>4
      <4>2. stage'[d] = stage[d] /\ base'[d] = base[d] /\ srcs'[d] = srcs[d]
        BY <1>2, <2>1, <4>1 DEF TypeOK
      <4> QED BY <1>3, <1>5, <4>1, <4>2 DEF ImagesAreStates
    <3>2. implicit' = {} /\ Registered' = pos
      BY <1>3, <2>1, <2>2
    <3> QED BY <3>1, <3>2 DEF ImagesAreStates
  <2>5. SourcesAreThose'
    <3>1. \A k \in 1..Count : srcs'[k] = <<>>
      BY <1>3, <1>4, <2>1
    <3> QED BY <2>2, <3>1 DEF SourcesAreThose
  <2>6. SettledStages'
    <3>1. \A k : ~Entered(k) /\ ~Entered(k)'
      BY <1>1, <2>1 DEF Entered
    <3>2. \A k \in 1..Count : k \in noinit' <=> k <= pos /\ IsReplaced(k)
      <4>1. \A k \in 1..Count : k \in noinit <=> k <= n /\ IsReplaced(k)
        BY <1>3, <1>5, <3>1 DEF SettledStages
      <4>2. \A k \in 1..Count : k <= pos <=> (k <= n \/ k = pos)
        BY <1>3
      <4>3. ~(pos <= n)
        BY <1>3
      <4> QED BY <1>3, <2>1, <4>1, <4>2, <4>3
    <3>3. noinit' \subseteq 1..pos
      <4>1. noinit \subseteq 1..n
        BY <1>5 DEF SettledStages
      <4> QED BY <1>3, <2>1, <4>1
    <3> QED BY <1>1, <2>1, <2>2, <3>1, <3>2, <3>3 DEF SettledStages
  <2>7. Jobs' /\ CommandsAreSound' /\ VerdictIsRight'
    BY <1>1, <2>1 DEF Jobs, CommandsAreSound, VerdictIsRight
  <2> QED BY <2>3, <2>4, <2>5, <2>6, <2>7
<1> QED BY <1>6, <1>7

\* A step that leaves the states alone leaves alone what is said of them.
SameStates ==
    /\ UNCHANGED <<input, n, order, byName, stage, base, implicit, srcs, target>>
    /\ Registered' = Registered

LEMMA SameStatesStay ==
    ASSUME SameStates
    PROVE  /\ Count' = Count
           /\ \A k : IsReplaced(k)' <=> IsReplaced(k)
           /\ \A d : Deps(d)' = Deps(d)
           /\ ImagesAreStates => ImagesAreStates'
           /\ StagesAreStates /\ (phase = "register" <=> phase' = "register") => StagesAreStates'
           /\ SourcesAreThose /\ noinit \subseteq noinit' => SourcesAreThose'
<1>1. Count' = Count /\ \A k : IsReplaced(k)' <=> IsReplaced(k)
  BY DEF SameStates, Count, IsReplaced
<1>2. \A d : Deps(d)' = Deps(d)
  BY DEF SameStates, Deps
<1>3. ImagesAreStates => ImagesAreStates'
  BY <1>1, <1>2 DEF SameStates, ImagesAreStates
<1>4. StagesAreStates /\ (phase = "register" <=> phase' = "register") => StagesAreStates'
  BY <1>1 DEF SameStates, StagesAreStates
<1>5. SourcesAreThose /\ noinit \subseteq noinit' => SourcesAreThose'
  <2> SUFFICES ASSUME SourcesAreThose, noinit \subseteq noinit', NEW k \in 1..Count, NEW i \in 1..Len(srcs[k])
               PROVE  SourcesAre(input.stages[k].cmds[i], srcs[k][i])'
    BY <1>1 DEF SameStates, SourcesAreThose
  <2> DEFINE c == input.stages[k].cmds[i]
             s == srcs[k][i]
  <2>1. SourcesAre(c, s)
    BY DEF SourcesAreThose
  <2>2. \A d : FromIs(c, d) => FromIs(c, d)'
    BY <1>1 DEF SameStates, FromIs
  <2> QED BY <1>1, <2>1, <2>2 DEF SameStates, SourcesAre
<1> QED BY <1>1, <1>2, <1>3, <1>4, <1>5

LEMMA SelectTargetVerdict ==
    ASSUME IInv, VerdictInv, ClearVerdict, SelectTarget, IInv'
    PROVE  VerdictInv' /\ ClearVerdict'
<1>1. /\ phase = "register" /\ pos > Count /\ phase' \in {"failed", "fill"}
      /\ UNCHANGED <<input, graph, result>>
      /\ target' = IF input.target = NoName THEN n ELSE byName[input.target]
      /\ phase' = IF target' = None THEN "failed" ELSE "fill"
  BY DEF SelectTarget, Count
<1> SUFFICES ASSUME IsClear(input)
             PROVE  (Underway' => (StagesAreStates /\ ImagesAreStates /\ SourcesAreThose /\ SettledStages /\ Jobs /\ CommandsAreSound)')
                    /\ VerdictIsRight'
  BY <1>1 DEF VerdictInv, ClearVerdict
<1>2. TypeOK /\ TypeOK'
  BY DEF IInv
<1>3. /\ n = Count /\ Registered = n /\ Len(order) = n /\ implicit = {} /\ Count \in Nat /\ Count > 0
      /\ \A d \in Id : srcs[d] = <<>> /\ (d > n => stage[d].cmds = <<>>)
      /\ input \in Input /\ Positions(input) = 1..Count /\ 1..Count \subseteq Id /\ None = 0
      /\ input.target \in Name \cup {NoName}
  BY <1>1, <1>2, Registering, Recipes
<1>4. StagesAreStates /\ ImagesAreStates /\ SettledStages
  BY <1>1 DEF VerdictInv, Underway
<1>5. Registered' = Count /\ Count' = Count /\ \A k : IsReplaced(k)' <=> IsReplaced(k)
  BY <1>1, <1>3 DEF Registered, Count, IsReplaced, graph
<1>6. input.target # NoName =>
        /\ byName[input.target] = Last(input, input.target, Count + 1)
        /\ Last(input, input.target, Count + 1) \in 0..Count
        /\ Last(input, input.target, Count + 1) = 0 => \A j \in 1..Count : input.stages[j].name # input.target
  <2>1. Count + 1 \in 1..(Len(input.stages) + 1) /\ (Count + 1) - 1 = Count
    BY <1>3 DEF Count
  <2> QED BY <1>3, <1>4, <2>1, LastFacts DEF StagesAreStates
<1>7. CASE target' = None
  <2>1. phase' = "failed"
    BY <1>1, <1>7
  <2>2. input.target # NoName /\ \A j \in 1..Count : input.stages[j].name # input.target
    BY <1>1, <1>3, <1>6, <1>7
  <2>3. ~Accepts(input)
    BY <1>3, <2>2 DEF Accepts
  <2> QED BY <1>1, <2>1, <2>3 DEF VerdictIsRight, Underway
<1>8. CASE target' # None
  <2>1. phase' = "fill"
    BY <1>1, <1>8
  <2>2. target' \in 1..Count /\ target' = IF input.target = NoName THEN Count ELSE Last(input, input.target, Count + 1)
    BY <1>1, <1>3, <1>6, <1>8
  <2>3. StagesAreStates'
    BY <1>1, <1>3, <1>4, <1>5, <2>1, <2>2 DEF StagesAreStates, graph
  <2>4. ImagesAreStates'
    BY <1>1, <1>3, <1>4, <1>5 DEF ImagesAreStates, graph
  <2>5. SourcesAreThose'
    <3>1. \A k \in 1..Count : srcs'[k] = <<>>
      BY <1>1, <1>3 DEF graph
    <3> QED BY <1>5, <3>1 DEF SourcesAreThose
  <2>6. SettledStages'
    <3>1. \A k : ~Entered(k) /\ ~Entered(k)'
      BY <1>1, <2>1 DEF Entered
    <3> QED BY <1>1, <1>3, <1>4, <1>5, <2>1, <3>1 DEF SettledStages, graph, result
  <2>7. Jobs' /\ CommandsAreSound' /\ VerdictIsRight'
    BY <2>1 DEF Jobs, CommandsAreSound, VerdictIsRight
  <2> QED BY <2>3, <2>4, <2>5, <2>6, <2>7
<1> QED BY <1>7, <1>8

LEMMA FillNextStageVerdict ==
    ASSUME IInv, VerdictInv, ClearVerdict, FillNextStage, IInv'
    PROVE  VerdictInv' /\ ClearVerdict'
<1>1. phase = "fill" /\ phase' = phase /\ UNCHANGED <<input, graph, result, target>>
  BY DEF FillNextStage
<1>2. SameStates /\ UNCHANGED noinit
  BY <1>1 DEF SameStates, Registered, Count, graph, result
<1> SUFFICES ASSUME IsClear(input)
             PROVE  (StagesAreStates /\ ImagesAreStates /\ SourcesAreThose /\ SettledStages /\ Jobs /\ CommandsAreSound)'
                    /\ VerdictIsRight'
  BY <1>1 DEF VerdictInv, ClearVerdict
<1>3. StagesAreStates /\ ImagesAreStates /\ SourcesAreThose /\ SettledStages
  BY <1>1 DEF VerdictInv, Underway
<1>4. StagesAreStates' /\ ImagesAreStates' /\ SourcesAreThose'
  BY <1>1, <1>2, <1>3, SameStatesStay
<1>5. SettledStages'
  <2>1. \A k : ~Entered(k) /\ ~Entered(k)'
    BY <1>1 DEF Entered
  <2> QED BY <1>1, <1>2, <1>3, <2>1, SameStatesStay DEF SettledStages, SameStates
<1>6. Jobs' /\ CommandsAreSound' /\ VerdictIsRight'
  BY <1>1 DEF Jobs, CommandsAreSound, VerdictIsRight
<1> QED BY <1>4, <1>5, <1>6

-----------------------------------------------------------------------------
\* The sources are found.

Added(c) == {d \in {FromId(c), ToolId(c)} : (d = FromId(c) /\ FromImage(input, c)) \/ (d = ToolId(c) /\ IsTool(c))}
FromNew(c) == FromImage(input, c) \/ FromContext(input, c)

\* A command that is at the fill loop, and the stage behind its --from.
LEMMA FillingFacts ==
    ASSUME IInv, StagesAreStates, ImagesAreStates, IsClear(input), phase = "fill", pos <= Count, cmd <= Len(stage[pos].cmds),
           NEW c, c = Filling
    PROVE  /\ pos \in 1..Count /\ cmd \in 1..Len(input.stages[pos].cmds)
           /\ c = input.stages[pos].cmds[cmd] /\ c \in Commands(input, pos) /\ c \in Command
           /\ c.from.by = "index" => FromStage(input, c.from) = c.from.index + 1 /\ c.from.index \in Nat
           /\ c.from.by = "index" /\ c.from.index < Len(order) => c.from.index < Count
           /\ c.from.by = "name" =>
                /\ c.from.name \in Name /\ FromStage(input, c.from) \in 0..Count
                /\ FromStage(input, c.from) = byName[c.from.name]
           /\ c.from.by \in {"name", "index", "none"}
           /\ c.from.by = "none" => FromStage(input, c.from) = 0
           /\ IsTool(c) => byName[ToolImage(c)] = None
           /\ FromImage(input, c) \/ IsTool(c) => AddsStates(input)
<1>1. TypeOK /\ LoopsDone
  BY DEF IInv
<1>2. /\ input \in Input /\ Count \in Nat /\ Positions(input) = 1..Count /\ 1..Count \subseteq Id /\ None = 0
      /\ pos \in Nat /\ pos > 0 /\ cmd \in Nat /\ cmd > 0
  BY <1>1, Recipes DEF TypeOK
<1>3. pos \in 1..Count
  BY <1>2
<1>4. stage[pos] = input.stages[pos] /\ Registered = Count
  <2>1. Registered = Count
    BY DEF Registered
  <2> QED BY <1>3, <2>1 DEF StagesAreStates
<1>5. input.stages[pos].cmds \in Seq(Command)
  BY <1>1, <1>3, Recipes
<1>6. cmd \in 1..Len(input.stages[pos].cmds)
  BY <1>2, <1>4, <1>5
<1>7. c = input.stages[pos].cmds[cmd] /\ c \in Commands(input, pos) /\ c \in Command
  BY <1>4, <1>5, <1>6 DEF Filling, Commands
<1>8. c.from \in From
  BY <1>7 DEF Command
<1>9. /\ c.from.by \in {"name", "index", "none"}
      /\ c.from.by = "name" => c.from.name \in Name
      /\ c.from.by = "index" => c.from.index \in Nat
  BY <1>8 DEF From, FromNothing
<1>10. c.from.by = "index" => FromStage(input, c.from) = c.from.index + 1
  BY DEF FromStage
<1>11. c.from.by = "none" => FromStage(input, c.from) = 0
  BY DEF FromStage
<1>12. \A x : Last(input, x, Count + 1) \in 0..Count
  <2>1. Count + 1 \in 1..(Len(input.stages) + 1) /\ (Count + 1) - 1 = Count
    BY <1>2 DEF Count
  <2> QED BY <1>2, <2>1, LastFacts
<1>13. c.from.by = "name" => /\ FromStage(input, c.from) = Last(input, c.from.name, Count + 1)
                             /\ byName[c.from.name] = Last(input, c.from.name, Count + 1)
  <2>1. c.from.by = "name" => FromStage(input, c.from) = Last(input, c.from.name, Count + 1)
    BY DEF FromStage, Count
  <2> QED BY <1>4, <1>9, <2>1 DEF StagesAreStates
<1>14. FromImage(input, c) \/ IsTool(c) => AddsStates(input)
  BY <1>2, <1>3, <1>7 DEF AddsStates
<1>15. c.from.by = "index" /\ c.from.index < Len(order) => c.from.index < Count
  <2> SUFFICES ASSUME c.from.by = "index", c.from.index < Len(order) PROVE c.from.index < Count
    OBVIOUS
  <2>1. CASE AddsStates(input)
    BY <1>2, <1>3, <1>7, <2>1 DEF IsClear, Count
  <2>2. CASE ~AddsStates(input)
    <3>1. implicit = {} /\ \A k \in 1..Len(order) : ~(k > Count)
      BY <1>4, <2>2 DEF ImagesAreStates, StagesAreStates
    <3>2. Len(order) \in Nat
      BY <1>1 DEF TypeOK
    <3>3. Len(order) <= Count
      BY <1>2, <3>1, <3>2
    <3> QED BY <1>2, <1>9, <3>2, <3>3
  <2> QED BY <2>1, <2>2
<1>16. IsTool(c) => byName[ToolImage(c)] = None
  <2> SUFFICES ASSUME IsTool(c) PROVE byName[ToolImage(c)] = None
    OBVIOUS
  <2>1. ToolImage(c) \in Name
    BY NameAssumption DEF ToolImage
  <2>2. Last(input, ToolImage(c), Count + 1) = 0
    BY <1>2, <1>3, <1>7 DEF IsClear, Count
  <2> QED BY <1>2, <1>4, <2>1, <2>2 DEF StagesAreStates
<1> QED BY <1>3, <1>6, <1>7, <1>9, <1>10, <1>11, <1>12, <1>13, <1>14, <1>15, <1>16

\* The two states that a command may add, and its sources.
LEMMA FoundFacts ==
    ASSUME IInv, StagesAreStates, ImagesAreStates, IsClear(input), phase = "fill", pos <= Count, cmd <= Len(stage[pos].cmds),
           NEW c, c = Filling, ~(c.from.by = "index" /\ c.from.index >= Len(order))
    PROVE  /\ FromStage(input, c.from) \in 0..Count
           /\ NewFrom(c) <=> FromNew(c)
           /\ FromNew(c) <=> c.from.by = "name" /\ FromStage(input, c.from) = 0
           /\ FromContext(input, c) <=> NewFrom(c) /\ c.from.name = Context
           /\ FromId(c) = IF FromNew(c) THEN n + 1 ELSE FromStage(input, c.from)
           /\ ToolId(c) = IF FromNew(c) THEN n + 2 ELSE n + 1
           /\ FromId(c) = None <=> c.from.by = "none"
           /\ Unregistered(c) = Added(c)
           /\ Len(Sources(c)) = (IF c.from.by = "none" THEN 0 ELSE 1) + (IF IsTool(c) THEN 1 ELSE 0)
           /\ c.from.by # "none" => Sources(c)[1] = FromId(c)
           /\ IsTool(c) => Sources(c)[Len(Sources(c))] = ToolId(c)
<1>1. /\ c.from.by = "index" => FromStage(input, c.from) = c.from.index + 1 /\ c.from.index \in Nat
      /\ c.from.by = "index" /\ c.from.index < Len(order) => c.from.index < Count
      /\ c.from.by = "name" => FromStage(input, c.from) \in 0..Count /\ FromStage(input, c.from) = byName[c.from.name]
      /\ c.from.by \in {"name", "index", "none"}
      /\ c.from.by = "none" => FromStage(input, c.from) = 0
  BY FillingFacts
<1>2. TypeOK
  BY DEF IInv
<1>3. Count \in Nat /\ n \in Nat /\ None = 0 /\ Len(order) \in Nat
  BY <1>2, Recipes DEF TypeOK
<1>4. Registered = Count /\ \A k \in 1..Count : order[k] = k
  <2>1. Registered = Count
    BY DEF Registered
  <2> QED BY <2>1 DEF StagesAreStates
<1>5. c.from.by = "index" => c.from.index + 1 \in 1..Count /\ Found(c.from) = c.from.index + 1
  <2> SUFFICES ASSUME c.from.by = "index" PROVE c.from.index + 1 \in 1..Count /\ Found(c.from) = c.from.index + 1
    OBVIOUS
  <2>1. c.from.index < Len(order)
    BY <1>1, <1>3
  <2>2. c.from.index + 1 \in 1..Count
    BY <1>1, <1>3, <2>1
  <2> QED BY <1>4, <2>2 DEF Found
<1>6. Found(c.from) = FromStage(input, c.from) /\ FromStage(input, c.from) \in 0..Count
  <2>1. CASE c.from.by = "index"
    BY <1>1, <1>3, <1>5, <2>1
  <2>2. CASE c.from.by = "name"
    BY <1>1, <2>2 DEF Found
  <2>3. CASE c.from.by = "none"
    BY <1>1, <1>3, <2>3 DEF Found
  <2> QED BY <1>1, <2>1, <2>2, <2>3
<1>7. NewFrom(c) <=> c.from.by = "name" /\ FromStage(input, c.from) = 0
  BY <1>3, <1>6 DEF NewFrom
<1>8. FromNew(c) <=> c.from.by = "name" /\ FromStage(input, c.from) = 0
  BY DEF FromNew, FromImage, FromContext
<1>9. FromContext(input, c) <=> NewFrom(c) /\ c.from.name = Context
  BY <1>7 DEF FromContext
<1>10. /\ FromId(c) = IF FromNew(c) THEN n + 1 ELSE FromStage(input, c.from)
       /\ ToolId(c) = IF FromNew(c) THEN n + 2 ELSE n + 1
  BY <1>6, <1>7, <1>8 DEF FromId, ToolId
<1>11. FromId(c) = None <=> c.from.by = "none"
  BY <1>1, <1>3, <1>7, <1>8, <1>10
<1>12. Unregistered(c) = Added(c)
  <2>1. FromImage(input, c) <=> NewFrom(c) /\ c.from.name # Context
    BY <1>7 DEF FromImage
  <2> QED BY <2>1 DEF Unregistered, Added
<1>13. /\ Len(Sources(c)) = (IF c.from.by = "none" THEN 0 ELSE 1) + (IF IsTool(c) THEN 1 ELSE 0)
       /\ c.from.by # "none" => Sources(c)[1] = FromId(c)
       /\ IsTool(c) => Sources(c)[Len(Sources(c))] = ToolId(c)
  <2>1. ToolId(c) # None
    BY <1>3, <1>10
  <2>2. One(FromId(c)) = IF c.from.by = "none" THEN <<>> ELSE <<FromId(c)>>
    BY <1>11 DEF One
  <2>3. One(IF IsTool(c) THEN ToolId(c) ELSE None) = IF IsTool(c) THEN <<ToolId(c)>> ELSE <<>>
    BY <2>1 DEF One
  <2>4. Sources(c) = (IF c.from.by = "none" THEN <<>> ELSE <<FromId(c)>>) \o (IF IsTool(c) THEN <<ToolId(c)>> ELSE <<>>)
    BY <2>2, <2>3 DEF Sources
  <2> HIDE DEF Sources
  <2>5. CASE c.from.by = "none" /\ IsTool(c)
    BY <2>4, <2>5
  <2>6. CASE c.from.by = "none" /\ ~IsTool(c)
    BY <2>4, <2>6
  <2>7. CASE c.from.by # "none" /\ IsTool(c)
    BY <2>4, <2>7
  <2>8. CASE c.from.by # "none" /\ ~IsTool(c)
    BY <2>4, <2>8
  <2> QED BY <2>5, <2>6, <2>7, <2>8
<1> QED BY <1>6, <1>7, <1>8, <1>9, <1>10, <1>11, <1>12, <1>13

\* What the fill loop does with a command: no base changes, for an image has
\* no base, and the states that it adds come behind the others.
LEMMA FillStep ==
    ASSUME IInv, IInv', StagesAreStates, ImagesAreStates, IsClear(input), FillCommand,
           NEW c, c = Filling, ~(c.from.by = "index" /\ c.from.index >= Len(order))
    PROVE  /\ UNCHANGED <<phase, input, target, byName, pos, fs, reach, job>>
           /\ n' \in Nat /\ n <= n' /\ FromId(c) <= n' /\ (IsTool(c) => ToolId(c) <= n')
           /\ implicit' = implicit \cup Added(c)
           /\ noinit' = IF FromContext(input, c) THEN noinit \cup {FromId(c)} ELSE noinit
           /\ srcs' = [srcs EXCEPT ![pos] = Append(@, Sources(c))]
           /\ \A d \in Id : base'[d] = base[d]
           /\ \A d \in Id : d <= n => stage'[d] = stage[d]
           /\ \A d \in Id : d > n => stage'[d].cmds = <<>>
           /\ FromImage(input, c) => stage'[FromId(c)].image = c.from.name
           /\ IsTool(c) => stage'[ToolId(c)].image = ToolImage(c)
           /\ Len(order') >= Len(order) /\ \A k \in 1..Len(order) : order'[k] = order[k]
           /\ \A k \in 1..Len(order') : k > Len(order) => order'[k] \in Added(c)
           /\ \A d \in Added(c) : \E k \in 1..Len(order') : order'[k] = d
<1> DEFINE f == FromId(c)
           t == ToolId(c)
           added == {d \in {f, t} : d \in Unregistered(c) \/ d \in implicit}
<1>1. TypeOK /\ TypeOK' /\ phase = "fill" /\ pos <= Count /\ cmd <= Len(stage[pos].cmds) /\ LoopsDone
  BY DEF IInv, FillCommand, Count
<1>2. /\ FromStage(input, c.from) \in 0..Count
      /\ NewFrom(c) <=> FromNew(c)
      /\ FromNew(c) <=> c.from.by = "name" /\ FromStage(input, c.from) = 0
      /\ FromContext(input, c) <=> NewFrom(c) /\ c.from.name = Context
      /\ f = IF FromNew(c) THEN n + 1 ELSE FromStage(input, c.from)
      /\ t = IF FromNew(c) THEN n + 2 ELSE n + 1
      /\ Unregistered(c) = Added(c)
  BY <1>1, FoundFacts
<1>3. /\ Count \in Nat /\ n \in Nat /\ n >= Count /\ MaxStates \in Nat /\ None = 0 /\ Id \subseteq Nat /\ None \notin Id
      /\ order \in Seq(Id) /\ Len(order) \in Nat /\ Registered = Count
  <2>1. order \in Seq(Id) /\ Len(order) \in Nat
    BY <1>1 DEF TypeOK
  <2>2. n >= Count /\ Registered = Count
    BY <1>1 DEF LoopsDone, Count, Registered
  <2> QED BY <1>1, <2>1, <2>2, Recipes
<1>4. UNCHANGED <<input, pos, fs, pathsOf, paths, ctxPaths, target, reach, job, fetched, copied>>
  BY DEF FillCommand
<1>5. /\ n' = n + (IF NewFrom(c) THEN 1 ELSE 0) + (IF IsTool(c) THEN 1 ELSE 0)
      /\ n' <= MaxStates
      /\ stage' = [d \in Id |-> Made(c, d)]
      /\ implicit' = implicit \cup Unregistered(c)
      /\ noinit' = noinit \cup (IF NewFrom(c) /\ c.from.name = Context THEN {f} ELSE {})
      /\ srcs' = [srcs EXCEPT ![pos] = Append(@, Sources(c))]
      /\ order' = order \o One(IF f \in added THEN f ELSE None) \o One(IF IsTool(c) THEN t ELSE None)
      /\ base' = [d \in Id |-> IF d \in added THEN byName[stage'[d].image] ELSE base[d]]
      /\ UNCHANGED <<phase, byName>>
  BY DEF FillCommand
<1> HIDE DEF f, t
<1>6. n' \in Nat /\ n <= n' /\ f <= n' /\ (IsTool(c) => t <= n') /\ f # t /\ t > n /\ t \in Nat /\ f \in Nat
      /\ (FromNew(c) => f \in Id /\ f > n) /\ (IsTool(c) => t \in Id) /\ (~FromNew(c) => f <= Count)
  BY <1>2, <1>3, <1>5 DEF Id
<1>7. Added(c) = {d \in {f, t} : (d = f /\ FromImage(input, c)) \/ (d = t /\ IsTool(c))}
      /\ (FromImage(input, c) => FromNew(c))
  BY DEF Added, f, t, FromNew
<1>8. \A d \in implicit : d > Count /\ d <= n
  BY DEF ImagesAreStates
<1>9. added = Added(c)
  <2>1. f \notin implicit /\ t \notin implicit
    BY <1>3, <1>6, <1>8
  <2> QED BY <1>2, <1>7, <2>1
<1>10. \A d \in Added(c) : d \in Id /\ d > n
  BY <1>6, <1>7
<1>11. f \in added <=> FromImage(input, c)
  BY <1>6, <1>7, <1>9
<1> HIDE DEF added
<1>12. noinit' = IF FromContext(input, c) THEN noinit \cup {f} ELSE noinit
  BY <1>2, <1>5
<1>13. /\ \A d \in Id : d <= n => stage'[d] = stage[d]
       /\ \A d \in Id : d > n => stage'[d].cmds = <<>>
       /\ FromImage(input, c) => stage'[f].image = c.from.name
       /\ IsTool(c) => stage'[t].image = ToolImage(c)
  <2>1. ASSUME NEW d \in Id, d <= n PROVE stage'[d] = stage[d]
    <3>1. d # t /\ (NewFrom(c) => d # f)
      BY <1>2, <1>3, <1>6, <2>1
    <3> QED BY <1>5, <3>1 DEF Made, f, t
  <2>2. ASSUME NEW d \in Id, d > n PROVE stage'[d].cmds = <<>>
    <3>1. stage[d].cmds = <<>>
      BY <1>3, <2>2 DEF ImagesAreStates
    <3> QED BY <1>5, <3>1 DEF Made
  <2>3. ASSUME FromImage(input, c) PROVE stage'[f].image = c.from.name
    <3>1. NewFrom(c) /\ c.from.name # Context /\ f \in Id
      BY <1>2, <1>6, <1>7, <2>3 DEF FromImage
    <3>2. stage'[f] = Made(c, f)
      BY <1>5, <3>1
    <3>3. Made(c, f) = [name |-> NoName, image |-> c.from.name, cmds |-> <<>>]
      BY <1>6, <3>1 DEF Made, f, t
    <3> QED BY <3>2, <3>3
  <2>4. ASSUME IsTool(c) PROVE stage'[t].image = ToolImage(c)
    <3>1. t \in Id /\ f # t
      BY <1>6, <2>4
    <3> QED BY <1>5, <2>4, <3>1 DEF Made, f, t
  <2> QED BY <2>1, <2>2, <2>3, <2>4
<1>14. \A d \in Id : base'[d] = base[d]
  <2> SUFFICES ASSUME NEW d \in Id, d \in Added(c) PROVE base'[d] = base[d]
    BY <1>5, <1>9
  <2>1. base[d] = None
    BY <1>3, <1>10 DEF ImagesAreStates
  <2>2. byName[stage'[d].image] = None
    <3>1. CASE d = f /\ FromImage(input, c)
      <4>1. c.from.by = "name" /\ FromStage(input, c.from) = 0
        BY <3>1 DEF FromImage
      <4>2. byName[c.from.name] = 0
        BY <1>1, <4>1, FillingFacts
      <4> QED BY <1>3, <1>13, <3>1, <4>2
    <3>2. CASE d = t /\ IsTool(c)
      <4>1. byName[ToolImage(c)] = None
        BY <1>1, <3>2, FillingFacts
      <4> QED BY <1>13, <3>2, <4>1
    <3> QED BY <1>7, <3>1, <3>2
  <2> QED BY <1>5, <1>9, <2>1, <2>2
<1>15. /\ Len(order') >= Len(order) /\ \A k \in 1..Len(order) : order'[k] = order[k]
       /\ \A k \in 1..Len(order') : k > Len(order) => order'[k] \in Added(c)
       /\ \A d \in Added(c) : \E k \in 1..Len(order') : order'[k] = d
  <2> DEFINE a == One(IF f \in added THEN f ELSE None)
             b == One(IF IsTool(c) THEN t ELSE None)
  <2>1. a = IF FromImage(input, c) THEN <<f>> ELSE <<>>
    <3>1. FromImage(input, c) => f # None
      BY <1>3, <1>6, <1>7
    <3> QED BY <1>11, <3>1 DEF One
  <2>2. b = IF IsTool(c) THEN <<t>> ELSE <<>>
    <3>1. t # None
      BY <1>3, <1>6
    <3> QED BY <3>1 DEF One
  <2>3. order' = (order \o a) \o b
    BY <1>5
  <2> HIDE DEF a, b
  <2>4. (FromImage(input, c) => f \in Id) /\ (IsTool(c) => t \in Id) /\ order \in Seq(Id)
    BY <1>3, <1>6, <1>7
  <2>5. CASE ~FromImage(input, c) /\ ~IsTool(c)
    <3>1. order' = order /\ Added(c) = {}
      <4>1. a = <<>> /\ b = <<>>
        BY <2>1, <2>2, <2>5
      <4> QED BY <1>7, <2>3, <2>4, <2>5, <4>1
    <3> QED BY <1>3, <3>1
  <2>6. CASE FromImage(input, c) /\ ~IsTool(c)
    <3>1. order' = Append(order, f) /\ Added(c) = {f}
      <4>1. a = <<f>> /\ b = <<>>
        BY <2>1, <2>2, <2>6
      <4> QED BY <1>7, <2>3, <2>4, <2>6, <4>1
    <3>2. Len(order') = Len(order) + 1 /\ order'[Len(order) + 1] = f /\ \A k \in 1..Len(order) : order'[k] = order[k]
      BY <2>4, <3>1
    <3> QED BY <1>3, <3>1, <3>2
  <2>7. CASE ~FromImage(input, c) /\ IsTool(c)
    <3>1. order' = Append(order, t) /\ Added(c) = {t}
      <4>1. a = <<>> /\ b = <<t>>
        BY <2>1, <2>2, <2>7
      <4> QED BY <1>7, <2>3, <2>4, <2>7, <4>1
    <3>2. Len(order') = Len(order) + 1 /\ order'[Len(order) + 1] = t /\ \A k \in 1..Len(order) : order'[k] = order[k]
      BY <2>4, <3>1
    <3> QED BY <1>3, <3>1, <3>2
  <2>8. CASE FromImage(input, c) /\ IsTool(c)
    <3>1. order' = Append(Append(order, f), t) /\ Added(c) = {f, t}
      <4>1. a = <<f>> /\ b = <<t>>
        BY <2>1, <2>2, <2>8
      <4>2. order \o a = Append(order, f) /\ Append(order, f) \in Seq(Id)
        BY <2>4, <2>8, <4>1
      <4>3. order' = Append(order, f) \o <<t>>
        BY <2>3, <4>1, <4>2
      <4>4. Append(order, f) \o <<t>> = Append(Append(order, f), t)
        BY <2>4, <2>8, <4>2
      <4>5. Added(c) = {f, t}
        BY <1>7, <2>8
      <4> QED BY <4>3, <4>4, <4>5
    <3>2. Len(order') = Len(order) + 2 /\ order'[Len(order) + 1] = f /\ order'[Len(order) + 2] = t
          /\ \A k \in 1..Len(order) : order'[k] = order[k]
      BY <2>4, <3>1
    <3> QED BY <1>3, <3>1, <3>2
  <2> QED BY <2>5, <2>6, <2>7, <2>8
<1> QED BY <1>2, <1>4, <1>5, <1>6, <1>12, <1>13, <1>14, <1>15 DEF f, t

LEMMA FillCommandVerdict ==
    ASSUME IInv, VerdictInv, ClearVerdict, FillCommand, IInv'
    PROVE  VerdictInv' /\ ClearVerdict'
<1>0. PICK c : c = Filling
  OBVIOUS
<1>1. phase = "fill" /\ pos <= Count /\ cmd <= Len(stage[pos].cmds) /\ input' = input
  BY DEF FillCommand, Count
<1> SUFFICES ASSUME IsClear(input)
             PROVE  (Underway' => (StagesAreStates /\ ImagesAreStates /\ SourcesAreThose /\ SettledStages /\ Jobs /\ CommandsAreSound)')
                    /\ VerdictIsRight'
  BY <1>1 DEF VerdictInv, ClearVerdict
<1>2. TypeOK /\ TypeOK' /\ LoopsDone
  BY DEF IInv
<1>3. StagesAreStates /\ ImagesAreStates /\ SourcesAreThose /\ SettledStages
  BY <1>1 DEF VerdictInv, Underway
<1>4. /\ pos \in 1..Count /\ cmd \in 1..Len(input.stages[pos].cmds)
      /\ c = input.stages[pos].cmds[cmd] /\ c \in Commands(input, pos) /\ c \in Command
      /\ c.from.by = "index" => FromStage(input, c.from) = c.from.index + 1 /\ c.from.index \in Nat
      /\ c.from.by \in {"name", "index", "none"}
      /\ FromImage(input, c) \/ IsTool(c) => AddsStates(input)
  BY <1>0, <1>1, <1>3, FillingFacts
<1>5. /\ input \in Input /\ Count \in Nat /\ Positions(input) = 1..Count /\ 1..Count \subseteq Id /\ None = 0
      /\ Id \subseteq Nat /\ n \in Nat /\ n >= Count /\ Registered = Count /\ Count <= Len(order) /\ Len(order) \in Nat
  <2>1. n >= Count /\ Registered = Count /\ Len(order) \in Nat
    BY <1>1, <1>2 DEF LoopsDone, Count, Registered, TypeOK
  <2> QED BY <1>2, <1>3, <2>1, Recipes DEF StagesAreStates
<1>6. CASE c.from.by = "index" /\ c.from.index >= Len(order)
  <2>1. phase' = "failed"
    BY <1>0, <1>6 DEF FillCommand, Fail
  <2>2. FromStage(input, c.from) \in FromStages(input, pos)
    <3>1. PICK x : x = c.from.index
      OBVIOUS
    <3>2. x \in Nat /\ FromStage(input, c.from) = x + 1
      BY <1>4, <1>6, <3>1
    <3>3. FromStage(input, c.from) # 0
      BY <3>2
    <3>4. c \in Commands(input, pos)
      BY <1>4
    <3> QED BY <3>3, <3>4, Zenon DEF FromStages
  <2>3. FromStage(input, c.from) \notin Positions(input)
    <3>1. PICK x : x = c.from.index
      OBVIOUS
    <3>2. x \in Nat /\ FromStage(input, c.from) = x + 1 /\ x >= Len(order)
      BY <1>4, <1>6, <3>1
    <3>3. \A L \in Nat : x >= L /\ Count <= L => x + 1 > Count /\ x + 1 \notin 1..Count
      BY <1>5, <3>2
    <3>4. FromStage(input, c.from) \notin 1..Count
      BY <1>5, <3>2, <3>3
    <3> QED BY <1>5, <3>4
  <2>4. ~Accepts(input)
    BY <1>4, <1>5, <2>2, <2>3 DEF Accepts
  <2> QED BY <1>1, <2>1, <2>4 DEF VerdictIsRight, Underway
<1>7. CASE ~(c.from.by = "index" /\ c.from.index >= Len(order))
  <2>0. PICK f, t, s : f = FromId(c) /\ t = ToolId(c) /\ s = Sources(c)
    OBVIOUS
  <2>1. /\ UNCHANGED <<phase, input, target, byName, pos, fs, reach, job>>
        /\ n' \in Nat /\ n <= n' /\ f <= n' /\ (IsTool(c) => t <= n')
        /\ implicit' = implicit \cup Added(c)
        /\ noinit' = IF FromContext(input, c) THEN noinit \cup {f} ELSE noinit
        /\ srcs' = [srcs EXCEPT ![pos] = Append(@, s)]
        /\ \A d \in Id : base'[d] = base[d]
        /\ \A d \in Id : d <= n => stage'[d] = stage[d]
        /\ \A d \in Id : d > n => stage'[d].cmds = <<>>
        /\ FromImage(input, c) => stage'[f].image = c.from.name
        /\ IsTool(c) => stage'[t].image = ToolImage(c)
        /\ Len(order') >= Len(order) /\ \A k \in 1..Len(order) : order'[k] = order[k]
        /\ \A k \in 1..Len(order') : k > Len(order) => order'[k] \in Added(c)
        /\ \A d \in Added(c) : \E k \in 1..Len(order') : order'[k] = d
    BY <1>0, <1>3, <1>7, <2>0, FillStep
  <2>2. /\ FromStage(input, c.from) \in 0..Count
        /\ FromNew(c) <=> c.from.by = "name" /\ FromStage(input, c.from) = 0
        /\ f = IF FromNew(c) THEN n + 1 ELSE FromStage(input, c.from)
        /\ t = IF FromNew(c) THEN n + 2 ELSE n + 1
        /\ f = None <=> c.from.by = "none"
        /\ Len(s) = (IF c.from.by = "none" THEN 0 ELSE 1) + (IF IsTool(c) THEN 1 ELSE 0)
        /\ c.from.by # "none" => s[1] = f
        /\ IsTool(c) => s[Len(s)] = t
    BY <1>0, <1>1, <1>3, <1>7, <2>0, FoundFacts
  <2>3. Added(c) = {d \in {f, t} : (d = f /\ FromImage(input, c)) \/ (d = t /\ IsTool(c))}
        /\ (FromImage(input, c) \/ FromContext(input, c) => FromNew(c)) /\ ~(FromImage(input, c) /\ FromContext(input, c))
    BY <2>0 DEF Added, FromNew, FromImage, FromContext
  <2>4. \A d \in Added(c) : d \in Nat /\ d > n /\ d > Count /\ d <= n'
    BY <1>5, <2>1, <2>2, <2>3
  <2>5. /\ Registered' = Count /\ Count' = Count /\ Underway'
        /\ \A k : IsReplaced(k)' <=> IsReplaced(k)
        /\ \A k : ~Entered(k) /\ ~Entered(k)'
    BY <1>1, <2>1 DEF Registered, Count, IsReplaced, Underway, Entered
  <2>6. /\ \A k \in 1..Count : k # pos => srcs'[k] = srcs[k]
        /\ \A d \in Id : d # pos => srcs'[d] = srcs[d]
        /\ Len(srcs[pos]) \in Nat /\ Len(srcs'[pos]) = Len(srcs[pos]) + 1 /\ Len(srcs[pos]) + 1 = cmd
        /\ \A i \in 1..Len(srcs[pos]) : srcs'[pos][i] = srcs[pos][i]
        /\ srcs'[pos][Len(srcs[pos]) + 1] = s
        /\ DOMAIN srcs'[pos] = 1..Len(srcs'[pos]) /\ DOMAIN srcs[pos] = 1..Len(srcs[pos])
    <3>1. pos \in Id /\ srcs \in [Id -> Seq(Seq(Id))] /\ srcs[pos] \in Seq(Seq(Id)) /\ pos \in Nat /\ cmd \in Nat
      BY <1>2, <1>4, <1>5 DEF TypeOK
    <3>2. Len(srcs[pos]) = cmd - 1
      BY <1>1, <1>2, <1>4, <3>1 DEF LoopsDone, Count
    <3> DEFINE S == Seq(Id) \cup {s}
               q == Append(srcs[pos], s)
    <3>3. srcs[pos] \in Seq(S) /\ s \in S
      BY <3>1
    <3> HIDE DEF S
    <3>4. q \in Seq(S) /\ Len(q) = Len(srcs[pos]) + 1 /\ (\A i \in 1..Len(srcs[pos]) : q[i] = srcs[pos][i]) /\ q[Len(srcs[pos]) + 1] = s
      BY <3>3, AppendProperties
    <3>5. srcs'[pos] = q /\ (\A d \in Id : d # pos => srcs'[d] = srcs[d])
      BY <2>1, <3>1
    <3>6. DOMAIN q = 1..Len(q) /\ DOMAIN srcs[pos] = 1..Len(srcs[pos]) /\ Len(srcs[pos]) \in Nat
      BY <3>1, <3>4
    <3> HIDE DEF q
    <3> QED BY <1>5, <3>1, <3>2, <3>4, <3>5, <3>6
  <2>7. /\ \A k \in 1..Count : Deps(k) \subseteq Deps(k)'
        /\ \A j \in DOMAIN s : s[j] \in Deps(pos)'
    <3>1. ASSUME NEW k \in 1..Count, NEW d \in Deps(k) PROVE d \in Deps(k)'
      <4>1. PICK i \in DOMAIN srcs[k] : \E j \in DOMAIN srcs[k][i] : d = srcs[k][i][j]
        BY <3>1 DEF Deps
      <4>2. i \in DOMAIN srcs'[k] /\ srcs'[k][i] = srcs[k][i]
        BY <2>6, <4>1
      <4> QED BY <4>1, <4>2 DEF Deps
    <3>2. ASSUME NEW j \in DOMAIN s PROVE s[j] \in Deps(pos)'
      <4>1. cmd \in DOMAIN srcs'[pos] /\ srcs'[pos][cmd] = s
        BY <2>6
      <4>2. UNCHANGED pos
        BY <2>1
      <4> QED BY <4>1, <4>2 DEF Deps
    <3> QED BY <3>1, <3>2
  <2>8. StagesAreStates'
    <3>1. \A x \in Name : byName'[x] = Last(input, x, Count + 1)
      BY <1>3, <1>5, <2>1 DEF StagesAreStates
    <3>2. \A k \in 1..Count : stage'[k] = input.stages[k] /\ order'[k] = k /\ base'[k] = BaseStage(input, k)
                              /\ (IsReplaced(k) => input.stages[k].name \notin input.broken)
      <4> SUFFICES ASSUME NEW k \in 1..Count
                   PROVE  stage'[k] = input.stages[k] /\ order'[k] = k /\ base'[k] = BaseStage(input, k)
                          /\ (IsReplaced(k) => input.stages[k].name \notin input.broken)
        OBVIOUS
      <4>1. k \in Id /\ k <= n /\ k \in 1..Len(order)
        BY <1>5
      <4> QED BY <1>3, <1>5, <2>1, <4>1 DEF StagesAreStates
    <3>3. \A k \in 1..Len(order') : k > Count => order'[k] \in implicit'
      <4> SUFFICES ASSUME NEW k \in 1..Len(order'), k > Count PROVE order'[k] \in implicit'
        OBVIOUS
      <4>1. CASE k <= Len(order)
        BY <1>3, <1>5, <2>1, <4>1 DEF StagesAreStates
      <4>2. CASE k > Len(order)
        BY <2>1, <4>2
      <4> QED BY <1>5, <4>1, <4>2
    <3>4. target \in 1..Count /\ target = IF input.target = NoName THEN Count ELSE Last(input, input.target, Count + 1)
      BY <1>1, <1>3 DEF StagesAreStates
    <3>5. Count <= Len(order') /\ Len(order') \in Nat /\ Count <= n' /\ phase' # "register"
      <4>1. Len(order') \in Nat
        BY <1>2 DEF TypeOK
      <4> QED BY <1>1, <1>5, <2>1, <4>1
    <3> QED BY <2>1, <2>5, <3>1, <3>2, <3>3, <3>4, <3>5 DEF StagesAreStates
  <2>9. ImagesAreStates'
    <3>1. ASSUME NEW d \in implicit'
          PROVE  d > Count /\ d <= n' /\ (\E k \in 1..Len(order') : order'[k] = d) /\ (\E k \in 1..Count : d \in Deps(k)')
      <4>1. CASE d \in implicit
        <5>1. d > Count /\ d <= n /\ (\E k \in 1..Len(order) : order[k] = d) /\ (\E k \in 1..Count : d \in Deps(k))
          BY <1>3, <4>1 DEF ImagesAreStates
        <5>2. d \in Nat
          BY <1>2, <1>5, <4>1 DEF TypeOK
        <5>3. Len(order') \in Nat
          BY <1>2 DEF TypeOK
        <5>4. \E k \in 1..Len(order') : order'[k] = d
          BY <1>5, <2>1, <5>1, <5>3
        <5> QED BY <1>5, <2>1, <2>7, <5>1, <5>2, <5>4
      <4>2. CASE d \in Added(c)
        <5>1. \E j \in DOMAIN s : s[j] = d
          <6>1. DOMAIN s = 1..Len(s)
            BY <2>0, <2>2 DEF Sources, One
          <6>2. CASE d = f /\ FromImage(input, c)
            <7>1. c.from.by # "none"
              BY <6>2 DEF FromImage
            <7> QED BY <2>2, <6>1, <6>2, <7>1
          <6>3. CASE d = t /\ IsTool(c)
            BY <2>2, <6>1, <6>3
          <6> QED BY <2>3, <4>2, <6>2, <6>3
        <5> QED BY <1>4, <2>1, <2>4, <2>7, <4>2, <5>1
      <4> QED BY <2>1, <4>1, <4>2
    <3>2. \A d \in Id : d > Count => base'[d] = None /\ stage'[d].cmds = <<>> /\ srcs'[d] = <<>>
      <4> SUFFICES ASSUME NEW d \in Id, d > Count PROVE base'[d] = None /\ stage'[d].cmds = <<>> /\ srcs'[d] = <<>>
        OBVIOUS
      <4>1. base[d] = None /\ stage[d].cmds = <<>> /\ srcs[d] = <<>>
        BY <1>3, <1>5 DEF ImagesAreStates
      <4>2. d # pos /\ d \in Nat
        <5>1. d \in Nat /\ pos <= Count /\ pos \in Nat
          BY <1>4, <1>5
        <5> QED BY <1>5, <5>1
      <4>3. base'[d] = base[d] /\ (d <= n => stage'[d] = stage[d]) /\ (d > n => stage'[d].cmds = <<>>)
        BY <2>1
      <4>4. srcs'[d] = srcs[d]
        BY <2>6, <4>2
      <4>5. d <= n \/ d > n
        BY <1>5, <4>2
      <4> QED BY <4>1, <4>3, <4>4, <4>5
    <3>3. ~AddsStates(input) => implicit' = {}
      BY <1>3, <1>4, <2>1, <2>3 DEF ImagesAreStates
    <3> QED BY <2>1, <2>5, <3>1, <3>2, <3>3 DEF ImagesAreStates
  <2>10. SourcesAreThose'
    <3>1. \A k : input'.stages[k] = input.stages[k]
      BY <2>1
    <3>2. \A d \in implicit : stage'[d] = stage[d]
      <4> SUFFICES ASSUME NEW d \in implicit PROVE stage'[d] = stage[d]
        OBVIOUS
      <4>1. d \in Id /\ d <= n
        BY <1>2, <1>3 DEF ImagesAreStates, TypeOK
      <4> QED BY <2>1, <4>1
    <3>3. ASSUME NEW b, NEW d, FromIs(b, d) PROVE FromIs(b, d)'
      <4>1. FromContext(input, b) => d > Count /\ d <= n' /\ d \in noinit' \ implicit'
        <5> SUFFICES ASSUME FromContext(input, b) PROVE d > Count /\ d <= n' /\ d \in noinit' \ implicit'
          OBVIOUS
        <5>1. d > Count /\ d <= n /\ d \in noinit /\ d \notin implicit
          BY <3>3 DEF FromIs
        <5>2. d \in Nat
          BY <1>2, <1>5, <5>1 DEF TypeOK
        <5>3. d \notin Added(c)
          BY <1>5, <2>4, <5>1, <5>2
        <5> QED BY <1>5, <2>1, <5>1, <5>2, <5>3
      <4>2. FromImage(input, b) => d \in implicit' /\ stage'[d].image = b.from.name
        BY <2>1, <3>2, <3>3 DEF FromIs
      <4>3. FromStage(input, b.from) # 0 => d = FromStage(input, b.from) /\ d <= Count
        BY <3>3 DEF FromIs
      <4> QED BY <2>1, <2>5, <4>1, <4>2, <4>3 DEF FromIs
    <3>4. ASSUME NEW b, NEW r, SourcesAre(b, r) PROVE SourcesAre(b, r)'
      BY <2>1, <3>2, <3>3, <3>4 DEF SourcesAre
    <3>5. SourcesAre(c, s)'
      <4>1. c.from.by # "none" => FromIs(c, f)'
        <5> SUFFICES ASSUME c.from.by # "none" PROVE FromIs(c, f)'
          OBVIOUS
        <5>1. FromStage(input, c.from) # 0 => f = FromStage(input, c.from) /\ f <= Count
          BY <1>5, <2>2
        <5>2. FromImage(input, c) => f \in implicit' /\ stage'[f].image = c.from.name
          BY <2>1, <2>3
        <5>3. FromContext(input, c) => f > Count /\ f <= n' /\ f \in noinit' \ implicit'
          <6> SUFFICES ASSUME FromContext(input, c) PROVE f > Count /\ f <= n' /\ f \in noinit' /\ f \notin implicit'
            OBVIOUS
          <6>1. f = n + 1 /\ FromNew(c) /\ t = n + 2 /\ ~FromImage(input, c)
            BY <2>2, <2>3
          <6>2. f \notin implicit
            BY <1>2, <1>3, <1>5, <6>1 DEF ImagesAreStates, TypeOK
          <6>3. f \notin Added(c)
            BY <1>5, <2>3, <6>1
          <6> QED BY <1>5, <2>1, <6>1, <6>2, <6>3
        <5> QED BY <2>1, <2>5, <5>1, <5>2, <5>3 DEF FromIs
      <4>2. IsTool(c) => t \in implicit' /\ stage'[t].image = ToolImage(c)
        BY <2>1, <2>3
      <4> QED BY <2>2, <4>1, <4>2 DEF SourcesAre
    <3>6. ASSUME NEW k \in 1..Count, NEW i \in 1..Len(srcs'[k]) PROVE SourcesAre(input.stages[k].cmds[i], srcs[k][i])'
      <4>1. CASE k = pos /\ i = cmd
        <5>1. input'.stages[k].cmds[i] = c /\ srcs'[k][i] = s
          BY <1>4, <2>1, <2>6, <4>1
        <5>2. PICK x, r : x = input'.stages[k].cmds[i] /\ r = srcs'[k][i]
          OBVIOUS
        <5>3. SourcesAre(x, r)'
          BY <3>5, <5>1, <5>2
        <5> QED BY <5>2, <5>3
      <4>2. CASE ~(k = pos /\ i = cmd)
        <5>1. i \in 1..Len(srcs[k]) /\ srcs'[k][i] = srcs[k][i]
          BY <1>4, <2>6, <4>2
        <5>2. SourcesAre(input.stages[k].cmds[i], srcs[k][i])
          BY <1>3, <5>1 DEF SourcesAreThose
        <5>3. PICK x, r : x = input.stages[k].cmds[i] /\ r = srcs[k][i]
          OBVIOUS
        <5>4. SourcesAre(x, r)'
          BY <3>4, <5>2, <5>3
        <5>5. x = input'.stages[k].cmds[i] /\ r = srcs'[k][i]
          BY <3>1, <5>1, <5>3
        <5> QED BY <5>4, <5>5
      <4> QED BY <4>1, <4>2
    <3> QED BY <2>1, <2>5, <3>6 DEF SourcesAreThose
  <2>11. SettledStages'
    <3>1. \A k \in 1..Count : k \in noinit' <=> k <= Count /\ IsReplaced(k)
      <4>1. \A k \in 1..Count : k \in noinit <=> k <= Count /\ IsReplaced(k)
        BY <1>3, <1>5, <2>5 DEF SettledStages
      <4>2. FromContext(input, c) => f \notin 1..Count
        BY <1>5, <2>2, <2>3
      <4> QED BY <2>1, <4>1, <4>2
    <3>2. noinit' \subseteq 1..n'
      <4>1. noinit \subseteq 1..n
        BY <1>3 DEF SettledStages
      <4>2. noinit \subseteq 1..n'
        BY <1>5, <2>1, <4>1
      <4>3. FromContext(input, c) => f \in 1..n'
        BY <1>5, <2>1, <2>2, <2>3
      <4> QED BY <2>1, <4>2, <4>3
    <3>3. noinit' \cap implicit' = {}
      <4>1. noinit \subseteq 1..n /\ noinit \cap implicit = {}
        BY <1>1, <1>3 DEF SettledStages
      <4>2. noinit \cap Added(c) = {}
        BY <1>5, <2>4, <4>1
      <4>3. FromContext(input, c) => f \notin implicit'
        <5> SUFFICES ASSUME FromContext(input, c) PROVE f \notin implicit'
          OBVIOUS
        <5>1. f = n + 1 /\ FromNew(c) /\ t = n + 2 /\ ~FromImage(input, c)
          BY <2>2, <2>3
        <5>2. f \notin implicit
          BY <1>2, <1>3, <1>5, <5>1 DEF ImagesAreStates, TypeOK
        <5>3. f \notin Added(c)
          BY <1>5, <2>3, <5>1
        <5> QED BY <2>1, <5>2, <5>3
      <4> QED BY <2>1, <4>1, <4>2, <4>3
    <3>4. phase' # "dispatch"
      BY <1>1, <2>1
    <3> QED BY <2>1, <2>5, <3>1, <3>2, <3>3, <3>4 DEF SettledStages
  <2>12. Jobs' /\ CommandsAreSound' /\ VerdictIsRight'
    BY <1>1, <2>1 DEF Jobs, CommandsAreSound, VerdictIsRight
  <2> QED BY <2>8, <2>9, <2>10, <2>11, <2>12
<1> QED BY <1>6, <1>7

-----------------------------------------------------------------------------
\* The graph of the states is that of the recipe.

Filled == \A k \in 1..Count : Len(srcs[k]) = Len(input.stages[k].cmds)
GraphInv == StagesAreStates /\ ImagesAreStates /\ SourcesAreThose /\ phase # "register" /\ Filled

LEMMA SourceFacts ==
    ASSUME IInv, GraphInv, NEW k \in 1..Count
    PROVE  /\ FromStages(input, k) \subseteq 1..Count
           /\ FromStages(input, k) \subseteq Deps(k)
           /\ Deps(k) \subseteq Id
           /\ \A d \in Deps(k) : d \in FromStages(input, k) \/ d > Count
           /\ \A d \in Deps(k) \cap implicit : stage[d].image \in Images(input, k)
           /\ \A i \in 1..Len(input.stages[k].cmds) : LET c == input.stages[k].cmds[i] IN
                /\ c \in Commands(input, k)
                /\ SourcesAre(c, srcs[k][i])
                /\ c.from.by # "none" => srcs[k][i][1] \in Deps(k)
                /\ c.from.by = "none" => FromStage(input, c.from) = 0
                /\ c.from.by = "none" \/ FromStage(input, c.from) # 0 \/ FromImage(input, c) \/ FromContext(input, c)
                /\ IsTool(c) => \E d \in Deps(k) \cap implicit : stage[d].image = ToolImage(c)
                /\ FromImage(input, c) => \E d \in Deps(k) \cap implicit : stage[d].image = c.from.name
<1>1. TypeOK
  BY DEF IInv
<1>2. /\ input \in Input /\ Count \in Nat /\ Positions(input) = 1..Count /\ 1..Count \subseteq Id /\ None = 0
      /\ input.stages[k].cmds \in Seq(Command) /\ Id \subseteq Nat
  BY <1>1, Recipes
<1>3. k \in Id /\ srcs[k] \in Seq(Seq(Id)) /\ Len(srcs[k]) = Len(input.stages[k].cmds)
      /\ DOMAIN srcs[k] = 1..Len(srcs[k])
  BY <1>1, <1>2 DEF TypeOK, GraphInv, Filled
<1>4. ASSUME NEW i \in 1..Len(srcs[k]) PROVE srcs[k][i] \in Seq(Id) /\ DOMAIN srcs[k][i] = 1..Len(srcs[k][i])
  BY <1>3
<1>5. ASSUME NEW i \in 1..Len(srcs[k]), NEW j \in 1..Len(srcs[k][i]) PROVE srcs[k][i][j] \in Deps(k)
  <2>1. i \in DOMAIN srcs[k] /\ j \in DOMAIN srcs[k][i]
    BY <1>3, <1>4
  <2>2. srcs[k][i][j] \in {srcs[k][i][x] : x \in DOMAIN srcs[k][i]}
    BY <2>1
  <2> QED BY <2>1, <2>2 DEF Deps
<1>6. ASSUME NEW d \in Deps(k) PROVE \E i \in 1..Len(srcs[k]) : \E j \in 1..Len(srcs[k][i]) : d = srcs[k][i][j]
  <2>1. PICK i \in DOMAIN srcs[k] : \E j \in DOMAIN srcs[k][i] : d = srcs[k][i][j]
    BY DEF Deps
  <2> QED BY <1>3, <1>4, <2>1
<1>7. Deps(k) \subseteq Id
  <2> SUFFICES ASSUME NEW d \in Deps(k) PROVE d \in Id
    OBVIOUS
  <2>1. PICK i \in 1..Len(srcs[k]) : \E j \in 1..Len(srcs[k][i]) : d = srcs[k][i][j]
    BY <1>6
  <2> QED BY <1>4, <2>1
<1>8. ASSUME NEW i \in 1..Len(srcs[k]), NEW c, c = input.stages[k].cmds[i]
      PROVE  /\ c \in Commands(input, k) /\ c \in Command
             /\ SourcesAre(c, srcs[k][i])
             /\ c.from.by \in {"name", "index", "none"}
             /\ c.from.by = "none" => FromStage(input, c.from) = 0
             /\ c.from.by = "name" => FromStage(input, c.from) # 0 \/ FromImage(input, c) \/ FromContext(input, c)
             /\ c.from.by = "index" => FromStage(input, c.from) # 0
             /\ FromStage(input, c.from) \in Nat
  <2>1. c \in Commands(input, k) /\ c \in Command
    BY <1>2, <1>3, <1>8 DEF Commands
  <2>2. SourcesAre(c, srcs[k][i])
    BY <1>8 DEF GraphInv, SourcesAreThose
  <2>3. c.from \in From
    BY <2>1 DEF Command
  <2>4. c.from.by \in {"name", "index", "none"} /\ (c.from.by = "index" => c.from.index \in Nat)
    BY <2>3 DEF From, FromNothing
  <2>5. c.from.by = "none" => FromStage(input, c.from) = 0
    BY DEF FromStage
  <2>6. c.from.by = "index" => FromStage(input, c.from) = c.from.index + 1
    BY DEF FromStage
  <2>7. c.from.by = "name" => FromStage(input, c.from) # 0 \/ FromImage(input, c) \/ FromContext(input, c)
    BY DEF FromImage, FromContext
  <2>8. c.from.by = "name" => FromStage(input, c.from) \in Nat
    <3>1. Count + 1 \in 1..(Len(input.stages) + 1) /\ (Count + 1) - 1 = Count
      BY <1>2 DEF Count
    <3>2. \A x : Last(input, x, Count + 1) \in 0..Count
      BY <1>2, <3>1, LastFacts
    <3> QED BY <1>2, <3>2 DEF FromStage, Count
  <2>9. c.from.by = "index" => FromStage(input, c.from) # 0 /\ FromStage(input, c.from) \in Nat
    BY <2>4, <2>6
  <2> QED BY <2>1, <2>2, <2>4, <2>5, <2>7, <2>8, <2>9
<1>9. ASSUME NEW i \in 1..Len(srcs[k]), NEW c, c = input.stages[k].cmds[i]
      PROVE  /\ c.from.by # "none" => 1 \in 1..Len(srcs[k][i]) /\ srcs[k][i][1] \in Deps(k) /\ FromIs(c, srcs[k][i][1])
             /\ IsTool(c) => LET l == srcs[k][i][Len(srcs[k][i])] IN l \in Deps(k) /\ l \in implicit /\ stage[l].image = ToolImage(c)
             /\ \A j \in 1..Len(srcs[k][i]) : (c.from.by # "none" /\ j = 1) \/ (IsTool(c) /\ j = Len(srcs[k][i]))
  <2>1. SourcesAre(c, srcs[k][i])
    BY <1>8, <1>9
  <2>2. Len(srcs[k][i]) = (IF c.from.by = "none" THEN 0 ELSE 1) + (IF IsTool(c) THEN 1 ELSE 0)
    BY <2>1 DEF SourcesAre
  <2>3. c.from.by # "none" => 1 \in 1..Len(srcs[k][i])
    BY <2>2
  <2>4. IsTool(c) => Len(srcs[k][i]) \in 1..Len(srcs[k][i])
    BY <2>2
  <2>5. \A j \in 1..Len(srcs[k][i]) : (c.from.by # "none" /\ j = 1) \/ (IsTool(c) /\ j = Len(srcs[k][i]))
    BY <2>2
  <2> QED BY <1>5, <2>1, <2>3, <2>4, <2>5 DEF SourcesAre
<1>10. ASSUME NEW x \in FromStages(input, k) PROVE x \in 1..Count /\ x \in Deps(k)
  <2>1. PICK c \in Commands(input, k) : x = FromStage(input, c.from) /\ x # 0
    BY DEF FromStages
  <2>2. PICK i \in DOMAIN input.stages[k].cmds : c = input.stages[k].cmds[i]
    BY DEF Commands
  <2>3. i \in 1..Len(srcs[k])
    BY <1>2, <1>3
  <2>4. c.from.by # "none" /\ x \in Nat
    BY <1>8, <2>1, <2>2, <2>3
  <2>5. srcs[k][i][1] \in Deps(k) /\ FromIs(c, srcs[k][i][1])
    BY <1>9, <2>2, <2>3, <2>4
  <2> QED BY <1>2, <2>1, <2>4, <2>5 DEF FromIs
<1>11. ASSUME NEW d \in Deps(k)
       PROVE  /\ d \in FromStages(input, k) \/ d > Count
              /\ d \in implicit => stage[d].image \in Images(input, k)
  <2>1. PICK i \in 1..Len(srcs[k]) : \E j \in 1..Len(srcs[k][i]) : d = srcs[k][i][j]
    BY <1>6
  <2>2. PICK j \in 1..Len(srcs[k][i]) : d = srcs[k][i][j]
    BY <2>1
  <2>3. PICK c : c = input.stages[k].cmds[i]
    OBVIOUS
  <2>4. c \in Commands(input, k) /\ (c.from.by = "name" => FromStage(input, c.from) # 0 \/ FromImage(input, c) \/ FromContext(input, c))
        /\ (c.from.by = "index" => FromStage(input, c.from) # 0) /\ c.from.by \in {"name", "index", "none"}
    BY <1>8, <2>3
  <2>5. CASE c.from.by # "none" /\ j = 1
    <3>1. FromIs(c, d)
      BY <1>9, <2>2, <2>3, <2>5
    <3>2. CASE FromStage(input, c.from) # 0
      <4>1. d \in FromStages(input, k) /\ d <= Count
        BY <2>4, <3>1, <3>2 DEF FromIs, FromStages
      <4>2. d \in implicit => d > Count
        BY DEF GraphInv, ImagesAreStates
      <4>3. d \in Nat
        BY <1>2, <1>7
      <4> QED BY <1>2, <4>1, <4>2, <4>3
    <3>3. CASE FromImage(input, c)
      <4>1. d \in implicit /\ stage[d].image = c.from.name
        BY <3>1, <3>3 DEF FromIs
      <4>2. c.from.name \in Images(input, k)
        BY <2>4, <3>3 DEF Images
      <4> QED BY <4>1, <4>2 DEF GraphInv, ImagesAreStates
    <3>4. CASE FromContext(input, c)
      BY <3>1, <3>4 DEF FromIs
    <3> QED BY <2>4, <2>5, <3>2, <3>3, <3>4
  <2>6. CASE IsTool(c) /\ j = Len(srcs[k][i])
    <3>1. d \in implicit /\ stage[d].image = ToolImage(c)
      BY <1>9, <2>2, <2>3, <2>6
    <3>2. ToolImage(c) \in Images(input, k)
      BY <2>4, <2>6 DEF Images
    <3> QED BY <3>1, <3>2 DEF GraphInv, ImagesAreStates
  <2> QED BY <1>9, <2>3, <2>5, <2>6
<1>12. ASSUME NEW i \in 1..Len(input.stages[k].cmds), NEW c, c = input.stages[k].cmds[i]
       PROVE  /\ c \in Commands(input, k)
              /\ SourcesAre(c, srcs[k][i])
              /\ c.from.by # "none" => srcs[k][i][1] \in Deps(k)
              /\ c.from.by = "none" => FromStage(input, c.from) = 0
              /\ c.from.by = "none" \/ FromStage(input, c.from) # 0 \/ FromImage(input, c) \/ FromContext(input, c)
              /\ IsTool(c) => \E d \in Deps(k) \cap implicit : stage[d].image = ToolImage(c)
              /\ FromImage(input, c) => \E d \in Deps(k) \cap implicit : stage[d].image = c.from.name
  <2>1. i \in 1..Len(srcs[k])
    BY <1>3
  <2>2. FromImage(input, c) => c.from.by # "none"
    BY DEF FromImage
  <2> QED BY <1>8, <1>9, <1>12, <2>1, <2>2 DEF FromIs
<1> QED BY <1>7, <1>10, <1>11, <1>12

\* What the target needs is what it reaches.
LEMMA ReachFacts ==
    ASSUME IInv, GraphInv
    PROVE  /\ target \in Reachable(target) /\ Reachable(target) \subseteq Id
           /\ \A d \in Reachable(target) : Parents(d) \subseteq Reachable(target)
           /\ Needed(input) \subseteq 1..Count
           /\ input.allStages => Needed(input) = 1..Count
           /\ ~input.allStages => Needed(input) \subseteq Reachable(target)
           /\ ~input.allStages => \A d \in Reachable(target) :
                d \in Needed(input) \/ (d > Count /\ \E k \in Needed(input) : d \in Deps(k))
<1>1. TypeOK
  BY DEF IInv
<1>2. /\ input \in Input /\ Count \in Nat /\ Positions(input) = 1..Count /\ 1..Count \subseteq Id /\ None = 0
      /\ Id \subseteq Nat /\ None \notin Id
  BY <1>1, Recipes
<1>3. Registered = Count
  BY DEF GraphInv, Registered
<1>4. target \in 1..Count /\ target = IF input.target = NoName THEN Count ELSE Last(input, input.target, Count + 1)
  BY DEF GraphInv, StagesAreStates
<1> DEFINE t == IF input.target = NoName THEN Len(input.stages) ELSE Last(input, input.target, Len(input.stages) + 1)
           Next1(k) == ({BaseStage(input, k)} \ {0}) \cup FromStages(input, k)
<1>5. t = target
  BY <1>4 DEF Count
<1>6. ASSUME NEW k \in 1..Count PROVE Next1(k) = Parents(k) \cap (1..Count) /\ \A d \in Parents(k) : d > Count => d \in Deps(k)
  <2>1. base[k] = BaseStage(input, k) /\ BaseStage(input, k) \in 0..Count
    <3>1. base[k] = BaseStage(input, k)
      BY <1>3 DEF GraphInv, StagesAreStates
    <3>2. k \in 1..(Len(input.stages) + 1)
      BY <1>2 DEF Count
    <3>3. BaseStage(input, k) \in 0..(k - 1)
      BY <1>2, <3>2, LastFacts DEF BaseStage
    <3> QED BY <1>2, <3>1, <3>3
  <2>2. FromStages(input, k) \subseteq 1..Count /\ FromStages(input, k) \subseteq Deps(k) /\ Deps(k) \subseteq Id
        /\ \A d \in Deps(k) : d \in FromStages(input, k) \/ d > Count
    BY SourceFacts
  <2>3. Parents(k) = (Deps(k) \cup {BaseStage(input, k)}) \ {0}
    BY <1>2, <2>1 DEF Parents
  <2>4. Next1(k) = ({BaseStage(input, k)} \ {0}) \cup FromStages(input, k)
    OBVIOUS
  <2> HIDE DEF Next1
  <2>5. \A d \in Deps(k) : d \in 1..Count <=> d \in FromStages(input, k)
    <3> SUFFICES ASSUME NEW d \in Deps(k), d \in 1..Count PROVE d \in FromStages(input, k)
      BY <2>2
    <3> QED BY <1>2, <2>2
  <2>6. \A d \in Parents(k) : d > Count => d \in Deps(k)
    <3> SUFFICES ASSUME NEW d \in Parents(k), d > Count PROVE d \in Deps(k)
      OBVIOUS
    <3>1. d # BaseStage(input, k)
      BY <1>2, <2>1
    <3> QED BY <2>3, <3>1
  <2>7. Next1(k) = Parents(k) \cap (1..Count)
    <3>1. \A d \in 0..Count : d # 0 <=> d \in 1..Count
      BY <1>2
    <3>2. 0 \notin Deps(k) /\ 0 \notin 1..Count
      BY <1>2, <2>2
    <3> QED BY <2>1, <2>2, <2>3, <2>4, <2>5, <3>1, <3>2
  <2> QED BY <2>6, <2>7
<1>7. \A d \in Id : d > Count => Parents(d) = {}
  <2> SUFFICES ASSUME NEW d \in Id, d > Count PROVE Parents(d) = {}
    OBVIOUS
  <2>1. base[d] = None /\ srcs[d] = <<>>
    BY <1>3 DEF GraphInv, ImagesAreStates
  <2>2. Deps(d) = {}
    BY <2>1 DEF Deps
  <2> QED BY <2>1, <2>2 DEF Parents
<1>8. \A d \in Id : Parents(d) \subseteq Id
  BY <1>1, <1>2 DEF Parents, TypeOK, Deps
<1> DEFINE R == Reachable(target)
           ClosedSet(S) == target \in S /\ \A d \in S : Parents(d) \subseteq S
<1>9. R = {i \in Id : \A S \in SUBSET Id : ClosedSet(S) => i \in S}
  BY DEF Reachable
<1> HIDE DEF R
<1>10. target \in R /\ R \subseteq Id
  BY <1>2, <1>4, <1>9
<1>11. \A d \in R : Parents(d) \subseteq R
  <2> SUFFICES ASSUME NEW d \in R, NEW e \in Parents(d) PROVE e \in R
    OBVIOUS
  <2>1. e \in Id
    BY <1>8, <1>9
  <2>2. ASSUME NEW S \in SUBSET Id, ClosedSet(S) PROVE e \in S
    <3>1. d \in S
      BY <1>9, <2>2
    <3> QED BY <2>2, <3>1
  <2> QED BY <1>9, <2>1, <2>2
<1> DEFINE N == Needed(input)
           ClosedStages(S) == \A k \in S : Next1(k) \subseteq S
<1>12. N = {k \in 1..Count : \A S \in SUBSET (1..Count) :
                 (input.allStages \/ target \in S) /\ ClosedStages(S) => input.allStages \/ k \in S}
  BY <1>2, <1>5 DEF Needed
<1> HIDE DEF N, Next1
<1>13. N \subseteq 1..Count /\ (input.allStages => N = 1..Count)
  BY <1>12
<1>14. ASSUME ~input.allStages PROVE N \subseteq R
  <2> DEFINE S == R \cap (1..Count)
  <2>1. target \in S
    BY <1>4, <1>10
  <2>2. ClosedStages(S)
    BY <1>6, <1>11
  <2>3. S \in SUBSET (1..Count)
    OBVIOUS
  <2> HIDE DEF S, ClosedStages
  <2>4. \A k \in N : k \in S
    BY <1>12, <1>14, <2>1, <2>2, <2>3
  <2> QED BY <2>4 DEF S
<1>15. ASSUME ~input.allStages PROVE \A d \in R : d \in N \/ (d > Count /\ \E k \in N : d \in Deps(k))
  <2> DEFINE T == N \cup {d \in Id : d > Count /\ \E k \in N : d \in Deps(k)}
  <2>1. target \in N
    BY <1>4, <1>12, <1>15
  <2>2. \A k \in N : Next1(k) \subseteq N
    <3> SUFFICES ASSUME NEW k \in N, NEW j \in Next1(k) PROVE j \in N
      OBVIOUS
    <3>1. k \in 1..Count /\ j \in 1..Count
      BY <1>6, <1>13
    <3>2. ASSUME NEW S \in SUBSET (1..Count), target \in S, ClosedStages(S) PROVE j \in S
      <4>1. k \in S
        BY <1>12, <1>15, <3>2
      <4> QED BY <3>2, <4>1
    <3> HIDE DEF ClosedStages
    <3> QED BY <1>12, <1>15, <3>1, <3>2
  <2>3. \A d \in T : Parents(d) \subseteq T
    <3> SUFFICES ASSUME NEW d \in T, NEW e \in Parents(d) PROVE e \in T
      OBVIOUS
    <3>1. CASE d \in N
      <4>1. d \in 1..Count /\ d \in Id
        BY <1>2, <1>13, <3>1
      <4>2. e \in Id /\ e \in Nat
        BY <1>2, <1>8, <4>1
      <4>3. CASE e > Count
        BY <1>6, <3>1, <4>1, <4>2, <4>3
      <4>4. CASE ~(e > Count)
        <5>1. e # 0
          BY <1>2 DEF Parents
        <5>2. e \in 1..Count
          BY <1>2, <4>2, <4>4, <5>1
        <5> QED BY <1>6, <2>2, <3>1, <4>1, <5>2
      <4> QED BY <4>3, <4>4
    <3>2. CASE d \notin N
      BY <1>7, <3>2
    <3> QED BY <3>1, <3>2
  <2>4. T \in SUBSET Id /\ target \in T
    BY <1>2, <1>13, <2>1
  <2> HIDE DEF T
  <2>5. \A d \in R : d \in T
    BY <1>9, <2>3, <2>4
  <2> QED BY <2>5 DEF T
<1> QED BY <1>10, <1>11, <1>13, <1>14, <1>15 DEF R, N

-----------------------------------------------------------------------------
\* The circles are refused, and the images resolved.

LEMMA GraphStands ==
    ASSUME IInv, VerdictInv, IsClear(input), phase \in {"resolve", "dispatch"}
    PROVE  GraphInv /\ SettledStages /\ Jobs /\ CommandsAreSound /\ Registered = Count
<1>1. StagesAreStates /\ ImagesAreStates /\ SourcesAreThose /\ SettledStages /\ Jobs /\ CommandsAreSound
  BY DEF VerdictInv, Underway
<1>2. Registered = Count
  BY DEF Registered
<1>3. Filled
  <2> SUFFICES ASSUME NEW k \in 1..Count PROVE Len(srcs[k]) = Len(input.stages[k].cmds)
    BY DEF Filled
  <2>1. k \in Id /\ stage[k] = input.stages[k]
    BY <1>1, <1>2, Recipes DEF StagesAreStates, IInv
  <2>2. Len(srcs[k]) = Len(stage[k].cmds)
    BY <2>1 DEF IInv, LoopsDone
  <2> QED BY <2>1, <2>2
<1> QED BY <1>1, <1>2, <1>3 DEF GraphInv

LEMMA CircleIsRefused ==
    ASSUME IInv, GraphInv
    PROVE  Circular <=> \E S \in SUBSET Positions(input) : S # {} /\ \A k \in S : FromStages(input, k) \cap S # {}
<1>1. /\ Positions(input) = 1..Count /\ 1..Count \subseteq Id /\ Count \in Nat /\ Id \subseteq Nat
      /\ \A d \in Id : d \in 1..MaxStates
  BY Recipes DEF IInv
<1>2. ASSUME NEW S \in SUBSET Id, S # {}, \A d \in S : Deps(d) \cap S # {}
      PROVE  S \in SUBSET (1..Count) /\ \A k \in S : FromStages(input, k) \cap S # {}
  <2>1. S \subseteq 1..Count
    <3> SUFFICES ASSUME NEW d \in S PROVE d \in 1..Count
      OBVIOUS
    <3>1. Deps(d) # {}
      BY <1>2
    <3>2. srcs[d] # <<>>
      BY <3>1 DEF Deps
    <3>3. Registered = Count
      BY DEF GraphInv, Registered
    <3>4. ~(d > Count)
      BY <3>2, <3>3 DEF GraphInv, ImagesAreStates
    <3> QED BY <1>1, <3>4
  <2>2. ASSUME NEW k \in S PROVE FromStages(input, k) \cap S # {}
    <3>1. k \in 1..Count
      BY <2>1
    <3>2. PICK d \in Deps(k) : d \in S
      BY <1>2
    <3>3. d \in FromStages(input, k) \/ d > Count
      BY <3>1, <3>2, SourceFacts
    <3>4. d \in 1..Count
      BY <2>1, <3>2
    <3> QED BY <1>1, <3>2, <3>3, <3>4
  <2> QED BY <2>1, <2>2
<1>3. ASSUME NEW S \in SUBSET (1..Count), S # {}, \A k \in S : FromStages(input, k) \cap S # {}
      PROVE  S \in SUBSET Id /\ \A d \in S : Deps(d) \cap S # {}
  <2>1. \A k \in S : FromStages(input, k) \subseteq Deps(k)
    BY SourceFacts
  <2> QED BY <1>1, <1>3, <2>1
<1> QED BY <1>1, <1>2, <1>3 DEF Circular

LEMMA ValidateVerdict ==
    ASSUME IInv, VerdictInv, ClearVerdict, Validate, IInv'
    PROVE  VerdictInv' /\ ClearVerdict'
<1>1. /\ phase = "fill" /\ pos > Count /\ UNCHANGED <<input, graph, result, target, job>>
      /\ IF Circular THEN phase' = "failed" ELSE phase' = "resolve" /\ reach' = Reachable(target)
  BY DEF Validate, Fail, Count
<1> SUFFICES ASSUME IsClear(input)
             PROVE  (Underway' => (StagesAreStates /\ ImagesAreStates /\ SourcesAreThose /\ SettledStages /\ Jobs /\ CommandsAreSound)')
                    /\ VerdictIsRight'
  BY <1>1 DEF VerdictInv, ClearVerdict
<1>2. StagesAreStates /\ ImagesAreStates /\ SourcesAreThose /\ SettledStages
  BY <1>1 DEF VerdictInv, Underway
<1>3. Registered = Count /\ Count \in Nat /\ 1..Count \subseteq Id /\ Id \subseteq Nat /\ pos \in Nat
  BY <1>1, Recipes DEF IInv, TypeOK, Registered
<1>4. GraphInv
  <2>1. ASSUME NEW k \in 1..Count PROVE Len(srcs[k]) = Len(input.stages[k].cmds)
    <3>1. k \in Id /\ stage[k] = input.stages[k] /\ k < pos
      BY <1>1, <1>2, <1>3 DEF StagesAreStates
    <3>2. Len(srcs[k]) = Len(stage[k].cmds)
      BY <1>1, <3>1 DEF IInv, LoopsDone
    <3> QED BY <3>1, <3>2
  <2> QED BY <1>1, <1>2, <2>1 DEF GraphInv, Filled
<1>5. CASE Circular
  <2>1. phase' = "failed"
    BY <1>1, <1>5
  <2>2. ~Accepts(input)
    BY <1>4, <1>5, CircleIsRefused DEF Accepts
  <2> QED BY <1>1, <2>1, <2>2 DEF VerdictIsRight, Underway
<1>6. CASE ~Circular
  <2>1. phase' = "resolve" /\ reach' = Reachable(target)
    BY <1>1, <1>6
  <2>2. SameStates /\ UNCHANGED noinit
    BY <1>1, <1>3, <2>1 DEF SameStates, graph, result, Registered, Count
  <2>3. StagesAreStates' /\ ImagesAreStates' /\ SourcesAreThose' /\ Count' = Count /\ \A k : IsReplaced(k)' <=> IsReplaced(k)
    BY <1>1, <1>2, <2>1, <2>2, SameStatesStay
  <2>4. SettledStages'
    <3>1. \A k : ~Entered(k) /\ ~Entered(k)'
      BY <1>1, <2>1 DEF Entered
    <3> QED BY <1>1, <1>2, <2>1, <2>2, <2>3, <3>1 DEF SettledStages, SameStates
  <2>5. Jobs'
    <3>1. Reachable(target)' = Reachable(target)
      BY <2>2 DEF SameStates, Reachable, Parents, Deps
    <3>2. job' = <<>>
      BY <1>1 DEF IInv, LoopsDone
    <3>3. \A d \in noinit : ~Resolvable(d)'
      <4> SUFFICES ASSUME NEW d \in noinit, Resolvable(d)' PROVE FALSE
        OBVIOUS
      <4>1. d \in implicit \/ (d \in 1..Count /\ ~IsReplaced(d))
        BY <2>2, <2>3 DEF Resolvable, SameStates
      <4>2. d \notin implicit
        BY <1>1, <1>2 DEF SettledStages
      <4> QED BY <1>1, <1>2, <4>1, <4>2 DEF SettledStages, Entered
    <3> QED BY <2>1, <2>2, <3>1, <3>2, <3>3 DEF Jobs
  <2>6. CommandsAreSound' /\ VerdictIsRight'
    BY <2>1 DEF CommandsAreSound, VerdictIsRight
  <2> QED BY <2>3, <2>4, <2>5, <2>6
<1> QED BY <1>5, <1>6

\* The resolve loop and its goroutines change the jobs alone, and settle images.
ResolveStep ==
    /\ phase = "resolve" /\ phase' = "resolve"
    /\ UNCHANGED <<input, graph, reach, target>>

LEMMA ResolveStays ==
    ASSUME IInv, VerdictInv, IsClear(input), ResolveStep,
           NEW d \in Id, noinit' = noinit \/ noinit' = noinit \cup Settled(d)
    PROVE  /\ StagesAreStates' /\ ImagesAreStates' /\ SourcesAreThose' /\ SettledStages' /\ CommandsAreSound' /\ VerdictIsRight'
           /\ \A e : /\ Resolvable(e)' <=> Resolvable(e)
                     /\ IsHad(e)' <=> IsHad(e)
                     /\ Fetched(e)' <=> Fetched(e)
           /\ Missing' <=> Missing
           /\ (reach = Reachable(target))' <=> (reach = Reachable(target))
           /\ noinit \subseteq noinit' /\ noinit' \subseteq noinit \cup ({d} \cap implicit)
<1>1. SameStates
  BY DEF ResolveStep, SameStates, Registered, Count, graph
<1>2. noinit \subseteq noinit' /\ noinit' \subseteq noinit \cup ({d} \cap implicit)
  BY DEF Settled
<1>3. GraphInv /\ SettledStages /\ CommandsAreSound /\ Registered = Count
  BY GraphStands DEF ResolveStep
<1>4. /\ StagesAreStates' /\ ImagesAreStates' /\ SourcesAreThose' /\ Count' = Count
      /\ \A k : IsReplaced(k)' <=> IsReplaced(k)
  BY <1>1, <1>2, <1>3, SameStatesStay DEF GraphInv, ResolveStep
<1>5. SettledStages'
  <2>1. \A k : ~Entered(k) /\ ~Entered(k)'
    BY DEF Entered, ResolveStep
  <2>2. \A e \in implicit : e > Count /\ e <= n /\ e \in Nat /\ e >= 1
    BY <1>3, Recipes DEF GraphInv, ImagesAreStates, IInv, TypeOK
  <2>3. Count \in Nat /\ n \in Nat
    BY Recipes DEF IInv
  <2>4. \A k \in 1..Count : k \in noinit' <=> k \in noinit
    BY <1>2, <2>2, <2>3
  <2>5. noinit' \subseteq 1..n
    <3>1. noinit \subseteq 1..n
      BY <1>3 DEF SettledStages
    <3>2. implicit \subseteq 1..n
      BY <2>2, <2>3
    <3> QED BY <1>2, <3>1, <3>2
  <2> QED BY <1>1, <1>3, <1>4, <2>1, <2>4, <2>5 DEF SettledStages, SameStates, ResolveStep
<1>6. CommandsAreSound' /\ VerdictIsRight'
  BY DEF ResolveStep, CommandsAreSound, VerdictIsRight
<1>7. \A e : /\ Resolvable(e)' <=> Resolvable(e)
             /\ IsHad(e)' <=> IsHad(e)
             /\ Fetched(e)' <=> Fetched(e)
  BY <1>1, <1>4 DEF SameStates, ResolveStep, Resolvable, IsHad, Fetched
<1>8. Missing' <=> Missing
  BY <1>1, <1>7 DEF ResolveStep, graph, Missing
<1>9. (reach = Reachable(target))' <=> (reach = Reachable(target))
  BY <1>1 DEF ResolveStep, SameStates, Reachable, Parents, Deps
<1> QED BY <1>2, <1>4, <1>5, <1>6, <1>7, <1>8, <1>9

LEMMA StartResolveVerdict ==
    ASSUME IInv, VerdictInv, ClearVerdict, StartResolve, IInv'
    PROVE  VerdictInv' /\ ClearVerdict'
<1> DEFINE d == order[pos]
<1>1. /\ ResolveStep /\ pos <= Len(order)
      /\ LET resolves == base[d] = None /\ d \notin noinit
             scratch == stage[d].image = Scratch
         IN /\ job' = Append(job, IF resolves /\ ~scratch THEN "named" ELSE "ok")
            /\ noinit' = noinit \cup (IF resolves /\ scratch THEN Settled(d) ELSE {})
  BY DEF StartResolve, ResolveStep
<1> SUFFICES ASSUME IsClear(input)
             PROVE  (StagesAreStates /\ ImagesAreStates /\ SourcesAreThose /\ SettledStages /\ Jobs /\ CommandsAreSound)'
                    /\ VerdictIsRight'
  BY <1>1 DEF VerdictInv, ClearVerdict, ResolveStep
<1>2. GraphInv /\ SettledStages /\ Jobs /\ Registered = Count
  BY <1>1, GraphStands DEF ResolveStep
<1>3. /\ pos \in Nat /\ pos > 0 /\ pos \in 1..Len(order) /\ order \in Seq(Id) /\ d \in Id /\ Len(order) \in Nat
      /\ job \in Seq({"named", "config", "ok", "failed"}) /\ Len(job) = pos - 1 /\ Len(job) \in Nat
      /\ Count \in Nat /\ None = 0
  <2>1. order \in Seq(Id) /\ pos \in Nat \ {0} /\ job \in Seq({"named", "config", "ok", "failed"})
    BY DEF IInv, TypeOK
  <2>2. Len(job) = pos - 1
    BY <1>1 DEF IInv, LoopsDone, ResolveStep
  <2>3. Count \in Nat /\ None = 0
    BY Recipes DEF IInv
  <2>4. pos \in 1..Len(order) /\ Len(order) \in Nat
    BY <1>1, <2>1
  <2>5. order[pos] \in Id
    BY <2>1, <2>4
  <2> QED BY <2>1, <2>2, <2>3, <2>4, <2>5
<1> HIDE DEF d
<1>4. /\ StagesAreStates' /\ ImagesAreStates' /\ SourcesAreThose' /\ SettledStages' /\ CommandsAreSound' /\ VerdictIsRight'
      /\ \A e : /\ Resolvable(e)' <=> Resolvable(e)
                /\ IsHad(e)' <=> IsHad(e)
                /\ Fetched(e)' <=> Fetched(e)
      /\ Missing' <=> Missing
      /\ (reach = Reachable(target))' <=> (reach = Reachable(target))
      /\ noinit \subseteq noinit' /\ noinit' \subseteq noinit \cup ({d} \cap implicit)
  BY <1>1, <1>3, ResolveStays
<1> DEFINE x == IF (base[d] = None /\ d \notin noinit) /\ ~(stage[d].image = Scratch) THEN "named" ELSE "ok"
           Failed == \E j \in 1..Len(job) : job[j] = "failed"
<1>5. /\ x \in {"named", "ok"} /\ Len(job') = Len(job) + 1 /\ job'[pos] = x
      /\ \A k \in 1..Len(job) : job'[k] = job[k]
  BY <1>1, <1>3
<1>6. x = "named" => Resolvable(d)
  <2> SUFFICES ASSUME base[d] = None, d \notin noinit, stage[d].image # Scratch PROVE Resolvable(d)
    OBVIOUS
  <2>1. CASE pos <= Count
    <3>1. d = pos /\ pos \in 1..Count
      BY <1>2, <1>3, <2>1 DEF GraphInv, StagesAreStates, d
    <3>2. ~IsReplaced(pos)
      BY <1>2, <1>3, <3>1 DEF SettledStages
    <3> QED BY <3>1, <3>2 DEF Resolvable
  <2>2. CASE ~(pos <= Count)
    <3>1. d \in implicit
      BY <1>2, <1>3, <2>2 DEF GraphInv, StagesAreStates, d
    <3> QED BY <3>1 DEF Resolvable
  <2> QED BY <2>1, <2>2
<1>7. \A e \in noinit : Resolvable(e) => IsHad(e) \/ Failed
  BY <1>1, <1>2 DEF Jobs, ResolveStep
<1>8. x = "ok" /\ Resolvable(d) => IsHad(d) \/ Failed
  BY <1>7 DEF Resolvable
<1>9. x = "ok" /\ d \in implicit => d \in noinit'
  <2> SUFFICES ASSUME x = "ok", d \in implicit, d \notin noinit PROVE d \in noinit'
    BY <1>4
  <2>1. base[d] = None
    BY <1>2, <1>3 DEF GraphInv, ImagesAreStates
  <2>2. stage[d].image = Scratch
    BY <2>1
  <2> QED BY <1>1, <2>1, <2>2 DEF Settled
<1>10. \A e \in noinit' : Resolvable(e) => IsHad(e) \/ Failed
  <2> SUFFICES ASSUME NEW e \in noinit', e \notin noinit PROVE ~Resolvable(e)
    BY <1>7
  <2>1. e = d /\ stage[d].image = Scratch
    BY <1>1, <1>4
  <2> QED BY <2>1 DEF Resolvable
<1> DEFINE Failed1 == \E j \in 1..Len(job') : job'[j] = "failed"
<1>11. Failed => Failed1
  BY <1>3, <1>5
<1>12. UNCHANGED <<order, stage, input, implicit>> /\ phase' = "resolve"
  BY <1>1 DEF ResolveStep, graph
<1>13. ASSUME NEW k \in 1..Len(job'), NEW e, e = order[k]
       PROVE  /\ job'[k] # "ok" => Resolvable(e)
              /\ job'[k] = "config" => stage[e].image \notin input.named /\ Fetched(e)
              /\ job'[k] = "failed" => Missing
              /\ job'[k] = "ok" /\ Resolvable(e) => IsHad(e) \/ Failed1
              /\ job'[k] = "ok" /\ e \in implicit => e \in noinit'
  <2>1. CASE k = pos
    BY <1>5, <1>6, <1>8, <1>9, <1>11, <1>13, <2>1 DEF d
  <2>2. CASE k # pos
    <3>1. k \in 1..Len(job) /\ job'[k] = job[k]
      BY <1>3, <1>5, <2>2
    <3>2. /\ job[k] # "ok" => Resolvable(e)
          /\ job[k] = "config" => stage[e].image \notin input.named /\ Fetched(e)
          /\ job[k] = "failed" => Missing
          /\ job[k] = "ok" /\ Resolvable(e) => IsHad(e) \/ Failed
          /\ job[k] = "ok" /\ e \in implicit => e \in noinit
      BY <1>1, <1>2, <1>13, <3>1 DEF Jobs, ResolveStep
    <3> HIDE DEF Failed, Failed1
    <3> QED BY <1>4, <1>11, <3>1, <3>2
  <2> QED BY <2>1, <2>2
<1>14. reach = Reachable(target)
  BY <1>1, <1>2 DEF Jobs, ResolveStep
<1>15. Jobs'
  <2> HIDE DEF x
  <2> QED BY <1>4, <1>10, <1>11, <1>12, <1>13, <1>14 DEF Jobs
<1> QED BY <1>4, <1>15

\* A goroutine of the resolve loop goes on, or ends with the image or an error.
LEMMA JobVerdict ==
    ASSUME IInv, VerdictInv, IsClear(input), ResolveStep,
           NEW k \in DOMAIN job, NEW d, d = order[k],
           NEW x \in {"config", "ok", "failed"},
           job[k] \in {"named", "config"},
           job' = [job EXCEPT ![k] = x],
           noinit' = IF x = "config" THEN noinit ELSE noinit \cup Settled(d),
           x = "config" => stage[d].image \notin input.named /\ Fetched(d),
           x = "ok" => IsHad(d),
           x = "failed" => Missing
    PROVE  /\ (StagesAreStates /\ ImagesAreStates /\ SourcesAreThose /\ SettledStages /\ Jobs /\ CommandsAreSound)'
           /\ VerdictIsRight'
<1>1. GraphInv /\ SettledStages /\ Jobs /\ Registered = Count
  BY GraphStands DEF ResolveStep
<1>2. /\ job \in Seq({"named", "config", "ok", "failed"}) /\ order \in Seq(Id)
      /\ Len(job) \in Nat /\ DOMAIN job = 1..Len(job)
  BY DEF IInv, TypeOK
<1>3. Len(job) <= Len(order)
  BY DEF IInv, LoopsDone, ResolveStep
<1>4. k \in 1..Len(job) /\ d \in Id
  <2>1. k \in 1..Len(order)
    BY <1>2, <1>3
  <2> QED BY <1>2, <2>1
<1>5. /\ StagesAreStates' /\ ImagesAreStates' /\ SourcesAreThose' /\ SettledStages' /\ CommandsAreSound' /\ VerdictIsRight'
      /\ \A e : /\ Resolvable(e)' <=> Resolvable(e)
                /\ IsHad(e)' <=> IsHad(e)
                /\ Fetched(e)' <=> Fetched(e)
      /\ Missing' <=> Missing
      /\ (reach = Reachable(target))' <=> (reach = Reachable(target))
      /\ noinit \subseteq noinit' /\ noinit' \subseteq noinit \cup ({d} \cap implicit)
  <2>1. noinit' = noinit \/ noinit' = noinit \cup Settled(d)
    OBVIOUS
  <2> QED BY <1>4, <2>1, ResolveStays
<1>6. /\ Len(job') = Len(job) /\ job'[k] = x
      /\ \A i \in 1..Len(job) : i # k => job'[i] = job[i]
  BY <1>2, <1>4
<1> DEFINE Failed == \E j \in 1..Len(job) : job[j] = "failed"
           Failed1 == \E j \in 1..Len(job') : job'[j] = "failed"
<1>7. Failed => Failed1
  <2> SUFFICES ASSUME NEW j \in 1..Len(job), job[j] = "failed" PROVE Failed1
    OBVIOUS
  <2>1. j # k
    OBVIOUS
  <2> QED BY <1>6, <2>1
<1>8. x = "failed" => Failed1
  BY <1>4, <1>6
<1>9. d \in implicit /\ x # "config" => d \in noinit'
  BY DEF Settled
<1>10. ASSUME NEW e \in noinit', Resolvable(e) PROVE IsHad(e) \/ Failed1
  <2>1. CASE e \in noinit
    <3>1. IsHad(e) \/ Failed
      BY <1>1, <1>10, <2>1 DEF Jobs, ResolveStep
    <3> QED BY <1>7, <3>1
  <2>2. CASE e \notin noinit
    <3>1. e = d /\ x # "config"
      BY <1>5, <2>2
    <3> HIDE DEF Failed1
    <3> QED BY <1>8, <3>1
  <2> QED BY <2>1, <2>2
<1>11. Resolvable(d)
  BY <1>1, <1>4 DEF Jobs, ResolveStep
<1> HIDE DEF Failed, Failed1
<1>12. ASSUME NEW i \in 1..Len(job'), NEW e, e = order[i]
       PROVE  /\ job'[i] # "ok" => Resolvable(e)
              /\ job'[i] = "config" => stage[e].image \notin input.named /\ Fetched(e)
              /\ job'[i] = "failed" => Missing
              /\ job'[i] = "ok" /\ Resolvable(e) => IsHad(e) \/ Failed1
              /\ job'[i] = "ok" /\ e \in implicit => e \in noinit'
  <2>1. CASE i = k
    <3>1. e = d /\ job'[i] = x
      BY <1>6, <1>12, <2>1
    <3> QED BY <1>9, <1>11, <3>1
  <2>2. CASE i # k
    <3>1. i \in 1..Len(job) /\ job'[i] = job[i]
      BY <1>6, <2>2
    <3>2. /\ job[i] # "ok" => Resolvable(e)
          /\ job[i] = "config" => stage[e].image \notin input.named /\ Fetched(e)
          /\ job[i] = "failed" => Missing
          /\ job[i] = "ok" /\ Resolvable(e) => IsHad(e) \/ Failed
          /\ job[i] = "ok" /\ e \in implicit => e \in noinit
      BY <1>1, <1>12, <3>1 DEF Jobs, ResolveStep, Failed
    <3> QED BY <1>5, <1>7, <3>1, <3>2
  <2> QED BY <2>1, <2>2
<1>13. UNCHANGED <<order, stage, input, implicit>> /\ phase' = "resolve"
  BY DEF ResolveStep, graph
<1>14. reach = Reachable(target)
  BY <1>1 DEF Jobs, ResolveStep
<1>15. Jobs'
  BY <1>5, <1>10, <1>12, <1>13, <1>14 DEF Jobs, Failed1
<1> QED BY <1>5, <1>15

LEMMA ResolveVerdict ==
    ASSUME IInv, VerdictInv, ClearVerdict,
           NEW k \in DOMAIN job, ResolveNamed(k) \/ ResolveConfig(k) \/ Cancel(k)
    PROVE  VerdictInv' /\ ClearVerdict'
<1> DEFINE d == order[k]
           image == stage[d].image
<1>1. ResolveStep /\ job[k] \in {"named", "config"}
  BY DEF ResolveNamed, ResolveConfig, Cancel, ResolveStep
<1> SUFFICES ASSUME IsClear(input)
             PROVE  (StagesAreStates /\ ImagesAreStates /\ SourcesAreThose /\ SettledStages /\ Jobs /\ CommandsAreSound)'
                    /\ VerdictIsRight'
  BY <1>1 DEF VerdictInv, ClearVerdict, ResolveStep
<1>2. Jobs
  BY <1>1, GraphStands DEF ResolveStep
<1>3. k \in 1..Len(job) /\ k \in 1..Len(order)
  <2>1. Len(job) <= Len(order)
    BY <1>1 DEF IInv, LoopsDone, ResolveStep
  <2>2. job \in Seq({"named", "config", "ok", "failed"}) /\ order \in Seq(Id)
    BY DEF IInv, TypeOK
  <2> QED BY <2>1, <2>2
<1>4. Resolvable(d)
  BY <1>1, <1>2, <1>3 DEF Jobs, ResolveStep
<1>5. ~IsHad(d) => Missing
  BY <1>3, <1>4 DEF Missing
<1>6. job[k] = "config" => image \notin input.named /\ Fetched(d)
  BY <1>1, <1>2, <1>3 DEF Jobs, ResolveStep
<1> HIDE DEF d
<1>7. \E x \in {"config", "ok", "failed"} :
        /\ job' = [job EXCEPT ![k] = x]
        /\ noinit' = IF x = "config" THEN noinit ELSE noinit \cup Settled(d)
        /\ x = "config" => image \notin input.named /\ Fetched(d)
        /\ x = "ok" => IsHad(d)
        /\ x = "failed" => Missing
  <2>1. CASE ResolveNamed(k)
    <3>1. CASE image \in input.named /\ image \in input.broken
      <4>1. Breaks(k)
        BY <2>1, <3>1 DEF ResolveNamed, d
      <4>2. ~IsHad(d)
        BY <3>1 DEF IsHad
      <4> QED BY <1>5, <4>1, <4>2 DEF Breaks, d
    <3>2. CASE image \in input.named /\ image \notin input.broken
      <4>1. Ends(k, "local")
        BY <2>1, <3>2 DEF ResolveNamed, d
      <4>2. IsHad(d)
        BY <3>2 DEF IsHad
      <4> QED BY <4>1, <4>2 DEF Ends, d
    <3>3. CASE image \notin input.named /\ ~input.allStages /\ d \notin reach
      <4>1. Ends(k, "image")
        BY <2>1, <3>3 DEF ResolveNamed, d
      <4>2. IsHad(d)
        BY <3>3 DEF IsHad, Fetched
      <4> QED BY <4>1, <4>2 DEF Ends, d
    <3>4. CASE image \notin input.named /\ (input.allStages \/ d \in reach)
      <4>1. job' = [job EXCEPT ![k] = "config"] /\ noinit' = noinit
        BY <2>1, <3>4 DEF ResolveNamed, d
      <4> QED BY <3>4, <4>1 DEF Fetched
    <3> QED BY <3>1, <3>2, <3>3, <3>4
  <2>2. CASE ResolveConfig(k)
    <3>1. image \notin input.named /\ Fetched(d)
      BY <1>6, <2>2 DEF ResolveConfig
    <3>2. CASE image \in input.broken
      <4>1. Breaks(k)
        BY <2>2, <3>2 DEF ResolveConfig, d
      <4>2. ~IsHad(d)
        BY <3>1, <3>2 DEF IsHad
      <4> QED BY <1>5, <4>1, <4>2 DEF Breaks, d
    <3>3. CASE image \notin input.broken
      <4>1. Ends(k, "image")
        BY <2>2, <3>3 DEF ResolveConfig, d
      <4>2. IsHad(d)
        BY <3>3 DEF IsHad
      <4> QED BY <4>1, <4>2 DEF Ends, d
    <3> QED BY <3>2, <3>3
  <2>3. CASE Cancel(k)
    <3>1. PICK j \in DOMAIN job : job[j] = "failed"
      BY <2>3 DEF Cancel
    <3>2. j \in 1..Len(job)
      BY DEF IInv, TypeOK
    <3>3. Missing
      BY <1>1, <1>2, <3>1, <3>2 DEF Jobs, ResolveStep
    <3>4. Breaks(k)
      BY <2>3 DEF Cancel
    <3> QED BY <3>3, <3>4 DEF Breaks, d
  <2> QED BY <2>1, <2>2, <2>3
<1>8. PICK x \in {"config", "ok", "failed"} :
        /\ job' = [job EXCEPT ![k] = x]
        /\ noinit' = IF x = "config" THEN noinit ELSE noinit \cup Settled(d)
        /\ x = "config" => image \notin input.named /\ Fetched(d)
        /\ x = "ok" => IsHad(d)
        /\ x = "failed" => Missing
  BY <1>7
<1>9. PICK e : e = order[k]
  OBVIOUS
<1>10. d = e
  BY <1>9 DEF d
<1> HIDE DEF d
<1> QED BY <1>1, <1>8, <1>9, <1>10, JobVerdict

\* An image that cannot be had belongs to a stage for which it is not available.
LEMMA MissingRefused ==
    ASSUME IInv, GraphInv, reach = Reachable(target)
    PROVE  Missing <=> \E k \in 1..Count : ~Available(input, k)
<1>1. /\ Count \in Nat /\ Positions(input) = 1..Count /\ 1..Count \subseteq Id /\ None = 0 /\ Id \subseteq Nat
      /\ \A k \in 1..Count : input.stages[k].cmds \in Seq(Command)
  BY Recipes DEF IInv
<1>2. /\ Registered = Count /\ implicit \subseteq Id /\ order \in Seq(Id)
      /\ Len(order) \in Nat /\ Registered <= Len(order)
  BY DEF GraphInv, Registered, StagesAreStates, IInv, TypeOK
<1>3. ASSUME NEW k \in 1..Count
      PROVE  stage[k] = input.stages[k] /\ base[k] = BaseStage(input, k) /\ order[k] = k /\ k \in 1..Len(order)
  BY <1>1, <1>2 DEF GraphInv, StagesAreStates
<1>4. ASSUME NEW i \in 1..Len(order), Resolvable(order[i]), ~IsHad(order[i])
      PROVE  \E k \in 1..Count : ~Available(input, k)
  <2>1. PICK d \in Id : d = order[i]
    BY <1>2
  <2>2. PICK x : x = stage[d].image
    OBVIOUS
  <2>3. x \in input.broken /\ x # Scratch /\ (x \in input.named \/ Fetched(d))
    BY <1>4, <2>1, <2>2 DEF Resolvable, IsHad
  <2>4. \E k \in 1..Count : x \in Images(input, k) /\ (Fetched(d) => k \in Needed(input))
    <3>1. CASE d \in 1..Count
      <4>1. base[d] = None /\ (d \in implicit \/ ~IsReplaced(d))
        BY <1>4, <2>1 DEF Resolvable
      <4>2. d \notin implicit
        BY <1>1, <3>1 DEF GraphInv, ImagesAreStates
      <4>3. x \in Images(input, d)
        BY <1>1, <1>3, <2>2, <3>1, <4>1, <4>2 DEF Images, IsReplaced
      <4>4. Fetched(d) => d \in Needed(input)
        <5>1. ~(d > Count)
          BY <1>1, <3>1
        <5> QED BY <3>1, <5>1, ReachFacts DEF Fetched
      <4> QED BY <3>1, <4>3, <4>4
    <3>2. CASE d \notin 1..Count
      <4>1. d \in implicit
        BY <1>4, <2>1, <3>2 DEF Resolvable
      <4>2. PICK j \in 1..Count : d \in Deps(j)
        BY <4>1 DEF GraphInv, ImagesAreStates
      <4>3. \A k \in 1..Count : d \in Deps(k) => x \in Images(input, k)
        BY <2>2, <4>1, SourceFacts
      <4>4. CASE ~input.allStages /\ Fetched(d)
        <5>1. d \in Reachable(target)
          BY <4>4 DEF Fetched
        <5>2. d \in Needed(input) \/ \E k \in Needed(input) : d \in Deps(k)
          BY <4>4, <5>1, ReachFacts
        <5>3. Needed(input) \subseteq 1..Count
          BY ReachFacts
        <5> QED BY <3>2, <4>3, <5>2, <5>3
      <4>5. CASE input.allStages \/ ~Fetched(d)
        <5>1. input.allStages => Needed(input) = 1..Count
          BY ReachFacts
        <5> QED BY <4>2, <4>3, <4>5, <5>1
      <4> QED BY <4>4, <4>5
    <3> QED BY <3>1, <3>2
  <2> QED BY <2>3, <2>4, ReachFacts DEF Available, Fetched
<1>5. ASSUME NEW k \in 1..Count, ~Available(input, k)
      PROVE  Missing
  <2>1. PICK x \in Images(input, k) : x # Scratch /\ x \in input.broken /\ (x \in input.named \/ k \in Needed(input))
    BY <1>5 DEF Available
  <2>2. \E i \in 1..Len(order) : LET d == order[i] IN
           /\ Resolvable(d) /\ stage[d].image = x
           /\ k \in Needed(input) => Fetched(d)
    <3>1. CASE BaseStage(input, k) = 0 /\ ~Replaced(input, input.stages[k]) /\ x = input.stages[k].image
      <4>1. Resolvable(k)
        BY <1>1, <1>3, <2>1, <3>1 DEF Resolvable, IsReplaced
      <4>2. k \in Needed(input) => Fetched(k)
        BY ReachFacts DEF Fetched
      <4> QED BY <1>3, <3>1, <4>1, <4>2
    <3>2. ASSUME NEW d \in Deps(k) \cap implicit, stage[d].image = x
          PROVE  \E i \in 1..Len(order) : Resolvable(order[i]) /\ stage[order[i]].image = x
                    /\ (k \in Needed(input) => Fetched(order[i]))
      <4>1. PICK i \in 1..Len(order) : order[i] = d
        BY DEF GraphInv, ImagesAreStates
      <4>2. base[d] = None
        BY <1>2 DEF GraphInv, ImagesAreStates
      <4>3. k \in Needed(input) => Fetched(d)
        <5>1. d \in Parents(k)
          BY <1>2, NoneIsNoState DEF Parents
        <5> QED BY <5>1, ReachFacts DEF Fetched
      <4> QED BY <2>1, <3>2, <4>1, <4>2, <4>3 DEF Resolvable
    <3>3. CASE \E c \in Commands(input, k) : (FromImage(input, c) /\ x = c.from.name) \/ (IsTool(c) /\ x = ToolImage(c))
      <4>1. PICK c \in Commands(input, k) : (FromImage(input, c) /\ x = c.from.name) \/ (IsTool(c) /\ x = ToolImage(c))
        BY <3>3
      <4>2. PICK i \in DOMAIN input.stages[k].cmds : c = input.stages[k].cmds[i]
        BY DEF Commands
      <4>3. i \in 1..Len(input.stages[k].cmds)
        BY <1>1
      <4>4. \E d \in Deps(k) \cap implicit : stage[d].image = x
        BY <4>1, <4>2, <4>3, SourceFacts
      <4> QED BY <3>2, <4>4
    <3> QED BY <2>1, <3>1, <3>3 DEF Images
  <2>3. PICK i \in 1..Len(order) : /\ Resolvable(order[i]) /\ stage[order[i]].image = x
                                   /\ k \in Needed(input) => Fetched(order[i])
    BY <2>2
  <2>4. ~IsHad(order[i])
    BY <2>1, <2>3 DEF IsHad
  <2> QED BY <2>3, <2>4 DEF Missing
<1> QED BY <1>4, <1>5 DEF Missing

LEMMA FinishResolveVerdict ==
    ASSUME IInv, VerdictInv, ClearVerdict, FinishResolve, IInv'
    PROVE  VerdictInv' /\ ClearVerdict'
<1> DEFINE Failed == \E k \in DOMAIN job : job[k] = "failed"
<1>1. /\ phase = "resolve" /\ pos > Len(order) /\ pos' = 1
      /\ \A k \in DOMAIN job : job[k] \in {"ok", "failed"}
      /\ IF Fails("ignore") \/ Failed THEN phase' = "failed" ELSE phase' = "dispatch"
      /\ UNCHANGED <<input, cmd, graph, noinit, target, reach, job>>
  BY DEF FinishResolve, Fail, result
<1> SUFFICES ASSUME IsClear(input)
             PROVE  (Underway' => (StagesAreStates /\ ImagesAreStates /\ SourcesAreThose /\ SettledStages /\ Jobs /\ CommandsAreSound)')
                    /\ VerdictIsRight'
  BY <1>1 DEF VerdictInv, ClearVerdict
<1>2. GraphInv /\ SettledStages /\ Jobs /\ Registered = Count
  BY <1>1, GraphStands
<1>3. /\ job \in Seq({"named", "config", "ok", "failed"}) /\ order \in Seq(Id)
      /\ DOMAIN job = 1..Len(job) /\ Len(order) \in Nat /\ Len(job) \in Nat /\ pos \in Nat
  BY DEF IInv, TypeOK
<1>4. Len(job) = Len(order) /\ cmd = 0
  <2>1. Len(job) = pos - 1 /\ Len(job) <= Len(order) /\ cmd = 0
    BY <1>1 DEF IInv, LoopsDone
  <2> QED BY <1>1, <1>3, <2>1
<1>5. reach = Reachable(target)
  BY <1>1, <1>2 DEF Jobs
<1>6. CASE Fails("ignore") \/ Failed
  <2>1. phase' = "failed"
    BY <1>1, <1>6
  <2>2. CASE Fails("ignore")
    BY <1>1, <2>1, <2>2 DEF Fails, Accepts, VerdictIsRight, Underway
  <2>3. CASE Failed
    <3>1. Missing
      BY <1>1, <1>2, <1>3, <2>3 DEF Jobs
    <3>2. ~Accepts(input)
      BY <1>2, <1>5, <3>1, MissingRefused, Recipes DEF Accepts, IInv
    <3> QED BY <1>1, <2>1, <3>2 DEF VerdictIsRight, Underway
  <2> QED BY <1>6, <2>2, <2>3
<1>7. CASE ~Fails("ignore") /\ ~Failed
  <2>1. phase' = "dispatch"
    BY <1>1, <1>7
  <2>2. SameStates /\ UNCHANGED noinit
    BY <1>1, <2>1 DEF SameStates, graph, Registered, Count
  <2>3. StagesAreStates' /\ ImagesAreStates' /\ SourcesAreThose' /\ Count' = Count /\ \A k : IsReplaced(k)' <=> IsReplaced(k)
    BY <1>1, <1>2, <2>1, <2>2, SameStatesStay DEF GraphInv
  <2>4. ~Failed /\ \A k \in 1..Len(order) : k \in 1..Len(job) /\ job[k] = "ok"
    BY <1>1, <1>3, <1>4, <1>7
  <2>5. ~Missing
    <3> SUFFICES ASSUME NEW k \in 1..Len(order), Resolvable(order[k]) PROVE IsHad(order[k])
      BY DEF Missing
    <3>1. IsHad(order[k]) \/ \E j \in 1..Len(job) : job[j] = "failed"
      BY <1>1, <1>2, <2>4 DEF Jobs
    <3> QED BY <1>3, <2>4, <3>1
  <2>6. implicit \subseteq noinit
    <3> SUFFICES ASSUME NEW d \in implicit PROVE d \in noinit
      OBVIOUS
    <3>1. PICK k \in 1..Len(order) : order[k] = d
      BY <1>2 DEF GraphInv, ImagesAreStates
    <3> QED BY <1>1, <1>2, <2>4, <3>1 DEF Jobs
  <2>7. SettledStages'
    <3>1. Count \in Nat /\ cmd' = 0
      BY <1>1, <1>4, Recipes DEF IInv
    <3>2. \A k \in 1..Count : ~Entered(k) /\ ~Entered(k)'
      BY <1>1, <3>1 DEF Entered
    <3> QED BY <1>1, <1>2, <2>1, <2>2, <2>3, <2>6, <3>2 DEF SettledStages, SameStates
  <2>8. Jobs'
    <3>1. Reachable(target)' = Reachable(target)
      BY <1>1, <2>2 DEF SameStates, Reachable, Parents, Deps
    <3>2. Missing' <=> Missing
      BY <1>1, <2>2, <2>3 DEF Missing, Resolvable, IsHad, Fetched, SameStates, graph
    <3>3. ~Fails("ignore")'
      BY <1>1, <1>7 DEF Fails
    <3> QED BY <1>1, <1>5, <2>1, <2>5, <3>1, <3>2, <3>3 DEF Jobs
  <2>9. CommandsAreSound'
    <3>1. \A k \in 1..Count, i \in Nat : ~Dispatched(k, i)'
      BY <1>1, <1>4 DEF Dispatched
    <3>2. \A k \in 1..Count : Len(input.stages[k].cmds) \in Nat
      BY Recipes DEF IInv
    <3>3. cmd' = 0
      BY <1>1, <1>4
    <3> QED BY <1>1, <2>3, <3>1, <3>2, <3>3 DEF CommandsAreSound
  <2>10. VerdictIsRight'
    BY <2>1 DEF VerdictIsRight
  <2> QED BY <2>3, <2>7, <2>8, <2>9, <2>10
<1> QED BY <1>6, <1>7

-----------------------------------------------------------------------------
\* The states are dispatched.

DispatchStep ==
    /\ phase = "dispatch" /\ phase' = "dispatch"
    /\ UNCHANGED <<input, graph, target, reach>>

LEMMA DispatchStays ==
    ASSUME IInv, VerdictInv, IsClear(input), DispatchStep, noinit \subseteq noinit'
    PROVE  /\ StagesAreStates' /\ ImagesAreStates' /\ SourcesAreThose' /\ Jobs' /\ VerdictIsRight'
           /\ Count' = Count /\ Registered' = Registered
           /\ \A k : (IsReplaced(k)' <=> IsReplaced(k)) /\ (Fetched(k)' <=> Fetched(k))
<1>1. SameStates
  BY DEF DispatchStep, SameStates, Registered, Count, graph
<1>2. GraphInv /\ Jobs
  BY GraphStands DEF DispatchStep
<1>3. /\ StagesAreStates' /\ ImagesAreStates' /\ SourcesAreThose' /\ Count' = Count
      /\ \A k : IsReplaced(k)' <=> IsReplaced(k)
  BY <1>1, <1>2, SameStatesStay DEF GraphInv, DispatchStep
<1>4. \A k : Fetched(k)' <=> Fetched(k)
  BY DEF Fetched, DispatchStep
<1>5. Reachable(target)' = Reachable(target)
  BY <1>1 DEF SameStates, Reachable, Parents, Deps
<1>6. Missing' <=> Missing
  BY <1>1, <1>3, <1>4 DEF Missing, Resolvable, IsHad, SameStates, DispatchStep, graph
<1>7. Jobs'
  <2>1. reach = Reachable(target) /\ ~Missing /\ ~Fails("ignore")
    BY <1>2 DEF Jobs, DispatchStep
  <2> QED BY <1>5, <1>6, <2>1 DEF Jobs, Fails, DispatchStep
<1> QED BY <1>1, <1>3, <1>4, <1>7 DEF VerdictIsRight, DispatchStep, SameStates

\* The state at which the loop is: a stage at its own position, or an image.
LEMMA CurrentFacts ==
    ASSUME IInv, GraphInv, pos <= Len(order)
    PROVE  /\ pos \in Nat /\ pos > 0 /\ Count \in Nat /\ Current \in Id /\ Current \in 1..n
           /\ pos <= Count => pos \in 1..Count /\ Current = pos /\ stage[Current] = input.stages[pos]
           /\ pos > Count => Current \in implicit /\ Current > Count /\ stage[Current].cmds = <<>>
<1>1. /\ Count \in Nat /\ Id \subseteq Nat /\ n \in Nat /\ 1..Count \subseteq Id /\ \A d \in Id : d \in 1..MaxStates
  BY Recipes DEF IInv
<1>2. pos \in Nat \ {0} /\ order \in Seq(Id) /\ phase # "register"
  BY DEF IInv, TypeOK, GraphInv
<1>3. pos \in 1..Len(order)
  BY <1>2
<1>4. Current \in Id
  BY <1>2, <1>3 DEF Current
<1>5. Registered = Count /\ Count <= n
  BY <1>2 DEF Registered, GraphInv, StagesAreStates
<1>6. ASSUME pos <= Count PROVE pos \in 1..Count /\ Current = pos /\ stage[Current] = input.stages[pos]
  <2>1. pos \in 1..Count
    BY <1>1, <1>2, <1>6
  <2> QED BY <1>5, <2>1 DEF GraphInv, StagesAreStates, Current
<1>7. ASSUME pos > Count PROVE Current \in implicit /\ Current > Count /\ Current <= n /\ stage[Current].cmds = <<>>
  <2>1. Current \in implicit
    BY <1>3, <1>5, <1>7 DEF GraphInv, StagesAreStates, Current
  <2>2. Current > Count /\ Current <= n
    BY <2>1 DEF GraphInv, ImagesAreStates
  <2> QED BY <1>4, <1>5, <2>1, <2>2 DEF GraphInv, ImagesAreStates
<1>8. Current \in 1..n
  <2>1. Current \in 1..MaxStates
    BY <1>1, <1>4
  <2>2. Current <= n
    <3> HIDE DEF Current
    <3> QED BY <1>1, <1>2, <1>5, <1>6, <1>7
  <2> HIDE DEF Current
  <2> QED BY <1>1, <2>1, <2>2
<1> QED BY <1>1, <1>2, <1>4, <1>6, <1>7, <1>8

\* A step of the loop settles the state that it is at, or none.
LEMMA LoopVerdict ==
    ASSUME IInv, VerdictInv, IsClear(input), DispatchStep, noinit \subseteq noinit',
           (SettledStages /\ CommandsAreSound)'
    PROVE  VerdictInv' /\ ClearVerdict'
BY DispatchStays DEF VerdictInv, ClearVerdict

LEMMA SkipStateVerdict ==
    ASSUME IInv, VerdictInv, ClearVerdict, SkipState
    PROVE  VerdictInv' /\ ClearVerdict'
<1>1. /\ DispatchStep /\ pos <= Len(order) /\ cmd = 0 /\ cmd' = 0 /\ pos' = pos + 1 /\ noinit' = noinit
      /\ ~input.allStages /\ (Current \notin reach \/ Current \in noinit)
  BY DEF SkipState, DispatchStep, result
<1> SUFFICES ASSUME IsClear(input) PROVE (SettledStages /\ CommandsAreSound)'
  BY <1>1, LoopVerdict DEF VerdictInv, ClearVerdict, DispatchStep
<1>2. GraphInv /\ SettledStages /\ CommandsAreSound /\ Registered = Count
  BY <1>1, GraphStands DEF DispatchStep
<1>3. /\ Count' = Count /\ Registered' = Registered
      /\ \A k : (IsReplaced(k)' <=> IsReplaced(k)) /\ (Fetched(k)' <=> Fetched(k))
  BY <1>1, DispatchStays
<1>4. pos \in Nat /\ Count \in Nat /\ (pos <= Count => pos \in 1..Count /\ Current = pos)
  BY <1>1, <1>2, CurrentFacts
<1>5. pos \in 1..Count => ~Fetched(pos) \/ IsReplaced(pos)
  <2> SUFFICES ASSUME pos \in 1..Count, Fetched(pos) PROVE IsReplaced(pos)
    OBVIOUS
  <2>1. Current = pos /\ pos \in noinit
    <3> HIDE DEF Current
    <3> QED BY <1>1, <1>4 DEF Fetched
  <2>2. ~Entered(pos)
    BY <1>1, <1>4 DEF Entered
  <2> QED BY <1>2, <2>1, <2>2 DEF SettledStages
<1>6. SettledStages'
  <2>1. ASSUME NEW k \in 1..Count
        PROVE  k \in noinit' <=> (k <= Registered' /\ IsReplaced(k)') \/ Entered(k)'
    <3>1. k \in noinit <=> IsReplaced(k) \/ Entered(k)
      BY <1>2 DEF SettledStages
    <3>2. Entered(k)' <=> k < pos + 1 /\ Fetched(k)
      BY <1>1, <1>3, <1>4 DEF Entered, DispatchStep
    <3>3. Entered(k) <=> k < pos /\ Fetched(k)
      BY <1>1 DEF Entered, DispatchStep
    <3>4. k < pos + 1 <=> k < pos \/ k = pos
      BY <1>4
    <3>5. k <= Registered' /\ noinit' = noinit
      BY <1>1, <1>2, <1>3
    <3> QED BY <1>3, <1>5, <3>1, <3>2, <3>3, <3>4, <3>5
  <2>2. UNCHANGED <<implicit, n>> /\ phase' = "dispatch" /\ phase = "dispatch"
    BY <1>1 DEF DispatchStep, graph
  <2> QED BY <1>1, <1>2, <1>3, <2>1, <2>2 DEF SettledStages
<1>7. CommandsAreSound'
  <2>1. UNCHANGED <<input, reach>> /\ phase = "dispatch" /\ phase' = "dispatch"
    BY <1>1 DEF DispatchStep
  <2>2. ASSUME NEW k \in 1..Count, NEW i \in 1..Len(input.stages[k].cmds), Dispatched(k, i)'
        PROVE  Dispatched(k, i)
    <3>1. k < pos + 1 /\ (input.allStages \/ (Fetched(k) /\ ~IsReplaced(k)))
      <4>1. Len(input.stages[k].cmds) \in Nat
        BY Recipes DEF IInv
      <4>2. ~(i < 0)
        BY <4>1
      <4> QED BY <1>1, <1>3, <2>1, <2>2, <4>2 DEF Dispatched, Fetched
    <3>2. k # pos
      BY <1>1, <1>5, <3>1
    <3>3. k < pos
      BY <1>4, <3>1, <3>2
    <3> QED BY <1>1, <3>1, <3>3 DEF Dispatched, Fetched
  <2> QED BY <1>1, <1>2, <1>3, <2>1, <2>2 DEF CommandsAreSound
<1> QED BY <1>6, <1>7

LEMMA EnterStateVerdict ==
    ASSUME IInv, VerdictInv, ClearVerdict, EnterState
    PROVE  VerdictInv' /\ ClearVerdict'
<1>1. /\ DispatchStep /\ pos <= Len(order) /\ cmd = 0 /\ cmd' = 1 /\ pos' = pos /\ noinit' = noinit \cup {Current}
      /\ input.allStages \/ (Current \in reach /\ Current \notin noinit)
  BY DEF EnterState, DispatchStep
<1> SUFFICES ASSUME IsClear(input) PROVE (SettledStages /\ CommandsAreSound)'
  BY <1>1, LoopVerdict DEF VerdictInv, ClearVerdict, DispatchStep
<1>2. GraphInv /\ SettledStages /\ CommandsAreSound /\ Registered = Count
  BY <1>1, GraphStands DEF DispatchStep
<1>3. /\ Count' = Count /\ Registered' = Registered
      /\ \A k : (IsReplaced(k)' <=> IsReplaced(k)) /\ (Fetched(k)' <=> Fetched(k))
  BY <1>1, DispatchStays
<1>4. /\ pos \in Nat /\ Count \in Nat /\ (pos <= Count => pos \in 1..Count /\ Current = pos)
      /\ (pos > Count => Current > Count) /\ Current \in 1..n
  BY <1>1, <1>2, CurrentFacts
<1>5. Current' = Current
  BY <1>1 DEF Current, DispatchStep, graph
<1> HIDE DEF Current
<1>6. pos \in 1..Count => Fetched(pos) /\ (input.allStages \/ ~IsReplaced(pos))
  <2> SUFFICES ASSUME pos \in 1..Count, ~input.allStages PROVE pos \in reach /\ ~IsReplaced(pos)
    BY DEF Fetched
  <2>1. pos \in reach /\ pos \notin noinit
    BY <1>1, <1>4
  <2> QED BY <1>2, <2>1 DEF SettledStages
<1>7. SettledStages'
  <2>1. ASSUME NEW k \in 1..Count
        PROVE  k \in noinit' <=> (k <= Registered' /\ IsReplaced(k)') \/ Entered(k)'
    <3>1. k \in noinit <=> IsReplaced(k) \/ Entered(k)
      BY <1>2 DEF SettledStages
    <3>2. Entered(k)' <=> (k < pos \/ k = pos) /\ Fetched(k)
      BY <1>1, <1>3 DEF Entered, DispatchStep
    <3>3. Entered(k) <=> k < pos /\ Fetched(k)
      BY <1>1 DEF Entered, DispatchStep
    <3>4. k \in noinit' <=> k \in noinit \/ k = pos
      <4>1. pos > Count => Current # k
        BY <1>4
      <4> QED BY <1>1, <1>4, <4>1
    <3>5. k <= Registered'
      BY <1>2, <1>3
    <3> QED BY <1>3, <1>6, <3>1, <3>2, <3>3, <3>4, <3>5
  <2>2. UNCHANGED <<implicit, n>> /\ phase' = "dispatch" /\ phase = "dispatch"
    BY <1>1 DEF DispatchStep, graph
  <2>3. noinit' \subseteq 1..n /\ implicit \subseteq noinit'
    BY <1>1, <1>2, <1>4, <2>2 DEF SettledStages
  <2> QED BY <1>3, <2>1, <2>2, <2>3 DEF SettledStages
<1>8. CommandsAreSound'
  <2>1. UNCHANGED <<input, reach, order>> /\ phase = "dispatch" /\ phase' = "dispatch"
    BY <1>1 DEF DispatchStep, graph
  <2>2. ASSUME NEW k \in 1..Count, NEW i \in 1..Len(input.stages[k].cmds), Dispatched(k, i)'
        PROVE  Dispatched(k, i)
    <3>1. Len(input.stages[k].cmds) \in Nat
      BY Recipes DEF IInv
    <3>2. ~(i < 1)
      BY <3>1
    <3> QED BY <1>1, <1>3, <2>1, <2>2, <3>2 DEF Dispatched
  <2>3. input.allStages \/ (Current \in reach /\ (pos <= Count => ~IsReplaced(pos)))
    BY <1>1, <1>4, <1>6
  <2> QED BY <1>1, <1>2, <1>3, <1>5, <2>1, <2>2, <2>3 DEF CommandsAreSound
<1> QED BY <1>7, <1>8

\* With the loop over its commands a state has been entered.
LEMMA EnteredFacts ==
    ASSUME IInv, VerdictInv, IsClear(input), phase = "dispatch", pos <= Len(order), cmd > 0,
           DispatchStep, noinit' = noinit,
           \/ pos' = pos + 1 /\ cmd' = 0
           \/ pos' = pos /\ cmd' > 0
    PROVE  SettledStages'
<1>1. SettledStages /\ GraphInv /\ Registered = Count
  BY GraphStands
<1>2. /\ Count' = Count /\ Registered' = Registered
      /\ \A k : (IsReplaced(k)' <=> IsReplaced(k)) /\ (Fetched(k)' <=> Fetched(k))
  BY DispatchStays
<1>3. pos \in Nat /\ Count \in Nat
  BY <1>1, CurrentFacts
<1>4. ASSUME NEW k \in 1..Count PROVE Entered(k)' <=> Entered(k)
  <2>1. Entered(k) <=> (k < pos \/ k = pos) /\ Fetched(k)
    BY DEF Entered
  <2>2. CASE pos' = pos + 1 /\ cmd' = 0
    <3>1. Entered(k)' <=> k < pos + 1 /\ Fetched(k)
      BY <1>2, <2>2 DEF Entered, DispatchStep
    <3> QED BY <1>3, <2>1, <3>1
  <2>3. CASE pos' = pos /\ cmd' > 0
    BY <1>2, <2>1, <2>3 DEF Entered, DispatchStep
  <2> QED BY <2>2, <2>3
<1>5. UNCHANGED <<implicit, n>>
  BY DEF DispatchStep, graph
<1> QED BY <1>1, <1>2, <1>4, <1>5 DEF SettledStages, DispatchStep

LEMMA LeaveStateVerdict ==
    ASSUME IInv, VerdictInv, ClearVerdict, LeaveState
    PROVE  VerdictInv' /\ ClearVerdict'
<1>1. /\ DispatchStep /\ phase = "dispatch" /\ pos <= Len(order) /\ cmd > Len(stage[Current].cmds)
      /\ cmd' = 0 /\ pos' = pos + 1 /\ noinit' = noinit
  BY DEF LeaveState, DispatchStep, result
<1> SUFFICES ASSUME IsClear(input) PROVE (SettledStages /\ CommandsAreSound)'
  BY <1>1, LoopVerdict DEF VerdictInv, ClearVerdict, DispatchStep
<1>2. GraphInv /\ CommandsAreSound
  BY <1>1, GraphStands
<1>3. /\ Count' = Count
      /\ \A k : (IsReplaced(k)' <=> IsReplaced(k)) /\ (Fetched(k)' <=> Fetched(k))
  BY <1>1, DispatchStays
<1>4. /\ pos \in Nat /\ Count \in Nat /\ Current \in Id
      /\ pos <= Count => stage[Current] = input.stages[pos]
  BY <1>1, <1>2, CurrentFacts
<1>5. cmd > 0 /\ cmd \in Nat
  <2>1. stage[Current].cmds \in Seq(Command)
    BY <1>4 DEF IInv, TypeOK, Stage
  <2>2. cmd \in Nat /\ Len(stage[Current].cmds) \in Nat
    BY <2>1 DEF IInv, TypeOK
  <2> QED BY <1>1, <2>2
<1>6. SettledStages'
  BY <1>1, <1>5, EnteredFacts
<1>7. CommandsAreSound'
  <2>1. UNCHANGED <<input, reach>> /\ phase = "dispatch" /\ phase' = "dispatch"
    BY <1>1 DEF DispatchStep
  <2>2. ASSUME NEW k \in 1..Count, NEW i \in 1..Len(input.stages[k].cmds), Dispatched(k, i)'
        PROVE  Dispatched(k, i)
    <3>1. Len(input.stages[k].cmds) \in Nat /\ ~(i < 0)
      BY Recipes DEF IInv
    <3>2. k < pos + 1 /\ (input.allStages \/ (k \in reach /\ ~IsReplaced(k)))
      BY <1>1, <1>3, <2>1, <2>2, <3>1 DEF Dispatched
    <3>3. k = pos => i < cmd
      BY <1>1, <1>4, <1>5, <3>1
    <3>4. k < pos \/ k = pos
      BY <1>4, <3>2
    <3> QED BY <3>2, <3>3, <3>4 DEF Dispatched
  <2> QED BY <1>1, <1>2, <1>3, <2>1, <2>2 DEF CommandsAreSound
<1> QED BY <1>6, <1>7

\* The command that is dispatched is one of a stage that has to be built.
LEMMA CommandFacts ==
    ASSUME IInv, VerdictInv, IsClear(input), AtCommand(Op)
    PROVE  /\ GraphInv /\ SettledStages /\ Jobs /\ CommandsAreSound /\ Registered = Count
           /\ phase = "dispatch" /\ pos <= Len(order) /\ cmd \in Nat /\ cmd > 0
           /\ pos \in 1..Count /\ Count \in Nat /\ Current = pos
           /\ cmd \in 1..Len(input.stages[pos].cmds) /\ Dispatching = input.stages[pos].cmds[cmd]
           /\ Dispatching \in Commands(input, pos) /\ FromSources = srcs[pos][cmd]
           /\ SourcesAre(Dispatching, FromSources)
           /\ Dispatching.from.by # "none" => FromSources[1] \in Deps(pos)
           /\ Dispatching.from.by = "none" => FromStage(input, Dispatching.from) = 0
           /\ Dispatching.from.by = "none" \/ FromStage(input, Dispatching.from) # 0
                \/ FromImage(input, Dispatching) \/ FromContext(input, Dispatching)
           /\ input.allStages \/ (pos \in reach /\ ~IsReplaced(pos))
           /\ pos \in Built(input)
<1>1. phase = "dispatch" /\ pos <= Len(order) /\ cmd \in 1..Len(stage[Current].cmds)
  BY DEF AtCommand
<1>2. GraphInv /\ SettledStages /\ Jobs /\ CommandsAreSound /\ Registered = Count
  BY <1>1, GraphStands
<1>3. /\ pos \in Nat /\ Count \in Nat /\ Current \in Id
      /\ pos <= Count => pos \in 1..Count /\ Current = pos /\ stage[Current] = input.stages[pos]
      /\ pos > Count => stage[Current].cmds = <<>>
  BY <1>1, <1>2, CurrentFacts
<1>4. pos \in 1..Count /\ Current = pos /\ stage[Current] = input.stages[pos]
  BY <1>1, <1>3
<1>5. cmd \in 1..Len(input.stages[pos].cmds) /\ Dispatching = input.stages[pos].cmds[cmd] /\ FromSources = srcs[pos][cmd]
  BY <1>1, <1>4 DEF Dispatching, FromSources
<1>6. cmd \in Nat /\ cmd > 0
  BY <1>5, Recipes DEF IInv
<1>7. PICK c : c = input.stages[pos].cmds[cmd]
  OBVIOUS
<1>8. /\ c \in Commands(input, pos) /\ SourcesAre(c, srcs[pos][cmd])
      /\ c.from.by # "none" => srcs[pos][cmd][1] \in Deps(pos)
      /\ c.from.by = "none" => FromStage(input, c.from) = 0
      /\ c.from.by = "none" \/ FromStage(input, c.from) # 0 \/ FromImage(input, c) \/ FromContext(input, c)
  BY <1>2, <1>4, <1>5, <1>7, SourceFacts
<1>9. input.allStages \/ (pos \in reach /\ ~IsReplaced(pos))
  BY <1>1, <1>2, <1>3, <1>4, <1>6 DEF CommandsAreSound
<1>10. pos \in Needed(input)
  <2>1. reach = Reachable(target)
    BY <1>1, <1>2 DEF Jobs
  <2>2. ~(pos > Count)
    BY <1>3, <1>4
  <2> QED BY <1>2, <1>4, <1>9, <2>1, <2>2, ReachFacts
<1>11. pos \in Built(input)
  BY <1>9, <1>10 DEF Built, IsReplaced
<1> QED BY <1>1, <1>2, <1>3, <1>4, <1>5, <1>6, <1>7, <1>8, <1>9, <1>11

\* What DispatchCommand tells of the command.
LEMMA CommandIsFine ==
    ASSUME DispatchCommand
    PROVE  /\ Dispatching.ok
           /\ Dispatching.op = "COPY" =>
                /\ Dispatching.path # Remote
                /\ FromSources = <<>> \/ (DispatchCopyFrom /\ FromSources[1] \in noinit)
BY DEF DispatchCommand, DispatchAdd, DispatchCopyContext, DispatchCopyFrom, DispatchTool,
       DispatchConvert, DispatchQuantize, RunTool, DispatchCat, DispatchLabel, AtCommand

LEMMA DispatchCommandVerdict ==
    ASSUME IInv, VerdictInv, ClearVerdict, DispatchCommand
    PROVE  VerdictInv' /\ ClearVerdict'
<1>1. CommandStep /\ AtCommand(Op)
  BY DispatchCommandStep
<1>2. /\ DispatchStep /\ pos' = pos /\ cmd' = cmd + 1 /\ noinit' = noinit
  BY <1>1 DEF CommandStep, DispatchStep
<1> SUFFICES ASSUME IsClear(input) PROVE (SettledStages /\ CommandsAreSound)'
  BY <1>2, LoopVerdict DEF VerdictInv, ClearVerdict, DispatchStep
<1> DEFINE c == Dispatching
           s == FromSources[1]
<1>3. /\ GraphInv /\ SettledStages /\ CommandsAreSound /\ Registered = Count
      /\ pos \in 1..Count /\ Count \in Nat /\ Current = pos /\ cmd \in Nat /\ cmd > 0 /\ pos <= Len(order)
      /\ cmd \in 1..Len(input.stages[pos].cmds) /\ c = input.stages[pos].cmds[cmd]
      /\ SourcesAre(c, FromSources)
      /\ c.from.by = "none" => FromStage(input, c.from) = 0
      /\ input.allStages \/ (pos \in reach /\ ~IsReplaced(pos))
  BY <1>1, CommandFacts
<1>4. /\ Count' = Count
      /\ \A k : (IsReplaced(k)' <=> IsReplaced(k)) /\ (Fetched(k)' <=> Fetched(k))
  BY <1>2, DispatchStays
<1>5. SettledStages'
  BY <1>2, <1>3, EnteredFacts DEF DispatchStep
<1>6. Sound(input, pos, c)
  <2>1. /\ c.ok
        /\ c.op = "COPY" =>
             /\ c.path # Remote
             /\ FromSources = <<>> \/ (DispatchCopyFrom /\ s \in noinit)
    BY CommandIsFine
  <2>2. ASSUME c.op = "COPY", FromStage(input, c.from) # 0
        PROVE  FromStage(input, c.from) < pos \/ Replaced(input, input.stages[FromStage(input, c.from)])
    <3>1. c.from.by # "none"
      BY <1>3, <2>2
    <3>2. ~IsTool(c)
      BY <2>2 DEF IsTool
    <3>3. Len(FromSources) = 1 /\ FromIs(c, s)
      BY <1>3, <3>1, <3>2 DEF SourcesAre
    <3>4. s = FromStage(input, c.from) /\ s <= Count
      BY <2>2, <3>3 DEF FromIs
    <3>5. DispatchCopyFrom /\ s \in noinit
      BY <2>1, <2>2, <3>3
    <3>6. s # pos /\ s \in Id
      BY <1>3, <3>5, CopySource DEF IInv
    <3>7. s \in 1..Count
      BY <1>3, <3>4, <3>6, Recipes DEF IInv
    <3>8. IsReplaced(s) \/ Entered(s)
      BY <1>3, <3>5, <3>7 DEF SettledStages
    <3>9. Entered(s) => s < pos
      BY <3>6 DEF Entered
    <3> HIDE DEF s
    <3> QED BY <3>4, <3>8, <3>9 DEF IsReplaced
  <2> HIDE DEF c, s
  <2> QED BY <2>1, <2>2 DEF Sound
<1>7. CommandsAreSound'
  <2>1. UNCHANGED <<input, reach, order>> /\ phase = "dispatch" /\ phase' = "dispatch"
    BY <1>2 DEF DispatchStep, graph
  <2>2. ASSUME NEW k \in 1..Count, NEW i \in 1..Len(input.stages[k].cmds), Dispatched(k, i)'
        PROVE  Sound(input, k, input.stages[k].cmds[i])
    <3>1. /\ k < pos \/ (k = pos /\ i < cmd + 1)
          /\ input.allStages \/ (k \in reach /\ ~IsReplaced(k))
      BY <1>2, <1>4, <2>1, <2>2 DEF Dispatched
    <3>2. i \in Nat
      BY Recipes DEF IInv
    <3>3. CASE k = pos /\ i = cmd
      BY <1>3, <1>6, <3>3
    <3>4. CASE ~(k = pos /\ i = cmd)
      <4>1. k < pos \/ (k = pos /\ i < cmd)
        BY <1>3, <3>1, <3>2, <3>4
      <4>2. Dispatched(k, i)
        BY <3>1, <4>1 DEF Dispatched
      <4> QED BY <1>3, <2>1, <4>2 DEF CommandsAreSound
    <3> QED BY <3>3, <3>4
  <2>3. Current' = Current
    BY <1>2, <2>1 DEF Current
  <2> HIDE DEF c, Current
  <2> QED BY <1>2, <1>3, <1>4, <2>1, <2>2, <2>3 DEF CommandsAreSound
<1> QED BY <1>5, <1>7

\* A command is refused only when its stage has to be built and it cannot be.
LEMMA DispatchFailsVerdict ==
    ASSUME IInv, VerdictInv, ClearVerdict, DispatchFails
    PROVE  VerdictInv' /\ ClearVerdict'
<1> DEFINE c == Dispatching
           s == FromSources[1]
<1>1. /\ AtCommand(Op) /\ phase' = "failed" /\ input' = input
      /\ \/ ~c.ok
         \/ /\ c.op = "COPY"
            /\ c.path = Remote \/ (FromSources # <<>> /\ s \notin noinit)
  BY DEF DispatchFails, Fail
<1> SUFFICES ASSUME IsClear(input) PROVE ~Accepts(input)
  BY <1>1 DEF VerdictInv, ClearVerdict, VerdictIsRight, Underway
<1>2. /\ GraphInv /\ SettledStages /\ Jobs /\ CommandsAreSound /\ Registered = Count /\ phase = "dispatch"
      /\ pos \in 1..Count /\ Count \in Nat
      /\ c \in Commands(input, pos)
      /\ SourcesAre(c, FromSources)
      /\ c.from.by # "none" => s \in Deps(pos)
      /\ c.from.by = "none" \/ FromStage(input, c.from) # 0 \/ FromImage(input, c) \/ FromContext(input, c)
      /\ input.allStages \/ (pos \in reach /\ ~IsReplaced(pos))
      /\ pos \in Built(input)
  BY <1>1, CommandFacts
<1>3. ~Sound(input, pos, c)
  <2>1. ASSUME c.op = "COPY", FromSources # <<>>, s \notin noinit
        PROVE  /\ FromStage(input, c.from) # 0
               /\ ~(FromStage(input, c.from) < pos)
               /\ ~Replaced(input, input.stages[FromStage(input, c.from)])
    <3>1. ~IsTool(c)
      BY <2>1 DEF IsTool
    <3>2. FromSources \in Seq(Id)
      BY <1>1, DispatchFacts DEF IInv
    <3>3. c.from.by # "none" /\ FromIs(c, s)
      BY <1>2, <2>1, <3>1, <3>2 DEF SourcesAre
    <3>4. ~FromContext(input, c)
      BY <2>1, <3>3 DEF FromIs
    <3>5. ~FromImage(input, c)
      BY <1>2, <2>1, <3>3 DEF FromIs, SettledStages
    <3>6. FromStage(input, c.from) # 0 /\ s = FromStage(input, c.from) /\ s <= Count
      BY <1>2, <3>3, <3>4, <3>5 DEF FromIs
    <3>7. s \in Deps(pos) /\ s \in Id
      BY <1>2, <3>3, SourceFacts
    <3>8. s \in 1..Count /\ s # None
      BY <1>2, <3>6, <3>7, Recipes DEF IInv
    <3>9. ~IsReplaced(s) /\ ~Entered(s)
      BY <1>2, <2>1, <3>8 DEF SettledStages
    <3>10. Fetched(s)
      <4> SUFFICES ASSUME ~input.allStages PROVE s \in reach
        BY DEF Fetched
      <4>1. pos \in reach /\ reach = Reachable(target)
        BY <1>2 DEF Jobs
      <4>2. Parents(pos) \subseteq Reachable(target)
        BY <1>2, <4>1, ReachFacts
      <4>3. s \in Parents(pos)
        BY <3>7, <3>8 DEF Parents
      <4> QED BY <4>1, <4>2, <4>3
    <3>11. ~(s < pos)
      BY <1>2, <3>9, <3>10 DEF Entered
    <3> HIDE DEF s
    <3> QED BY <3>6, <3>9, <3>11 DEF IsReplaced
  <2> HIDE DEF c, s
  <2> QED BY <1>1, <2>1 DEF Sound
<1> QED BY <1>2, <1>3 DEF Accepts

\* A conversion that got to its end is one of a recipe that has to be accepted.
LEMMA FinishVerdict ==
    ASSUME IInv, VerdictInv, ClearVerdict, Finish
    PROVE  VerdictInv' /\ ClearVerdict'
<1>1. /\ phase = "dispatch" /\ pos > Len(order) /\ input' = input
      /\ phase' = IF Fails("lint") \/ Fails("context") THEN "failed" ELSE "done"
  BY DEF Finish
<1> SUFFICES ASSUME IsClear(input) PROVE VerdictIsRight'
  BY <1>1 DEF VerdictInv, ClearVerdict, Underway
<1>2. CASE Fails("lint") \/ Fails("context")
  BY <1>1, <1>2 DEF Fails, Accepts, VerdictIsRight
<1>3. CASE ~(Fails("lint") \/ Fails("context"))
  <2>1. phase' = "done"
    BY <1>1, <1>3
  <2>2. GraphInv /\ SettledStages /\ Jobs /\ CommandsAreSound /\ Registered = Count
    BY <1>1, GraphStands
  <2>3. reach = Reachable(target) /\ ~Missing /\ ~Fails("ignore")
    BY <1>1, <2>2 DEF Jobs
  <2>4. /\ input \in Input /\ Count \in Nat /\ Positions(input) = 1..Count
        /\ \A k \in 1..Count : input.stages[k].cmds \in Seq(Command)
    BY Recipes DEF IInv
  <2>5. input.fails = {}
    <3>1. input.fails \subseteq {"ignore", "lint", "context"}
      BY <2>4 DEF Input
    <3> QED BY <1>3, <2>3, <3>1 DEF Fails
  <2>6. input.target = NoName \/ \E k \in 1..Count : input.stages[k].name = input.target
    <3> SUFFICES ASSUME input.target # NoName PROVE \E k \in 1..Count : input.stages[k].name = input.target
      OBVIOUS
    <3>1. target \in 1..Count /\ target = Last(input, input.target, Count + 1)
      BY <2>2 DEF GraphInv, StagesAreStates
    <3>2. Count + 1 \in 1..(Len(input.stages) + 1)
      BY <2>4 DEF Count
    <3>3. target # 0 => input.stages[target].name = input.target
      BY <2>4, <3>1, <3>2, LastFacts
    <3> QED BY <3>1, <3>3
  <2>7. ASSUME NEW k \in 1..Count
        PROVE  /\ Replaced(input, input.stages[k]) => input.stages[k].name \notin input.broken
               /\ FromStages(input, k) \subseteq 1..Count
               /\ Available(input, k)
    <3>1. Replaced(input, input.stages[k]) => input.stages[k].name \notin input.broken
      BY <2>2 DEF GraphInv, StagesAreStates, IsReplaced
    <3>2. FromStages(input, k) \subseteq 1..Count
      BY <2>2, SourceFacts
    <3>3. Available(input, k)
      BY <2>2, <2>3, MissingRefused
    <3> QED BY <3>1, <3>2, <3>3
  <2>8. \A S \in SUBSET (1..Count) : S # {} => \E k \in S : FromStages(input, k) \cap S = {}
    <3>1. ~Circular
      BY <1>1 DEF IInv, LoopsDone
    <3> QED BY <2>2, <2>4, <3>1, CircleIsRefused
  <2>9. ASSUME NEW k \in Built(input), NEW c \in Commands(input, k) PROVE Sound(input, k, c)
    <3>1. k \in Needed(input) /\ (input.allStages \/ ~IsReplaced(k))
      BY DEF Built, IsReplaced
    <3>2. k \in 1..Count /\ (input.allStages \/ k \in reach)
      BY <2>2, <2>3, <3>1, ReachFacts
    <3>3. PICK i \in DOMAIN input.stages[k].cmds : c = input.stages[k].cmds[i]
      BY DEF Commands
    <3>4. i \in 1..Len(input.stages[k].cmds)
      BY <2>4, <3>2
    <3>5. k < pos
      <4>1. Count <= Len(order)
        BY <2>2 DEF GraphInv, StagesAreStates
      <4>2. order \in Seq(Id) /\ pos \in Nat
        BY DEF IInv, TypeOK
      <4> QED BY <1>1, <2>4, <3>2, <4>1, <4>2
    <3>6. Dispatched(k, i)
      BY <3>1, <3>2, <3>5 DEF Dispatched
    <3> QED BY <1>1, <2>2, <3>2, <3>3, <3>4, <3>6 DEF CommandsAreSound
  <2>10. Accepts(input)
    BY <2>4, <2>5, <2>6, <2>7, <2>8, <2>9 DEF Accepts
  <2> QED BY <1>1, <2>1, <2>10 DEF VerdictIsRight
<1> QED BY <1>2, <1>3

LEMMA VerdictNext == IInv /\ VerdictInv /\ ClearVerdict /\ IInv' /\ [Next]_vars => VerdictInv' /\ ClearVerdict'
<1> SUFFICES ASSUME IInv, VerdictInv, ClearVerdict, IInv', [Next]_vars PROVE VerdictInv' /\ ClearVerdict'
  OBVIOUS
<1>1. CASE RegisterStage
  BY <1>1, RegisterStageVerdict
<1>2. CASE SelectTarget
  BY <1>2, SelectTargetVerdict
<1>3. CASE FillCommand
  BY <1>3, FillCommandVerdict
<1>4. CASE FillNextStage
  BY <1>4, FillNextStageVerdict
<1>5. CASE Validate
  BY <1>5, ValidateVerdict
<1>6. CASE StartResolve
  BY <1>6, StartResolveVerdict
<1>7. ASSUME NEW k \in DOMAIN job, ResolveNamed(k) \/ ResolveConfig(k) \/ Cancel(k)
      PROVE  VerdictInv' /\ ClearVerdict'
  BY <1>7, ResolveVerdict
<1>8. CASE FinishResolve
  BY <1>8, FinishResolveVerdict
<1>9. CASE SkipState
  BY <1>9, SkipStateVerdict
<1>10. CASE EnterState
  BY <1>10, EnterStateVerdict
<1>11. CASE LeaveState
  BY <1>11, LeaveStateVerdict
<1>12. CASE DispatchCommand
  BY <1>12, DispatchCommandVerdict
<1>13. CASE DispatchFails
  BY <1>13, DispatchFailsVerdict
<1>14. CASE Finish
  BY <1>14, FinishVerdict
<1>15. CASE UNCHANGED vars
  <2>1. UNCHANGED <<input, phase, pos, cmd, graph, noinit, target, reach, job>>
    BY <1>15 DEF vars, result
  <2>2. SameStates
    BY <2>1 DEF SameStates, Registered, Count, graph
  <2> SUFFICES ASSUME IsClear(input)
               PROVE  (Underway' => (StagesAreStates /\ ImagesAreStates /\ SourcesAreThose /\ SettledStages /\ Jobs /\ CommandsAreSound)')
                      /\ VerdictIsRight'
    BY <2>1 DEF VerdictInv, ClearVerdict
  <2>3. Underway' => StagesAreStates /\ ImagesAreStates /\ SourcesAreThose /\ SettledStages /\ Jobs /\ CommandsAreSound
    BY <2>1 DEF VerdictInv, Underway
  <2>4. /\ StagesAreStates => StagesAreStates'
        /\ ImagesAreStates => ImagesAreStates'
        /\ SourcesAreThose => SourcesAreThose'
        /\ Count' = Count /\ \A k : IsReplaced(k)' <=> IsReplaced(k)
    BY <2>1, <2>2, SameStatesStay
  <2>5. SettledStages => SettledStages'
    <3>1. \A k : Entered(k)' <=> Entered(k)
      BY <2>1 DEF Entered, Fetched
    <3> QED BY <2>1, <2>2, <2>4, <3>1 DEF SettledStages, SameStates
  <2>6. \A e : /\ Resolvable(e)' <=> Resolvable(e)
               /\ IsHad(e)' <=> IsHad(e)
               /\ Fetched(e)' <=> Fetched(e)
    BY <2>1, <2>2, <2>4 DEF SameStates, Resolvable, IsHad, Fetched
  <2>7. Missing' <=> Missing
    BY <2>1, <2>6 DEF Missing, graph
  <2>8. Reachable(target)' = Reachable(target)
    BY <2>2 DEF SameStates, Reachable, Parents, Deps
  <2>9. Jobs => Jobs'
    BY <2>1, <2>6, <2>7, <2>8 DEF Jobs, Fails, graph
  <2>10. CommandsAreSound => CommandsAreSound'
    <3>1. Current' = Current
      BY <2>1 DEF Current, graph
    <3>2. \A k, i : Dispatched(k, i)' <=> Dispatched(k, i)
      BY <2>1, <2>4 DEF Dispatched
    <3> HIDE DEF Current
    <3> QED BY <2>1, <2>4, <3>1, <3>2 DEF CommandsAreSound, graph
  <2>11. VerdictIsRight'
    BY <2>1 DEF ClearVerdict, VerdictIsRight
  <2> QED BY <2>3, <2>4, <2>5, <2>9, <2>10, <2>11
<1> QED
  BY <1>1, <1>2, <1>3, <1>4, <1>5, <1>6, <1>7, <1>8, <1>9, <1>10, <1>11, <1>12, <1>13, <1>14, <1>15
     DEF Next, DispatchCommand, DispatchTool

\* A conversion fails exactly on the recipes that must be refused: whichever of
\* the loops of toDispatchState or of the goroutines meets the error, in stages
\* of the target or in others; of the recipes that IsClear describes.
THEOREM VerdictIsRightHolds == Spec => [](IsClear(input) => VerdictIsRight)
<1>1. Init => IInv /\ VerdictInv /\ ClearVerdict
  <2>1. Init => ClearVerdict
    BY DEF Init, ClearVerdict, VerdictIsRight
  <2> QED BY <2>1, InitIInv, InitVerdict
<1>2. IInv /\ VerdictInv /\ ClearVerdict /\ [Next]_vars => (IInv /\ VerdictInv /\ ClearVerdict)'
  BY NextIInv, VerdictNext
<1>3. ClearVerdict => (IsClear(input) => VerdictIsRight)
  BY DEF ClearVerdict
<1> QED BY <1>1, <1>2, <1>3, PTL DEF Spec

-----------------------------------------------------------------------------
\* What the image holds.

\* Commands read what they name: --from only where the parser knows it, no COPY
\* from the build context by its name, no stage of that name, and no tool that
\* reads a stage which comes later.
IsPlain(in) ==
    \A k \in Positions(in) :
        /\ in.stages[k].name # Context
        /\ \A c \in Commands(in, k) :
             /\ c.op \in {"ADD", "CAT", "LABEL"} => c.from = FromNothing
             /\ c.op = "COPY" => ~FromContext(in, c)
             /\ IsTool(c) /\ FromStage(in, c.from) # 0 =>
                  FromStage(in, c.from) < k \/ Replaced(in, in.stages[FromStage(in, c.from)])

IsPlainBuild == IsClear(input) /\ IsPlain(input) /\ ~input.allStages

\* What a stage holds after the first m commands, if others hold what `held` says.
HeldBase(in, held, k) ==
    IF BaseStage(in, k) # 0 THEN held[BaseStage(in, k)] ELSE ImageContent(in, in.stages[k].image)
HeldRead(in, held, c) ==
    CASE FromStage(in, c.from) # 0 -> held[FromStage(in, c.from)]
      [] FromImage(in, c)          -> ImageContent(in, c.from.name)
      [] FromContext(in, c)        -> {<<"context">>}
      [] c.from = FromNothing /\ c.op \in {"ADD", "COPY"} /\ c.path # Remote -> {<<"context">>}
      [] OTHER -> {}
HeldAdd(in, held, k, i) ==
    LET c == in.stages[k].cmds[i] IN
    IF c.op = "LABEL" THEN {}
    ELSE {<<"op", k, i>>} \cup HeldRead(in, held, c)
           \cup (IF IsTool(c) THEN ImageContent(in, ToolImage(c)) ELSE {})
Held(in, held, k, m) == HeldBase(in, held, k) \cup UNION {HeldAdd(in, held, k, i) : i \in 1..m}

Size(k) == Len(input.stages[k].cmds)
Given(d) == IF d \in 1..Registered /\ IsReplaced(d) THEN {<<"local", input.stages[d].name>>} ELSE {}
IsLoaded(d) == fs[d] = ImageContent(input, stage[d].image)
SomeFailed == \E j \in 1..Len(job) : job[j] = "failed"
IsOpened(d) == d \in 1..Count /\ Entered(d) /\ ~IsReplaced(d)

ContentsKept ==
    /\ phase \in {"register", "fill"} => \A d \in Id : fs[d] = Given(d)
    /\ phase = "resolve" =>
         /\ \A d \in Id : fs[d] = Given(d) \/ (Resolvable(d) /\ IsLoaded(d))
         /\ \A k \in 1..Len(job) : job[k] = "ok" /\ Resolvable(order[k]) => IsLoaded(order[k]) \/ SomeFailed
         /\ \A d \in noinit : Resolvable(d) => IsLoaded(d) \/ SomeFailed
    /\ phase = "dispatch" =>
         /\ \A d \in Id : ~IsOpened(d) =>
              fs[d] = IF Resolvable(d) THEN ImageContent(input, stage[d].image) ELSE Given(d)
         /\ cmd > 0 => cmd - 1 <= Len(stage[Current].cmds)
         /\ \A k \in 1..Count : IsOpened(k) => fs[k] = Held(input, fs, k, IF k < pos THEN Size(k) ELSE cmd - 1)

\* The images that were asked for, and those of the states that are reached.
FetchesKept ==
    /\ phase \in {"register", "fill"} => reach = {} /\ fetched = {}
    /\ \A d \in reach : \A x \in Name : <<"image", x>> \in fs[d] => x \in fetched
    /\ \A x \in fetched : \E d \in reach : Resolvable(d) /\ stage[d].image = x /\ x \notin input.named

PathsKept ==
    /\ \A d \in Id : ~IsOpened(d) => pathsOf[d] = d
    /\ \A k \in 1..Count : IsOpened(k) => pathsOf[k] = IF base[k] = None THEN k ELSE pathsOf[base[k]]
    /\ phase = "dispatch" =>
         \A k \in 1..Count : \A i \in 1..Size(k) :
            Dispatched(k, i) /\ input.stages[k].cmds[i].op = "COPY" /\ srcs[k][i] # <<>> =>
                input.stages[k].cmds[i].path \in paths[pathsOf[srcs[k][i][1]]]

\* Of the states that are no stages, those that are listed stand for images.
ContextNames ==
    IsClear(input) /\ Underway /\ phase # "register" =>
        \A d \in Id : d > Count /\ d <= n => (stage[d].name = Context <=> d \notin implicit)

ContentInv == IsPlainBuild /\ Underway => ContentsKept /\ FetchesKept /\ PathsKept
PlainMeaning == IsPlainBuild => Meaning /\ FetchedAsNeeded /\ NamedContextCovered

LEMMA InitContents == Init => ContentInv
<1> SUFFICES ASSUME Init, IsPlainBuild PROVE ContentsKept /\ FetchesKept /\ PathsKept
  BY DEF ContentInv
<1>1. /\ phase = "register" /\ n = 0 /\ reach = {} /\ fetched = {}
      /\ fs = [d \in Id |-> {}] /\ pathsOf = [d \in Id |-> d]
  BY DEF Init
<1>2. \A k : ~IsOpened(k)
  BY <1>1 DEF IsOpened, Entered
<1>3. \A d \in Id : Given(d) = {}
  BY <1>1 DEF Given, Registered
<1> QED BY <1>1, <1>2, <1>3 DEF ContentsKept, FetchesKept, PathsKept

LEMMA RegisterStageContents ==
    ASSUME IInv, VerdictInv, ContentInv, RegisterStage
    PROVE  ContentInv'
<1>1. phase = "register" /\ pos <= Count /\ UNCHANGED <<input, pathsOf, reach, fetched>>
  BY DEF RegisterStage, Count
<1> SUFFICES ASSUME IsPlainBuild, Underway' PROVE (ContentsKept /\ FetchesKept /\ PathsKept)'
  BY <1>1 DEF ContentInv, IsPlainBuild
<1>2. ContentsKept /\ FetchesKept /\ PathsKept
  BY <1>1 DEF ContentInv, Underway
<1>3. n = pos - 1 /\ n \in Nat /\ Registered = n /\ pos \in Nat /\ pos > 0 /\ pos \in 1..Count /\ pos \in Id
  BY <1>1, Registering, Recipes DEF IInv, IsPlainBuild
<1>4. fs \in [Id -> SUBSET Vertex(Id)]
  BY DEF IInv, TypeOK
<1>5. ~(IsReplaced(pos) /\ input.stages[pos].name \in input.broken)
  BY DEF RegisterStage, Fail, IsReplaced, Underway
<1>6. /\ n' = pos /\ phase' = "register"
      /\ fs' = IF IsReplaced(pos) THEN [fs EXCEPT ![pos] = {<<"local", input.stages[pos].name>>}] ELSE fs
  BY <1>1, <1>5 DEF RegisterStage, IsReplaced
<1>7. Registered' = pos /\ \A k : IsReplaced(k)' <=> IsReplaced(k)
  BY <1>1, <1>6 DEF Registered, IsReplaced
<1>8. ASSUME NEW d \in Id PROVE fs'[d] = Given(d)'
  <2>1. fs[d] = Given(d)
    BY <1>1, <1>2 DEF ContentsKept
  <2>2. d \in 1..pos <=> d \in 1..n \/ d = pos
    BY <1>3
  <2>3. CASE d = pos
    <3>1. pos \notin 1..n /\ pos \in 1..pos
      BY <1>3
    <3>2. Given(d) = {}
      BY <1>3, <2>3, <3>1 DEF Given
    <3> QED BY <1>1, <1>3, <1>4, <1>6, <1>7, <2>1, <2>3, <3>1, <3>2 DEF Given
  <2>4. CASE d # pos
    <3>1. fs'[d] = fs[d]
      BY <1>3, <1>4, <1>6, <2>4
    <3>2. Given(d)' = Given(d)
      BY <1>1, <1>3, <1>7, <2>2, <2>4 DEF Given
    <3> QED BY <2>1, <3>1, <3>2
  <2> QED BY <2>3, <2>4
<1>9. \A k : ~IsOpened(k) /\ ~IsOpened(k)'
  BY <1>1, <1>6 DEF IsOpened, Entered
<1> QED BY <1>1, <1>2, <1>6, <1>8, <1>9 DEF ContentsKept, FetchesKept, PathsKept

\* A step that neither resolves nor dispatches.
LEMMA EarlyContents ==
    ASSUME ContentInv, phase \in {"register", "fill"}, phase' \in {"register", "fill", "failed"},
           UNCHANGED <<input, fs, pathsOf, reach, fetched>>, Registered' = Registered
    PROVE  ContentInv'
<1> SUFFICES ASSUME IsPlainBuild, Underway' PROVE (ContentsKept /\ FetchesKept /\ PathsKept)'
  BY DEF ContentInv, IsPlainBuild
<1>1. ContentsKept /\ FetchesKept /\ PathsKept
  BY DEF ContentInv, Underway
<1>2. \A d : Given(d)' = Given(d)
  BY DEF Given, IsReplaced
<1>3. \A k : ~IsOpened(k) /\ ~IsOpened(k)'
  BY DEF IsOpened, Entered, Underway
<1>4. phase' \in {"register", "fill"}
  BY DEF Underway
<1> QED BY <1>1, <1>2, <1>3, <1>4 DEF ContentsKept, FetchesKept, PathsKept

LEMMA FillContents ==
    ASSUME IInv, VerdictInv, ContentInv, SelectTarget \/ FillCommand \/ FillNextStage
    PROVE  ContentInv'
<1>1. /\ phase \in {"register", "fill"} /\ phase' \in {"fill", "failed"}
      /\ UNCHANGED <<input, fs, pathsOf, reach, fetched>>
  BY DEF SelectTarget, FillCommand, FillNextStage, Fail, result
<1> SUFFICES ASSUME IsPlainBuild PROVE Registered' = Registered
  BY <1>1, EarlyContents DEF ContentInv, IsPlainBuild
<1>2. Count' = Count
  BY <1>1 DEF Count
<1>3. CASE SelectTarget
  <2>1. pos > Count /\ phase = "register"
    BY <1>3 DEF SelectTarget, Count
  <2>2. n = pos - 1 /\ n \in 0..Count /\ pos \in Nat /\ Count \in Nat /\ Registered = n
    BY <2>1, Registering, Recipes DEF IsPlainBuild, IInv
  <2>3. Registered = Count
    BY <2>1, <2>2
  <2> QED BY <1>1, <1>2, <2>3 DEF Registered
<1>4. CASE phase = "fill"
  BY <1>1, <1>2, <1>4 DEF Registered
<1> QED BY <1>3, <1>4 DEF FillCommand, FillNextStage

LEMMA ValidateContents ==
    ASSUME IInv, VerdictInv, ContentInv, Validate
    PROVE  ContentInv'
<1>1. /\ phase = "fill" /\ UNCHANGED <<input, graph, result, target, job, fetched>>
      /\ phase' \in {"resolve", "failed"}
  BY DEF Validate, Fail
<1> SUFFICES ASSUME IsPlainBuild, Underway' PROVE (ContentsKept /\ FetchesKept /\ PathsKept)'
  BY <1>1 DEF ContentInv, IsPlainBuild
<1>2. phase' = "resolve"
  BY <1>1 DEF Underway
<1>3. ContentsKept /\ FetchesKept /\ PathsKept
  BY <1>1 DEF ContentInv, Underway
<1>4. ImagesAreStates /\ SettledStages
  BY <1>1 DEF VerdictInv, Underway, IsPlainBuild
<1>5. job' = <<>>
  BY <1>1 DEF IInv, LoopsDone
<1>6. Registered' = Registered /\ Registered = Count /\ Count' = Count /\ Count \in Nat
  BY <1>1, <1>2, Recipes DEF Registered, Count, graph, IInv
<1>7. \A d : Given(d)' = Given(d)
  BY <1>1, <1>6 DEF Given, IsReplaced
<1>8. \A d \in Id : fs'[d] = Given(d)'
  BY <1>1, <1>3, <1>7 DEF ContentsKept, result
<1>9. \A d \in noinit' : ~Resolvable(d)'
  <2> SUFFICES ASSUME NEW d \in noinit, Resolvable(d)' PROVE FALSE
    BY <1>1 DEF result
  <2>1. d \in implicit \/ (d \in 1..Count /\ ~IsReplaced(d))
    BY <1>1 DEF Resolvable, IsReplaced, Count, graph
  <2>2. d \notin implicit
    BY <1>1, <1>4 DEF SettledStages
  <2> QED BY <1>1, <1>4, <2>1, <2>2 DEF SettledStages, Entered
<1>10. \A k : ~IsOpened(k) /\ ~IsOpened(k)'
  BY <1>1, <1>2 DEF IsOpened, Entered
<1>11. ContentsKept'
  BY <1>2, <1>5, <1>8, <1>9 DEF ContentsKept
<1>12. FetchesKept'
  <2>1. ASSUME NEW d \in reach', NEW x \in Name PROVE <<"image", x>> \notin fs'[d]
    <3>1. d \in Id
      <4>1. reach' = Reachable(target)
        BY <1>1, <1>2 DEF Validate, Fail
      <4> QED BY <4>1 DEF Reachable
    <3>2. \A y : <<"image", x>> # <<"local", y>>
      OBVIOUS
    <3> QED BY <1>8, <3>1, <3>2 DEF Given
  <2>2. fetched' = {}
    BY <1>1, <1>3 DEF FetchesKept
  <2> QED BY <1>2, <2>1, <2>2 DEF FetchesKept
<1>13. PathsKept'
  <2>1. pathsOf' = pathsOf
    BY <1>1 DEF result
  <2> QED BY <1>2, <1>3, <1>10, <2>1 DEF PathsKept
<1> QED BY <1>11, <1>12, <1>13

\* While images are resolved, the stages keep what they were given.
LEMMA ResolveKeeps ==
    ASSUME ResolveStep, PathsKept, pathsOf' = pathsOf
    PROVE  /\ PathsKept'
           /\ \A d : Given(d)' = Given(d) /\ (fs' = fs => (IsLoaded(d)' <=> IsLoaded(d)))
<1>1. \A k : ~IsOpened(k) /\ ~IsOpened(k)'
  BY DEF ResolveStep, IsOpened, Entered
<1>2. PathsKept'
  BY <1>1 DEF PathsKept, ResolveStep
<1>3. UNCHANGED <<input, stage>> /\ Registered' = Registered
  BY DEF ResolveStep, graph, Registered, Count
<1> QED BY <1>2, <1>3 DEF Given, IsLoaded, IsReplaced

LEMMA StartResolveContents ==
    ASSUME IInv, VerdictInv, ContentInv, StartResolve
    PROVE  ContentInv'
<1>1. /\ ResolveStep /\ pos <= Len(order) /\ phase = "resolve" /\ phase' = "resolve"
      /\ UNCHANGED <<input, order, stage, fs, pathsOf, fetched, reach>>
  BY DEF StartResolve, ResolveStep, graph
<1> SUFFICES ASSUME IsPlainBuild PROVE (ContentsKept /\ FetchesKept /\ PathsKept)'
  BY <1>1 DEF ContentInv, IsPlainBuild
<1>2. IsClear(input) /\ ContentsKept /\ FetchesKept /\ PathsKept
  BY <1>1 DEF ContentInv, Underway, IsPlainBuild
<1>3. PICK d : d = order[pos]
  OBVIOUS
<1>4. PICK x : x = IF (base[d] = None /\ d \notin noinit) /\ ~(stage[d].image = Scratch) THEN "named" ELSE "ok"
  OBVIOUS
<1>5. /\ job' = Append(job, x)
      /\ noinit' = noinit \cup (IF (base[d] = None /\ d \notin noinit) /\ stage[d].image = Scratch THEN Settled(d) ELSE {})
  BY <1>3, <1>4 DEF StartResolve
<1>6. /\ job \in Seq({"named", "config", "ok", "failed"}) /\ order \in Seq(Id) /\ pos \in Nat \ {0}
      /\ Len(job) = pos - 1
  BY <1>1 DEF IInv, TypeOK, LoopsDone
<1>7. pos \in 1..Len(order) /\ d \in Id /\ Len(job) \in Nat /\ x \in {"named", "ok"}
  BY <1>1, <1>3, <1>4, <1>6
<1>8. /\ \A e : Resolvable(e)' <=> Resolvable(e)
      /\ noinit \subseteq noinit' /\ noinit' \subseteq noinit \cup ({d} \cap implicit)
  <2>1. noinit' = noinit \/ noinit' = noinit \cup Settled(d)
    BY <1>5
  <2> QED BY <1>1, <1>2, <1>7, <2>1, ResolveStays
<1>9. Len(job') = Len(job) + 1 /\ job'[pos] = x /\ \A k \in 1..Len(job) : job'[k] = job[k]
  BY <1>5, <1>6, <1>7
<1>10. SomeFailed => SomeFailed'
  BY <1>6, <1>7, <1>9 DEF SomeFailed
<1>11. /\ PathsKept'
       /\ \A e : Given(e)' = Given(e) /\ (IsLoaded(e)' <=> IsLoaded(e))
  BY <1>1, <1>2, ResolveKeeps
<1>12. \A e \in noinit : Resolvable(e) => IsLoaded(e) \/ SomeFailed
  BY <1>1, <1>2 DEF ContentsKept
<1>13. \A e \in noinit' : Resolvable(e) => IsLoaded(e) \/ SomeFailed
  <2> SUFFICES ASSUME NEW e \in noinit', e \notin noinit PROVE ~Resolvable(e)
    BY <1>12
  <2>1. e = d /\ stage[d].image = Scratch
    BY <1>5, <1>8
  <2> QED BY <2>1 DEF Resolvable
<1>14. ASSUME NEW k \in 1..Len(job'), NEW e, e = order[k], job'[k] = "ok", Resolvable(e)
       PROVE  IsLoaded(e) \/ SomeFailed
  <2>1. CASE k = pos
    <3>1. e = d /\ x = "ok"
      BY <1>3, <1>9, <1>14, <2>1
    <3>2. d \in noinit
      BY <1>4, <1>14, <3>1 DEF Resolvable
    <3> QED BY <1>12, <1>14, <3>1, <3>2
  <2>2. CASE k # pos
    <3>1. k \in 1..Len(job) /\ job[k] = "ok"
      BY <1>6, <1>7, <1>9, <1>14, <2>2
    <3> QED BY <1>1, <1>2, <1>14, <3>1 DEF ContentsKept
  <2> QED BY <2>1, <2>2
<1>15. ContentsKept'
  <2>1. \A e \in Id : fs'[e] = Given(e)' \/ (Resolvable(e)' /\ IsLoaded(e)')
    BY <1>1, <1>2, <1>8, <1>11 DEF ContentsKept
  <2>2. ASSUME NEW k \in 1..Len(job'), NEW e, e = order'[k], job'[k] = "ok", Resolvable(e)'
        PROVE  IsLoaded(e)' \/ SomeFailed'
    <3>1. e = order[k] /\ Resolvable(e)
      BY <1>1, <1>8, <2>2
    <3>2. IsLoaded(e) \/ SomeFailed
      BY <1>14, <2>2, <3>1
    <3> QED BY <1>10, <1>11, <3>2
  <2>3. \A e \in noinit' : Resolvable(e)' => IsLoaded(e)' \/ SomeFailed'
    BY <1>8, <1>10, <1>11, <1>13
  <2> QED BY <1>1, <2>1, <2>2, <2>3 DEF ContentsKept
<1>16. FetchesKept'
  <2>1. \A d1 \in reach : \A y \in Name : <<"image", y>> \in fs[d1] => y \in fetched
    BY <1>2 DEF FetchesKept
  <2>2. \A y \in fetched : \E d1 \in reach : Resolvable(d1) /\ stage[d1].image = y /\ y \notin input.named
    BY <1>2 DEF FetchesKept
  <2> QED BY <1>1, <1>8, <2>1, <2>2 DEF FetchesKept
<1> QED BY <1>11, <1>15, <1>16

\* A goroutine that ends well leaves the image, and asks for its config when
\* the target reaches the state.
LEMMA JobContents ==
    ASSUME IInv, VerdictInv, ContentInv, IsPlainBuild, ResolveStep, pathsOf' = pathsOf,
           NEW k \in DOMAIN job, NEW d, d = order[k], NEW y, y = stage[d].image,
           NEW x \in {"config", "ok", "failed"},
           job[k] \in {"named", "config"},
           job' = [job EXCEPT ![k] = x],
           noinit' = IF x = "config" THEN noinit ELSE noinit \cup Settled(d),
           fs' = IF x = "ok" THEN [fs EXCEPT ![d] = ImageContent(input, y)] ELSE fs,
           fetched' = fetched \/ (fetched' = fetched \cup {y} /\ d \in reach /\ y \notin input.named),
           x = "ok" /\ y \notin input.named /\ d \in reach => y \in fetched'
    PROVE  (ContentsKept /\ FetchesKept /\ PathsKept)'
<1>1. /\ phase = "resolve" /\ phase' = "resolve"
      /\ UNCHANGED <<input, order, stage, pathsOf, reach>>
  BY DEF ResolveStep, graph
<1>2. IsClear(input) /\ ContentsKept /\ FetchesKept /\ PathsKept
  BY <1>1 DEF ContentInv, Underway, IsPlainBuild
<1>3. /\ job \in Seq({"named", "config", "ok", "failed"}) /\ order \in Seq(Id)
      /\ Len(job) <= Len(order) /\ fs \in [Id -> SUBSET Vertex(Id)] /\ reach \subseteq Id
  BY <1>1 DEF IInv, TypeOK, LoopsDone
<1>4. k \in 1..Len(job) /\ d \in Id /\ Len(job) \in Nat
  BY <1>3
<1>5. /\ \A e : Resolvable(e)' <=> Resolvable(e)
      /\ noinit \subseteq noinit' /\ noinit' \subseteq noinit \cup ({d} \cap implicit)
  <2>1. noinit' = noinit \/ noinit' = noinit \cup Settled(d)
    OBVIOUS
  <2> QED BY <1>2, <1>4, <2>1, ResolveStays
<1>6. Len(job') = Len(job) /\ job'[k] = x /\ \A i \in 1..Len(job) : i # k => job'[i] = job[i]
  BY <1>3, <1>4
<1>7. Resolvable(d)
  <2>1. Jobs
    BY <1>1, <1>2 DEF VerdictInv, Underway
  <2> QED BY <1>1, <1>4, <2>1 DEF Jobs
<1>8. /\ PathsKept' /\ UNCHANGED <<input, stage>>
      /\ \A e : Given(e)' = Given(e)
  BY <1>1, <1>2, ResolveKeeps
<1>9. /\ \A e \in Id : e # d => fs'[e] = fs[e]
      /\ x = "ok" => fs'[d] = ImageContent(input, y)
      /\ x # "ok" => fs' = fs
  BY <1>3, <1>4
<1>10. /\ x = "ok" => IsLoaded(d)'
       /\ \A e \in Id : IsLoaded(e) => IsLoaded(e)'
  <2>1. x = "ok" => IsLoaded(d)'
    BY <1>8, <1>9 DEF IsLoaded
  <2>2. ASSUME NEW e \in Id, IsLoaded(e) PROVE IsLoaded(e)'
    <3>1. CASE e = d /\ x = "ok"
      BY <2>1, <3>1
    <3>2. CASE ~(e = d /\ x = "ok")
      <4>1. fs'[e] = fs[e]
        BY <1>9, <2>2, <3>2
      <4> QED BY <1>8, <2>2, <4>1 DEF IsLoaded
    <3> QED BY <3>1, <3>2
  <2> QED BY <2>1, <2>2
<1>11. (SomeFailed => SomeFailed') /\ (x = "failed" => SomeFailed')
  <2>1. ASSUME NEW j \in 1..Len(job), job[j] = "failed" PROVE SomeFailed'
    <3>1. j # k
      BY <2>1
    <3> QED BY <1>6, <2>1, <3>1 DEF SomeFailed
  <2> QED BY <1>4, <1>6, <2>1 DEF SomeFailed
<1>12. noinit' \subseteq Id
  <2>1. noinit \subseteq Id
    BY DEF IInv, TypeOK
  <2> QED BY <1>4, <1>5, <2>1
<1>13. ContentsKept'
  <2>1. ASSUME NEW e \in Id PROVE fs'[e] = Given(e)' \/ (Resolvable(e)' /\ IsLoaded(e)')
    <3>1. CASE e = d /\ x = "ok"
      BY <1>5, <1>7, <1>10, <3>1
    <3>2. CASE ~(e = d /\ x = "ok")
      <4>1. fs'[e] = fs[e]
        BY <1>9, <3>2
      <4>2. fs[e] = Given(e) \/ (Resolvable(e) /\ IsLoaded(e))
        BY <1>1, <1>2 DEF ContentsKept
      <4> QED BY <1>5, <1>8, <1>10, <4>1, <4>2
    <3> QED BY <3>1, <3>2
  <2>2. ASSUME NEW i \in 1..Len(job'), NEW e, e = order'[i], job'[i] = "ok", Resolvable(e)'
        PROVE  IsLoaded(e)' \/ SomeFailed'
    <3>1. CASE i = k
      <4>1. e = d /\ x = "ok"
        BY <1>1, <1>6, <2>2, <3>1
      <4> QED BY <1>10, <4>1
    <3>2. CASE i # k
      <4>1. i \in 1..Len(job) /\ job[i] = "ok" /\ e = order[i] /\ Resolvable(e)
        BY <1>1, <1>5, <1>6, <2>2, <3>2
      <4>2. IsLoaded(e) \/ SomeFailed
        BY <1>1, <1>2, <4>1 DEF ContentsKept
      <4>3. e \in Id
        BY <1>3, <4>1
      <4> QED BY <1>10, <1>11, <4>2, <4>3
    <3> QED BY <3>1, <3>2
  <2>3. ASSUME NEW e \in noinit', Resolvable(e)' PROVE IsLoaded(e)' \/ SomeFailed'
    <3>1. CASE e \in noinit
      <4>1. IsLoaded(e) \/ SomeFailed
        BY <1>1, <1>2, <1>5, <2>3, <3>1 DEF ContentsKept
      <4> QED BY <1>10, <1>11, <1>12, <4>1
    <3>2. CASE e \notin noinit
      <4>1. e = d /\ x # "config"
        BY <1>5, <3>2
      <4> QED BY <1>10, <1>11, <4>1
    <3> QED BY <3>1, <3>2
  <2> QED BY <1>1, <2>1, <2>2, <2>3 DEF ContentsKept
<1>14. FetchesKept'
  <2>1. fetched \subseteq fetched'
    OBVIOUS
  <2>2. ASSUME NEW e \in reach, NEW z \in Name, <<"image", z>> \in fs'[e] PROVE z \in fetched'
    <3>1. CASE e = d /\ x = "ok"
      <4>1. <<"image", z>> \in ImageContent(input, y)
        BY <1>9, <2>2, <3>1
      <4>2. z = y /\ y \notin input.named
        BY <4>1 DEF ImageContent
      <4> QED BY <2>2, <3>1, <4>2
    <3>2. CASE ~(e = d /\ x = "ok")
      <4>1. fs'[e] = fs[e]
        BY <1>3, <1>9, <3>2
      <4> QED BY <1>2, <2>1, <2>2, <4>1 DEF FetchesKept
    <3> QED BY <3>1, <3>2
  <2>3. ASSUME NEW z \in fetched' PROVE \E e \in reach : Resolvable(e) /\ stage[e].image = z /\ z \notin input.named
    <3>1. CASE z \in fetched
      BY <1>2, <3>1 DEF FetchesKept
    <3>2. CASE z \notin fetched
      <4>1. z = y /\ d \in reach /\ y \notin input.named
        BY <3>2
      <4> QED BY <1>7, <4>1
    <3> QED BY <3>1, <3>2
  <2> QED BY <1>1, <1>5, <2>2, <2>3 DEF FetchesKept
<1> QED BY <1>8, <1>13, <1>14

LEMMA ResolveContents ==
    ASSUME IInv, VerdictInv, ContentInv,
           NEW k \in DOMAIN job, ResolveNamed(k) \/ ResolveConfig(k) \/ Cancel(k)
    PROVE  ContentInv'
<1>1. ResolveStep /\ job[k] \in {"named", "config"} /\ phase = "resolve" /\ pathsOf' = pathsOf /\ input' = input
  BY DEF ResolveNamed, ResolveConfig, Cancel, ResolveStep
<1> SUFFICES ASSUME IsPlainBuild PROVE (ContentsKept /\ FetchesKept /\ PathsKept)'
  BY <1>1 DEF ContentInv, IsPlainBuild
<1>2. PICK d : d = order[k]
  OBVIOUS
<1>3. PICK y : y = stage[d].image
  OBVIOUS
<1>4. Jobs /\ ~input.allStages
  BY <1>1 DEF VerdictInv, Underway, IsPlainBuild
<1>5. k \in 1..Len(job)
  BY DEF IInv, TypeOK
<1>6. Resolvable(d) /\ (job[k] = "config" => y \notin input.named /\ d \in reach)
  BY <1>1, <1>2, <1>3, <1>4, <1>5 DEF Jobs, Fetched
<1>7. ImageContent(input, y) = {<<IF y \in input.named THEN "local" ELSE "image", y>>}
  BY <1>3, <1>6 DEF Resolvable, ImageContent
<1>8. \A kind : Ends(k, kind) => /\ job' = [job EXCEPT ![k] = "ok"] /\ noinit' = noinit \cup Settled(d)
                                 /\ fs' = [fs EXCEPT ![d] = {<<kind, y>>}]
  BY <1>2, <1>3 DEF Ends
<1>9. Breaks(k) => job' = [job EXCEPT ![k] = "failed"] /\ noinit' = noinit \cup Settled(d) /\ fs' = fs
  BY <1>2 DEF Breaks
<1>10. \E x \in {"config", "ok", "failed"} :
        /\ job' = [job EXCEPT ![k] = x]
        /\ noinit' = IF x = "config" THEN noinit ELSE noinit \cup Settled(d)
        /\ fs' = IF x = "ok" THEN [fs EXCEPT ![d] = ImageContent(input, y)] ELSE fs
        /\ fetched' = fetched \/ (fetched' = fetched \cup {y} /\ d \in reach /\ y \notin input.named)
        /\ x = "ok" /\ y \notin input.named /\ d \in reach => y \in fetched'
  <2>1. CASE ResolveNamed(k)
    <3>0. fetched' = fetched
      BY <2>1 DEF ResolveNamed
    <3>1. CASE y \in input.named /\ y \in input.broken
      <4>1. Breaks(k)
        BY <1>2, <1>3, <2>1, <3>1 DEF ResolveNamed
      <4> QED BY <1>9, <3>0, <4>1
    <3>2. CASE y \in input.named /\ y \notin input.broken
      <4>1. Ends(k, "local")
        BY <1>2, <1>3, <2>1, <3>2 DEF ResolveNamed
      <4> QED BY <1>7, <1>8, <3>0, <3>2, <4>1
    <3>3. CASE y \notin input.named /\ d \notin reach
      <4>1. Ends(k, "image")
        BY <1>2, <1>3, <1>4, <2>1, <3>3 DEF ResolveNamed
      <4> QED BY <1>7, <1>8, <3>0, <3>3, <4>1
    <3>4. CASE y \notin input.named /\ d \in reach
      <4>1. job' = [job EXCEPT ![k] = "config"] /\ UNCHANGED <<fs, noinit>>
        BY <1>2, <1>3, <1>4, <2>1, <3>4 DEF ResolveNamed
      <4> QED BY <3>0, <4>1
    <3> QED BY <3>1, <3>2, <3>3, <3>4
  <2>2. CASE ResolveConfig(k)
    <3>1. y \notin input.named /\ d \in reach /\ fetched' = fetched \cup {y}
      BY <1>2, <1>3, <1>6, <2>2 DEF ResolveConfig
    <3>2. CASE y \in input.broken
      <4>1. Breaks(k)
        BY <1>2, <1>3, <2>2, <3>2 DEF ResolveConfig
      <4> QED BY <1>9, <3>1, <4>1
    <3>3. CASE y \notin input.broken
      <4>1. Ends(k, "image")
        BY <1>2, <1>3, <2>2, <3>3 DEF ResolveConfig
      <4> QED BY <1>7, <1>8, <3>1, <4>1
    <3> QED BY <3>2, <3>3
  <2>3. CASE Cancel(k)
    <3>1. Breaks(k) /\ fetched' = fetched
      BY <2>3 DEF Cancel
    <3> QED BY <1>9, <3>1
  <2> QED BY <2>1, <2>2, <2>3
<1>11. PICK x \in {"config", "ok", "failed"} :
        /\ job' = [job EXCEPT ![k] = x]
        /\ noinit' = IF x = "config" THEN noinit ELSE noinit \cup Settled(d)
        /\ fs' = IF x = "ok" THEN [fs EXCEPT ![d] = ImageContent(input, y)] ELSE fs
        /\ fetched' = fetched \/ (fetched' = fetched \cup {y} /\ d \in reach /\ y \notin input.named)
        /\ x = "ok" /\ y \notin input.named /\ d \in reach => y \in fetched'
  BY <1>10
<1> QED BY <1>1, <1>2, <1>3, <1>11, JobContents

\* When all goroutines ended well, every image is there.
LEMMA FinishResolveContents ==
    ASSUME IInv, VerdictInv, ContentInv, FinishResolve
    PROVE  ContentInv'
<1>1. /\ phase = "resolve" /\ pos > Len(order) /\ pos' = 1
      /\ \A k \in DOMAIN job : job[k] \in {"ok", "failed"}
      /\ IF Fails("ignore") \/ \E k \in DOMAIN job : job[k] = "failed" THEN phase' = "failed" ELSE phase' = "dispatch"
      /\ UNCHANGED <<input, cmd, graph, fs, pathsOf, reach, fetched, job>>
  BY DEF FinishResolve, Fail, result
<1> SUFFICES ASSUME IsPlainBuild, Underway' PROVE (ContentsKept /\ FetchesKept /\ PathsKept)'
  BY <1>1 DEF ContentInv, IsPlainBuild
<1>2. IsClear(input) /\ ContentsKept /\ FetchesKept /\ PathsKept
  BY <1>1 DEF ContentInv, Underway, IsPlainBuild
<1>3. /\ job \in Seq({"named", "config", "ok", "failed"}) /\ order \in Seq(Id)
      /\ DOMAIN job = 1..Len(job) /\ Len(order) \in Nat /\ Len(job) \in Nat /\ pos \in Nat
  BY DEF IInv, TypeOK
<1>4. Len(job) = Len(order) /\ cmd = 0
  <2>1. Len(job) = pos - 1 /\ Len(job) <= Len(order) /\ cmd = 0
    BY <1>1 DEF IInv, LoopsDone
  <2> QED BY <1>1, <1>3, <2>1
<1>5. phase' = "dispatch" /\ ~\E k \in DOMAIN job : job[k] = "failed"
  BY <1>1 DEF Underway
<1>6. ~SomeFailed /\ \A k \in 1..Len(order) : k \in 1..Len(job) /\ job[k] = "ok"
  BY <1>1, <1>3, <1>4, <1>5 DEF SomeFailed
<1>7. GraphInv /\ Registered = Count
  BY <1>1, <1>2, GraphStands
<1>8. /\ Count \in Nat /\ Count' = Count /\ Registered' = Registered /\ \A k : IsReplaced(k)' <=> IsReplaced(k)
      /\ UNCHANGED <<input, stage, base, implicit>>
  <2>1. Count' = Count /\ UNCHANGED <<input, stage, base, implicit>>
    BY <1>1 DEF Count, graph
  <2>2. Registered' = Count
    BY <1>5, <2>1 DEF Registered
  <2>3. Count \in Nat
    BY Recipes DEF IInv
  <2> QED BY <1>7, <2>1, <2>2, <2>3 DEF IsReplaced
<1>9. \A e : (Resolvable(e)' <=> Resolvable(e)) /\ Given(e)' = Given(e)
  BY <1>8 DEF Resolvable, Given
<1>10. \A k : ~IsOpened(k) /\ ~IsOpened(k)'
  <2>1. \A k \in 1..Count : ~(k < 1)
    BY <1>8
  <2> QED BY <1>1, <1>4, <1>8, <2>1 DEF IsOpened, Entered
<1>11. ASSUME NEW d \in Id, Resolvable(d) PROVE IsLoaded(d)
  <2>1. \E k \in 1..Len(order) : order[k] = d
    <3>1. CASE d \in implicit
      BY <1>7, <3>1 DEF GraphInv, ImagesAreStates
    <3>2. CASE d \in 1..Count
      <4>1. order[d] = d /\ Count <= Len(order)
        BY <1>7, <3>2 DEF GraphInv, StagesAreStates
      <4>2. d \in 1..Len(order)
        BY <1>3, <1>8, <3>2, <4>1
      <4> QED BY <4>1, <4>2
    <3> QED BY <1>11, <3>1, <3>2 DEF Resolvable
  <2>2. PICK k \in 1..Len(order) : order[k] = d
    BY <2>1
  <2> QED BY <1>1, <1>2, <1>6, <1>11, <2>2 DEF ContentsKept
<1>12. ContentsKept'
  <2>1. ASSUME NEW d \in Id
        PROVE  fs'[d] = IF Resolvable(d)' THEN ImageContent(input', stage'[d].image) ELSE Given(d)'
    <3>1. CASE Resolvable(d)
      BY <1>1, <1>8, <1>9, <1>11, <3>1 DEF IsLoaded
    <3>2. CASE ~Resolvable(d)
      BY <1>1, <1>2, <1>9, <3>2 DEF ContentsKept
    <3> QED BY <3>1, <3>2
  <2> QED BY <1>1, <1>4, <1>5, <1>10, <2>1 DEF ContentsKept
<1>13. FetchesKept'
  <2>1. \A d \in reach : \A y \in Name : <<"image", y>> \in fs[d] => y \in fetched
    BY <1>2 DEF FetchesKept
  <2>2. \A y \in fetched : \E d \in reach : Resolvable(d) /\ stage[d].image = y /\ y \notin input.named
    BY <1>2 DEF FetchesKept
  <2>3. UNCHANGED <<reach, fs, fetched, stage, input>>
    BY <1>1, <1>8
  <2> QED BY <1>5, <1>9, <2>1, <2>2, <2>3 DEF FetchesKept
<1>14. PathsKept'
  <2>1. \A k \in 1..Count' : \A i \in 1..Size(k)' : ~Dispatched(k, i)'
    <3> SUFFICES ASSUME NEW k \in 1..Count, NEW i \in 1..Len(input.stages[k].cmds) PROVE ~Dispatched(k, i)'
      BY <1>8 DEF Size
    <3>1. ~(k < 1) /\ Len(input.stages[k].cmds) \in Nat
      BY <1>8, Recipes DEF IInv
    <3>2. ~(i < 0)
      BY <3>1
    <3> QED BY <1>1, <1>4, <3>1, <3>2 DEF Dispatched
  <2>2. \A d \in Id : pathsOf'[d] = d
    BY <1>1, <1>2, <1>10 DEF PathsKept
  <2> QED BY <1>10, <2>1, <2>2 DEF PathsKept
<1> QED BY <1>12, <1>13, <1>14

-----------------------------------------------------------------------------
\* What the states hold when they are dispatched.

\* A command of a plain recipe that can be carried out reads a stage that comes
\* earlier, or one that a named context replaces.
LEMMA PlainReads ==
    ASSUME IInv, GraphInv, IsPlain(input), NEW k \in 1..Count, NEW i \in 1..Size(k),
           NEW c, c = input.stages[k].cmds[i], Sound(input, k, c)
    PROVE  /\ FromStage(input, c.from) # 0 =>
                /\ FromStage(input, c.from) \in 1..Count
                /\ FromStage(input, c.from) < k \/ IsReplaced(FromStage(input, c.from))
           /\ c \in Command /\ c \in Commands(input, k)
           /\ c.op \in {"ADD", "CAT", "LABEL"} => c.from = FromNothing
           /\ c.op = "COPY" => ~FromContext(input, c)
<1>1. input.stages[k].cmds \in Seq(Command) /\ Positions(input) = 1..Count
  BY Recipes DEF IInv
<1>2. c \in Command /\ c \in Commands(input, k)
  BY <1>1 DEF Size, Commands
<1>3. FromStage(input, c.from) # 0 => FromStage(input, c.from) \in 1..Count
  <2>1. FromStages(input, k) \subseteq 1..Count
    BY SourceFacts
  <2> QED BY <1>2, <2>1 DEF FromStages
<1>4. /\ c.op \in {"ADD", "CAT", "LABEL"} => c.from = FromNothing
      /\ c.op = "COPY" => ~FromContext(input, c)
      /\ IsTool(c) /\ FromStage(input, c.from) # 0 =>
           FromStage(input, c.from) < k \/ IsReplaced(FromStage(input, c.from))
  BY <1>1, <1>2 DEF IsPlain, IsReplaced
<1>5. c.op = "COPY" /\ FromStage(input, c.from) # 0 =>
           FromStage(input, c.from) < k \/ IsReplaced(FromStage(input, c.from))
  BY DEF Sound, IsReplaced
<1>6. c.from = FromNothing => FromStage(input, c.from) = 0
  BY DEF FromNothing, FromStage
<1>7. c.op \in {"ADD", "CAT", "LABEL"} \/ c.op = "COPY" \/ IsTool(c)
  BY <1>2 DEF Command, Op, IsTool
<1> QED BY <1>2, <1>3, <1>4, <1>5, <1>6, <1>7

LEMMA BaseFacts ==
    ASSUME IInv, NEW k \in 1..Count
    PROVE  BaseStage(input, k) = 0 \/ (BaseStage(input, k) \in 1..Count /\ BaseStage(input, k) < k)
<1>1. input \in Input /\ Count \in Nat /\ k \in 1..(Len(input.stages) + 1)
  BY Recipes DEF IInv, Count
<1>2. BaseStage(input, k) \in 0..(k - 1)
  BY <1>1, LastFacts DEF BaseStage
<1> QED BY <1>1, <1>2

\* A stage goes by what it is built from: by earlier stages and by replaced ones.
LEMMA HeldStays ==
    ASSUME IInv, GraphInv, IsPlain(input), NEW k \in 1..Count, NEW f, NEW g,
           \A j \in 1..Count : j < k \/ IsReplaced(j) => f[j] = g[j]
    PROVE  /\ HeldBase(input, f, k) = HeldBase(input, g, k)
           /\ \A i \in 1..Size(k) : Sound(input, k, input.stages[k].cmds[i]) =>
                HeldAdd(input, f, k, i) = HeldAdd(input, g, k, i)
           /\ \A m \in Nat : m <= Size(k) /\ (\A i \in 1..m : Sound(input, k, input.stages[k].cmds[i])) =>
                Held(input, f, k, m) = Held(input, g, k, m)
<1>1. HeldBase(input, f, k) = HeldBase(input, g, k)
  BY BaseFacts DEF HeldBase
<1>2. ASSUME NEW i \in 1..Size(k), Sound(input, k, input.stages[k].cmds[i])
      PROVE  HeldAdd(input, f, k, i) = HeldAdd(input, g, k, i)
  <2>1. PICK c : c = input.stages[k].cmds[i]
    OBVIOUS
  <2>2. FromStage(input, c.from) # 0 => f[FromStage(input, c.from)] = g[FromStage(input, c.from)]
    BY <1>2, <2>1, PlainReads
  <2>3. HeldRead(input, f, c) = HeldRead(input, g, c)
    BY <2>2 DEF HeldRead
  <2> QED BY <2>1, <2>3 DEF HeldAdd
<1>3. ASSUME NEW m \in Nat, m <= Size(k), \A i \in 1..m : Sound(input, k, input.stages[k].cmds[i])
      PROVE  Held(input, f, k, m) = Held(input, g, k, m)
  <2>1. Size(k) \in Nat
    BY Recipes DEF IInv, Size
  <2>2. \A i \in 1..m : HeldAdd(input, f, k, i) = HeldAdd(input, g, k, i)
    <3> SUFFICES ASSUME NEW i \in 1..m PROVE HeldAdd(input, f, k, i) = HeldAdd(input, g, k, i)
      OBVIOUS
    <3>1. i \in 1..Size(k)
      BY <1>3, <2>1
    <3> QED BY <1>2, <1>3, <3>1
  <2> QED BY <1>1, <2>2 DEF Held
<1> QED BY <1>1, <1>2, <1>3

\* One command more.
LEMMA HeldStep ==
    ASSUME NEW in, NEW f, NEW k, NEW m \in Nat
    PROVE  /\ Held(in, f, k, m + 1) = Held(in, f, k, m) \cup HeldAdd(in, f, k, m + 1)
           /\ Held(in, f, k, 0) = HeldBase(in, f, k)
<1>1. 1..(m + 1) = (1..m) \cup {m + 1} /\ 1..0 = {}
  OBVIOUS
<1>2. UNION {HeldAdd(in, f, k, i) : i \in 1..(m + 1)} = (UNION {HeldAdd(in, f, k, i) : i \in 1..m}) \cup HeldAdd(in, f, k, m + 1)
  BY <1>1
<1>3. UNION {HeldAdd(in, f, k, i) : i \in 1..0} = {}
  BY <1>1
<1> QED BY <1>2, <1>3 DEF Held

LEMMA DispatchKeeps ==
    ASSUME IInv, VerdictInv, IsClear(input), DispatchStep
    PROVE  /\ Count' = Count /\ Count \in Nat /\ UNCHANGED <<input, order, base, stage, implicit, srcs, reach, n>>
           /\ \A k : (IsReplaced(k)' <=> IsReplaced(k)) /\ (Resolvable(k)' <=> Resolvable(k))
                     /\ (Fetched(k)' <=> Fetched(k)) /\ Given(k)' = Given(k) /\ Size(k)' = Size(k)
<1>1. Count' = Count /\ Count \in Nat /\ UNCHANGED <<input, order, base, stage, implicit, srcs, reach, n>>
  BY Recipes DEF DispatchStep, graph, Count, IInv
<1>2. Registered' = Registered
  BY <1>1 DEF Registered, DispatchStep
<1>3. \A k : (IsReplaced(k)' <=> IsReplaced(k)) /\ (Fetched(k)' <=> Fetched(k)) /\ Size(k)' = Size(k)
  BY <1>1 DEF IsReplaced, Fetched, Size
<1>4. \A k : (Resolvable(k)' <=> Resolvable(k)) /\ Given(k)' = Given(k)
  BY <1>1, <1>2, <1>3 DEF Resolvable, Given
<1> QED BY <1>1, <1>3, <1>4

\* The loop over the states moves on.
LEMMA MoveContents ==
    ASSUME IInv, VerdictInv, ContentInv, IsPlainBuild, DispatchStep,
           UNCHANGED <<fs, pathsOf, paths, fetched>>, cmd' = 0,
           \A k \in 1..Count : IsOpened(k)' <=> IsOpened(k),
           \A k \in 1..Count : IsOpened(k) => k < pos' /\ (k < pos \/ cmd - 1 = Size(k)),
           \A k \in 1..Count : \A i \in 1..Size(k) : Dispatched(k, i)' => Dispatched(k, i)
    PROVE  (ContentsKept /\ FetchesKept /\ PathsKept)'
<1>1. phase = "dispatch" /\ phase' = "dispatch" /\ IsClear(input)
  BY DEF DispatchStep, IsPlainBuild
<1>2. ContentsKept /\ FetchesKept /\ PathsKept
  BY <1>1 DEF ContentInv, Underway
<1>3. /\ Count' = Count /\ UNCHANGED <<input, order, base, stage, srcs, reach>>
      /\ \A k : (Resolvable(k)' <=> Resolvable(k)) /\ Given(k)' = Given(k) /\ Size(k)' = Size(k)
  BY <1>1, DispatchKeeps
<1>4. \A k : IsOpened(k)' <=> IsOpened(k)
  BY <1>3 DEF IsOpened
<1>5. ContentsKept'
  <2>1. \A d \in Id : ~IsOpened(d)' => fs'[d] = IF Resolvable(d)' THEN ImageContent(input', stage'[d].image) ELSE Given(d)'
    BY <1>1, <1>2, <1>3, <1>4 DEF ContentsKept
  <2>2. ASSUME NEW k \in 1..Count, IsOpened(k)
        PROVE  fs[k] = Held(input, fs, k, IF k < pos' THEN Size(k) ELSE cmd' - 1)
    <3>1. fs[k] = Held(input, fs, k, IF k < pos THEN Size(k) ELSE cmd - 1)
      BY <1>1, <1>2, <2>2 DEF ContentsKept
    <3>2. (IF k < pos THEN Size(k) ELSE cmd - 1) = Size(k)
      BY <2>2
    <3> QED BY <2>2, <3>1, <3>2
  <2>3. \A k \in 1..Count' : IsOpened(k)' => fs'[k] = Held(input', fs', k, IF k < pos' THEN Size(k)' ELSE cmd' - 1)
    BY <1>3, <1>4, <2>2
  <2> QED BY <1>1, <2>1, <2>3 DEF ContentsKept
<1>6. FetchesKept'
  <2>1. \A d \in reach : \A y \in Name : <<"image", y>> \in fs[d] => y \in fetched
    BY <1>2 DEF FetchesKept
  <2>2. \A y \in fetched : \E d \in reach : Resolvable(d) /\ stage[d].image = y /\ y \notin input.named
    BY <1>2 DEF FetchesKept
  <2> QED BY <1>1, <1>3, <2>1, <2>2 DEF FetchesKept
<1>7. PathsKept'
  <2>1. \A d \in Id : ~IsOpened(d)' => pathsOf'[d] = d
    BY <1>2, <1>4 DEF PathsKept
  <2>2. \A k \in 1..Count' : IsOpened(k)' => pathsOf'[k] = IF base'[k] = None THEN k ELSE pathsOf'[base'[k]]
    BY <1>2, <1>3, <1>4 DEF PathsKept
  <2>3. ASSUME NEW k \in 1..Count, NEW i \in 1..Size(k), Dispatched(k, i)',
               input.stages[k].cmds[i].op = "COPY", srcs[k][i] # <<>>
        PROVE  input.stages[k].cmds[i].path \in paths[pathsOf[srcs[k][i][1]]]
    BY <1>1, <1>2, <2>3 DEF PathsKept
  <2> QED BY <1>3, <2>1, <2>2, <2>3 DEF PathsKept
<1> QED BY <1>5, <1>6, <1>7

LEMMA SkipStateContents ==
    ASSUME IInv, VerdictInv, ContentInv, SkipState
    PROVE  ContentInv'
<1>1. /\ DispatchStep /\ pos <= Len(order) /\ cmd = 0 /\ cmd' = 0 /\ pos' = pos + 1 /\ UNCHANGED <<noinit, fs, pathsOf, paths, fetched, input>>
      /\ ~input.allStages /\ (Current \notin reach \/ Current \in noinit)
  BY DEF SkipState, DispatchStep, result
<1> SUFFICES ASSUME IsPlainBuild PROVE (ContentsKept /\ FetchesKept /\ PathsKept)'
  BY <1>1 DEF ContentInv, IsPlainBuild
<1>2. GraphInv /\ SettledStages /\ IsClear(input) /\ Registered = Count
  BY <1>1, GraphStands DEF DispatchStep, IsPlainBuild
<1>3. /\ Count' = Count
      /\ \A k : (IsReplaced(k)' <=> IsReplaced(k)) /\ (Fetched(k)' <=> Fetched(k)) /\ Size(k)' = Size(k)
  BY <1>1, <1>2, DispatchKeeps
<1>4. pos \in Nat /\ Count \in Nat /\ (pos <= Count => pos \in 1..Count /\ Current = pos)
  BY <1>1, <1>2, CurrentFacts
<1>5. pos \in 1..Count => ~Fetched(pos) \/ IsReplaced(pos)
  <2> SUFFICES ASSUME pos \in 1..Count, Fetched(pos) PROVE IsReplaced(pos)
    OBVIOUS
  <2>1. Current = pos /\ pos \in noinit
    <3> HIDE DEF Current
    <3> QED BY <1>1, <1>4 DEF Fetched
  <2>2. ~Entered(pos)
    BY <1>1, <1>4 DEF Entered
  <2> QED BY <1>2, <2>1, <2>2 DEF SettledStages
<1>6. ASSUME NEW k \in 1..Count PROVE (IsOpened(k)' <=> IsOpened(k)) /\ (IsOpened(k) => k < pos' /\ k < pos)
  <2>1. Entered(k)' <=> k < pos + 1 /\ Fetched(k)
    BY <1>1, <1>3 DEF Entered, DispatchStep
  <2>2. Entered(k) <=> k < pos /\ Fetched(k)
    BY <1>1 DEF Entered, DispatchStep
  <2>3. k < pos + 1 <=> k < pos \/ k = pos
    BY <1>4
  <2> QED BY <1>1, <1>3, <1>5, <2>1, <2>2, <2>3 DEF IsOpened
<1>7. ASSUME NEW k \in 1..Count, NEW i \in 1..Size(k), Dispatched(k, i)' PROVE Dispatched(k, i)
  <2>1. Size(k) \in Nat
    BY Recipes DEF IInv, Size
  <2>2. ~(i < 0)
    BY <2>1
  <2>3. UNCHANGED <<input, reach>>
    BY <1>1 DEF DispatchStep
  <2>4. k < pos + 1 /\ k \in reach /\ ~IsReplaced(k)
    BY <1>1, <1>3, <1>7, <2>2, <2>3 DEF Dispatched
  <2>5. k # pos
    BY <1>1, <1>5, <2>4 DEF Fetched
  <2>6. k < pos
    BY <1>4, <2>4, <2>5
  <2> QED BY <1>1, <2>4, <2>6 DEF Dispatched
<1> QED BY <1>1, <1>6, <1>7, MoveContents

LEMMA LeaveStateContents ==
    ASSUME IInv, VerdictInv, ContentInv, LeaveState
    PROVE  ContentInv'
<1>1. /\ DispatchStep /\ phase = "dispatch" /\ pos <= Len(order) /\ cmd > Len(stage[Current].cmds)
      /\ cmd' = 0 /\ pos' = pos + 1 /\ UNCHANGED <<noinit, fs, pathsOf, paths, fetched, input>>
  BY DEF LeaveState, DispatchStep, result
<1> SUFFICES ASSUME IsPlainBuild PROVE (ContentsKept /\ FetchesKept /\ PathsKept)'
  BY <1>1 DEF ContentInv, IsPlainBuild
<1>2. GraphInv /\ IsClear(input)
  BY <1>1, GraphStands DEF IsPlainBuild
<1>3. /\ Count' = Count
      /\ \A k : (IsReplaced(k)' <=> IsReplaced(k)) /\ (Fetched(k)' <=> Fetched(k)) /\ Size(k)' = Size(k)
  BY <1>1, <1>2, DispatchKeeps
<1>4. /\ pos \in Nat /\ Count \in Nat /\ Current \in Id
      /\ pos <= Count => stage[Current] = input.stages[pos]
  BY <1>1, <1>2, CurrentFacts
<1>5. cmd > 0 /\ cmd \in Nat /\ Len(stage[Current].cmds) \in Nat
  <2>1. stage[Current].cmds \in Seq(Command)
    BY <1>4 DEF IInv, TypeOK, Stage
  <2>2. cmd \in Nat /\ Len(stage[Current].cmds) \in Nat
    BY <2>1 DEF IInv, TypeOK
  <2> QED BY <1>1, <2>2
<1>6. cmd - 1 = Len(stage[Current].cmds)
  <2>1. cmd - 1 <= Len(stage[Current].cmds)
    BY <1>1, <1>5 DEF ContentInv, Underway, ContentsKept
  <2> HIDE DEF Current
  <2> QED BY <1>1, <1>5, <2>1
<1>7. pos \in 1..Count => cmd - 1 = Size(pos)
  BY <1>4, <1>6 DEF Size
<1>8. ASSUME NEW k \in 1..Count
      PROVE  (IsOpened(k)' <=> IsOpened(k)) /\ (IsOpened(k) => k < pos' /\ (k < pos \/ cmd - 1 = Size(k)))
  <2>1. Entered(k)' <=> k < pos + 1 /\ Fetched(k)
    BY <1>1, <1>3 DEF Entered, DispatchStep
  <2>2. Entered(k) <=> (k < pos \/ k = pos) /\ Fetched(k)
    BY <1>1, <1>5 DEF Entered, DispatchStep
  <2>3. k < pos + 1 <=> k < pos \/ k = pos
    BY <1>4
  <2>4. IsOpened(k)' <=> IsOpened(k)
    BY <1>1, <1>3, <2>1, <2>2, <2>3 DEF IsOpened
  <2>5. IsOpened(k) => k < pos + 1 /\ (k < pos \/ k = pos)
    BY <2>2, <2>3 DEF IsOpened
  <2> HIDE DEF Current
  <2> QED BY <1>1, <1>7, <2>4, <2>5
<1>9. ASSUME NEW k \in 1..Count, NEW i \in 1..Size(k), Dispatched(k, i)' PROVE Dispatched(k, i)
  <2>1. Size(k) \in Nat /\ ~(i < 0)
    BY Recipes DEF IInv, Size
  <2>2. UNCHANGED <<input, reach>>
    BY <1>1 DEF DispatchStep
  <2>3. k < pos + 1 /\ (input.allStages \/ (k \in reach /\ ~IsReplaced(k)))
    BY <1>1, <1>3, <1>9, <2>1, <2>2 DEF Dispatched
  <2>4. k = pos => i < cmd
    BY <1>5, <1>7, <2>1
  <2>5. k < pos \/ k = pos
    BY <1>4, <2>3
  <2> QED BY <2>3, <2>4, <2>5 DEF Dispatched
<1> QED BY <1>1, <1>8, <1>9, MoveContents

\* The stages that are opened before the loop is at pos are done.
LEMMA OpenedAreSound ==
    ASSUME IInv, VerdictInv, IsPlainBuild, phase = "dispatch", NEW k \in 1..Count, IsOpened(k)
    PROVE  /\ k \in reach /\ ~IsReplaced(k) /\ k <= pos /\ (cmd = 0 => k < pos)
           /\ k < pos => \A i \in 1..Size(k) : Sound(input, k, input.stages[k].cmds[i])
           /\ k = pos => \A i \in 1..(cmd - 1) : i \in 1..Size(k) => Sound(input, k, input.stages[k].cmds[i])
<1>1. CommandsAreSound /\ IsClear(input) /\ GraphInv
  BY GraphStands DEF IsPlainBuild
<1>2. k \in reach /\ ~IsReplaced(k) /\ (k < pos \/ (k = pos /\ cmd > 0))
  BY DEF IsOpened, Entered, Fetched, IsPlainBuild
<1>3. pos \in Nat /\ cmd \in Nat /\ k \in Nat /\ Count \in Nat
  BY Recipes DEF IInv, TypeOK
<1>4. k <= pos /\ (cmd = 0 => k < pos)
  BY <1>2, <1>3
<1>5. \A i \in 1..Size(k) : Dispatched(k, i) => Sound(input, k, input.stages[k].cmds[i])
  BY <1>1 DEF CommandsAreSound, Size
<1>6. k < pos => \A i \in 1..Size(k) : Dispatched(k, i)
  BY <1>2 DEF Dispatched
<1>7. k = pos => \A i \in 1..(cmd - 1) : Dispatched(k, i)
  <2>1. \A i \in 1..(cmd - 1) : i < cmd
    BY <1>3
  <2> QED BY <1>2, <2>1 DEF Dispatched
<1> QED BY <1>2, <1>4, <1>5, <1>6, <1>7

\* The source of a COPY that was dispatched is not the stage that the loop is at.
LEMMA CopySourceStays ==
    ASSUME IInv, VerdictInv, IsPlainBuild, phase = "dispatch",
           NEW k \in 1..Count, NEW i \in 1..Size(k), k <= pos, NEW c, c = input.stages[k].cmds[i],
           Sound(input, k, c), c.op = "COPY", srcs[k][i] # <<>>,
           pos \in 1..Count, ~IsReplaced(pos)
    PROVE  srcs[k][i][1] \in Id /\ srcs[k][i][1] # pos
<1>1. GraphInv /\ IsClear(input) /\ IsPlain(input)
  BY GraphStands DEF IsPlainBuild
<1>2. /\ SourcesAre(c, srcs[k][i])
      /\ c.from.by # "none" => srcs[k][i][1] \in Deps(k)
      /\ c.from.by = "none" \/ FromStage(input, c.from) # 0 \/ FromImage(input, c) \/ FromContext(input, c)
      /\ Deps(k) \subseteq Id
  BY <1>1, SourceFacts DEF Size
<1>3. pos \in Nat /\ k \in Nat /\ Count \in Nat
  BY Recipes DEF IInv, TypeOK
<1>4. srcs[k][i] \in Seq(Id)
  <2>1. k \in Id /\ srcs[k] \in Seq(Seq(Id))
    BY Recipes DEF IInv, TypeOK
  <2>2. i \in 1..Len(srcs[k])
    BY <1>1 DEF GraphInv, Filled, Size
  <2> QED BY <2>1, <2>2
<1>5. c.from.by # "none"
  <2> SUFFICES ASSUME c.from.by = "none" PROVE FALSE
    OBVIOUS
  <2>1. Len(srcs[k][i]) = 0
    BY <1>2 DEF SourcesAre, IsTool
  <2> QED BY <1>4, <2>1
<1>6. FromIs(c, srcs[k][i][1])
  BY <1>2, <1>5 DEF SourcesAre
<1>7. FromStage(input, c.from) # 0 => FromStage(input, c.from) < k \/ IsReplaced(FromStage(input, c.from))
  BY <1>1, PlainReads
<1>8. CASE FromStage(input, c.from) # 0
  <2>1. srcs[k][i][1] = FromStage(input, c.from) /\ srcs[k][i][1] \in Id
    BY <1>2, <1>5, <1>6, <1>8 DEF FromIs
  <2>2. srcs[k][i][1] # pos
    <3> SUFFICES ASSUME FromStage(input, c.from) = pos PROVE FALSE
      BY <2>1
    <3>1. pos < k
      BY <1>7, <1>8
    <3> QED BY <1>3, <3>1
  <2> QED BY <2>1, <2>2
<1>9. CASE FromStage(input, c.from) = 0
  <2>1. srcs[k][i][1] > Count
    <3>1. FromImage(input, c) => srcs[k][i][1] \in implicit
      BY <1>6 DEF FromIs
    <3> QED BY <1>1, <1>2, <1>5, <1>6, <1>9, <3>1 DEF FromIs, GraphInv, ImagesAreStates
  <2>2. srcs[k][i][1] \in Id
    BY <1>2, <1>5
  <2>3. srcs[k][i][1] # pos
    BY <1>3, <2>1
  <2> QED BY <2>2, <2>3
<1> QED BY <1>8, <1>9

LEMMA EnterStateContents ==
    ASSUME IInv, VerdictInv, ContentInv, EnterState
    PROVE  ContentInv'
<1>1. /\ DispatchStep /\ phase = "dispatch" /\ phase' = "dispatch" /\ pos <= Len(order)
      /\ cmd = 0 /\ cmd' = 1 /\ pos' = pos /\ UNCHANGED <<input, paths, fetched>>
      /\ input.allStages \/ (Current \in reach /\ Current \notin noinit)
      /\ IF base[Current] = None THEN UNCHANGED <<fs, pathsOf>> ELSE Inherit(Current)
  BY DEF EnterState, DispatchStep
<1> SUFFICES ASSUME IsPlainBuild PROVE (ContentsKept /\ FetchesKept /\ PathsKept)'
  BY <1>1 DEF ContentInv, IsPlainBuild
<1>2. /\ GraphInv /\ SettledStages /\ IsClear(input) /\ IsPlain(input) /\ Registered = Count
      /\ ContentsKept /\ FetchesKept /\ PathsKept /\ Jobs
  BY <1>1, GraphStands DEF IsPlainBuild, ContentInv, Underway
<1>3. /\ Count' = Count /\ Count \in Nat /\ UNCHANGED <<order, base, stage, srcs, reach>>
      /\ \A k : (IsReplaced(k)' <=> IsReplaced(k)) /\ (Resolvable(k)' <=> Resolvable(k))
                /\ (Fetched(k)' <=> Fetched(k)) /\ Given(k)' = Given(k) /\ Size(k)' = Size(k)
  BY <1>1, <1>2, DispatchKeeps
<1>4. pos \in 1..Count /\ Current = pos /\ pos \in reach /\ ~IsReplaced(pos) /\ pos \in Nat
  <2>1. Current \in reach /\ Current \notin noinit
    BY <1>1 DEF IsPlainBuild
  <2>2. /\ pos \in Nat
        /\ pos <= Count => pos \in 1..Count /\ Current = pos
        /\ pos > Count => Current \in implicit
    BY <1>1, <1>2, CurrentFacts
  <2>3. ~(pos > Count)
    BY <1>1, <1>2, <2>1, <2>2 DEF SettledStages
  <2>4. pos <= Count
    BY <1>3, <2>2, <2>3
  <2> HIDE DEF Current
  <2> QED BY <1>2, <2>1, <2>2, <2>4 DEF SettledStages
<1>5. /\ 1..Count \subseteq Id /\ None = 0 /\ fs \in [Id -> SUBSET Vertex(Id)] /\ pathsOf \in [Id -> Id]
      /\ stage[pos] = input.stages[pos]
  <2>1. 1..Count \subseteq Id /\ None = 0
    BY Recipes DEF IInv
  <2>2. stage[pos] = input.stages[pos]
    BY <1>2, <1>4 DEF GraphInv, StagesAreStates
  <2> QED BY <2>1, <2>2 DEF IInv, TypeOK
<1>6. PICK b : b = base[pos]
  OBVIOUS
<1>7. b = BaseStage(input, pos) /\ (b = 0 \/ (b \in 1..Count /\ b < pos))
  <2>1. b = BaseStage(input, pos)
    BY <1>2, <1>4, <1>6 DEF GraphInv, StagesAreStates
  <2> QED BY <1>4, <2>1, BaseFacts
<1>8. \A k \in 1..Count : ~IsOpened(pos) /\ (IsOpened(k) => k < pos) /\ (IsOpened(k)' <=> IsOpened(k) \/ k = pos)
  <2> SUFFICES ASSUME NEW k \in 1..Count
               PROVE  ~IsOpened(pos) /\ (IsOpened(k) => k < pos) /\ (IsOpened(k)' <=> IsOpened(k) \/ k = pos)
    OBVIOUS
  <2>1. Entered(k)' <=> (k < pos \/ k = pos) /\ Fetched(k)
    BY <1>1, <1>3 DEF Entered
  <2>2. \A e : Entered(e) <=> e < pos /\ Fetched(e)
    BY <1>1 DEF Entered
  <2>3. ~(pos < pos)
    BY <1>4
  <2>4. Fetched(pos)
    BY <1>4 DEF Fetched
  <2> QED BY <1>3, <1>4, <2>1, <2>2, <2>3, <2>4 DEF IsOpened
<1>9. pathsOf[pos] = pos
  BY <1>2, <1>4, <1>5, <1>8 DEF PathsKept
<1>10. /\ \A e \in Id : e # pos => fs'[e] = fs[e] /\ pathsOf'[e] = pathsOf[e]
       /\ fs'[pos] = IF b = 0 THEN fs[pos] ELSE fs[b]
       /\ pathsOf'[pos] = IF b = 0 THEN pos ELSE pathsOf[b]
  <2>1. CASE b = 0
    <3>1. UNCHANGED <<fs, pathsOf>>
      BY <1>1, <1>4, <1>5, <1>6, <2>1
    <3> QED BY <1>9, <2>1, <3>1
  <2>2. CASE b # 0
    <3>1. Inherit(pos)
      BY <1>1, <1>4, <1>5, <1>6, <2>2
    <3> QED BY <1>4, <1>5, <1>6, <2>2, <3>1 DEF Inherit
  <2> QED BY <2>1, <2>2
<1>11. \A j \in 1..Count : j < pos \/ IsReplaced(j) => fs'[j] = fs[j] /\ pathsOf'[j] = pathsOf[j]
  <2> SUFFICES ASSUME NEW j \in 1..Count, j < pos \/ IsReplaced(j) PROVE j # pos
    BY <1>5, <1>10
  <2> QED BY <1>4
<1>12. PICK g : g = fs'
  OBVIOUS
<1>13. fs'[pos] = Held(input, g, pos, 0)
  <2>1. HeldBase(input, fs, pos) = HeldBase(input, g, pos)
    BY <1>2, <1>4, <1>11, <1>12, HeldStays
  <2>2. fs'[pos] = HeldBase(input, fs, pos)
    <3>1. CASE b = 0
      <4>1. fs[pos] = IF Resolvable(pos) THEN ImageContent(input, stage[pos].image) ELSE Given(pos)
        BY <1>1, <1>2, <1>4, <1>5, <1>8 DEF ContentsKept
      <4>2. Given(pos) = {}
        BY <1>4 DEF Given
      <4>3. Resolvable(pos) <=> stage[pos].image # Scratch
        BY <1>4, <1>5, <1>6, <3>1 DEF Resolvable
      <4>4. fs[pos] = ImageContent(input, stage[pos].image)
        BY <4>1, <4>2, <4>3 DEF ImageContent
      <4> QED BY <1>5, <1>7, <1>10, <3>1, <4>4 DEF HeldBase
    <3>2. CASE b # 0
      BY <1>7, <1>10, <3>2 DEF HeldBase
    <3> QED BY <3>1, <3>2
  <2>3. Held(input, g, pos, 0) = HeldBase(input, g, pos)
    BY HeldStep
  <2> QED BY <2>1, <2>2, <2>3
<1>14. ASSUME NEW k \in 1..Count, IsOpened(k)
       PROVE  fs'[k] = Held(input, g, k, Size(k))
  <2>1. k < pos /\ \A i \in 1..Size(k) : Sound(input, k, input.stages[k].cmds[i])
    BY <1>1, <1>8, <1>14, OpenedAreSound
  <2>2. fs[k] = Held(input, fs, k, Size(k))
    BY <1>1, <1>2, <1>14, <2>1 DEF ContentsKept
  <2>3. Size(k) \in Nat /\ Size(k) <= Size(k)
    BY Recipes DEF IInv, Size
  <2>4. \A j \in 1..Count : j < k \/ IsReplaced(j) => fs[j] = g[j]
    <3> SUFFICES ASSUME NEW j \in 1..Count, j < k \/ IsReplaced(j) PROVE fs[j] = g[j]
      OBVIOUS
    <3>1. j < pos \/ IsReplaced(j)
      BY <1>4, <2>1
    <3> QED BY <1>11, <1>12, <3>1
  <2>5. Held(input, fs, k, Size(k)) = Held(input, g, k, Size(k))
    BY <1>2, <2>1, <2>3, <2>4, HeldStays
  <2>6. fs'[k] = fs[k]
    BY <1>11, <2>1
  <2> QED BY <2>2, <2>5, <2>6
<1>15. ContentsKept'
  <2>1. ASSUME NEW d \in Id, ~IsOpened(d)'
        PROVE  fs'[d] = IF Resolvable(d)' THEN ImageContent(input', stage'[d].image) ELSE Given(d)'
    <3>1. d # pos /\ ~IsOpened(d)
      <4>1. d \in 1..Count => d # pos /\ ~IsOpened(d)
        BY <1>8, <2>1
      <4>2. d \notin 1..Count => d # pos /\ ~IsOpened(d)
        BY <1>4 DEF IsOpened
      <4> QED BY <4>1, <4>2
    <3>2. fs[d] = IF Resolvable(d) THEN ImageContent(input, stage[d].image) ELSE Given(d)
      BY <1>1, <1>2, <3>1 DEF ContentsKept
    <3> QED BY <1>1, <1>3, <1>10, <3>1, <3>2
  <2>2. cmd' - 1 = 0 /\ Len(stage[Current].cmds) \in Nat /\ Current' = Current
    <3>1. stage[Current].cmds \in Seq(Command)
      BY <1>4, <1>5, Recipes DEF IInv
    <3> QED BY <1>1, <1>3, <3>1 DEF Current
  <2>3. cmd' - 1 <= Len(stage'[Current'].cmds)
    <3> HIDE DEF Current
    <3> QED BY <1>3, <2>2
  <2>4. ASSUME NEW k \in 1..Count, IsOpened(k)'
        PROVE  fs'[k] = Held(input, g, k, IF k < pos THEN Size(k) ELSE cmd' - 1)
    <3>1. CASE k = pos
      BY <1>4, <1>13, <2>2, <3>1
    <3>2. CASE k # pos
      BY <1>8, <1>14, <2>4, <3>2
    <3> QED BY <3>1, <3>2
  <2>5. \A k \in 1..Count' : IsOpened(k)' => fs'[k] = Held(input', fs', k, IF k < pos' THEN Size(k)' ELSE cmd' - 1)
    BY <1>1, <1>3, <1>12, <2>4
  <2> HIDE DEF Current
  <2> QED BY <1>1, <2>1, <2>3, <2>5 DEF ContentsKept
<1>16. FetchesKept'
  <2>1. ASSUME NEW d \in reach, NEW y \in Name, <<"image", y>> \in fs'[d] PROVE y \in fetched
    <3>0. reach \subseteq Id
      BY DEF IInv, TypeOK
    <3>1. CASE d = pos /\ b # 0
      <4>1. b \in reach
        <5>1. reach = Reachable(target)
          BY <1>1, <1>2 DEF Jobs
        <5>2. Parents(pos) \subseteq reach
          BY <1>2, <1>4, <5>1, ReachFacts
        <5>3. b \in Parents(pos)
          BY <1>5, <1>6, <3>1 DEF Parents
        <5> QED BY <5>2, <5>3
      <4>2. <<"image", y>> \in fs[b]
        BY <1>10, <2>1, <3>1
      <4> QED BY <1>2, <4>1, <4>2 DEF FetchesKept
    <3>2. CASE ~(d = pos /\ b # 0)
      <4>1. fs'[d] = fs[d]
        BY <1>10, <3>0, <3>2
      <4> QED BY <1>2, <2>1, <4>1 DEF FetchesKept
    <3> QED BY <3>1, <3>2
  <2>2. \A y \in fetched : \E d \in reach : Resolvable(d) /\ stage[d].image = y /\ y \notin input.named
    BY <1>2 DEF FetchesKept
  <2> QED BY <1>1, <1>3, <2>1, <2>2 DEF FetchesKept
<1>17. PathsKept'
  <2>1. ASSUME NEW d \in Id, ~IsOpened(d)' PROVE pathsOf'[d] = d
    <3>1. d # pos /\ ~IsOpened(d)
      <4>1. d \in 1..Count => d # pos /\ ~IsOpened(d)
        BY <1>8, <2>1
      <4>2. d \notin 1..Count => d # pos /\ ~IsOpened(d)
        BY <1>4 DEF IsOpened
      <4> QED BY <4>1, <4>2
    <3> QED BY <1>2, <1>10, <3>1 DEF PathsKept
  <2>2. ASSUME NEW k \in 1..Count, IsOpened(k)'
        PROVE  pathsOf'[k] = IF base[k] = None THEN k ELSE pathsOf'[base[k]]
    <3>1. CASE k = pos
      <4>1. b # 0 => pathsOf'[b] = pathsOf[b]
        BY <1>7, <1>11
      <4> QED BY <1>5, <1>6, <1>10, <3>1, <4>1
    <3>2. CASE k # pos
      <4>1. IsOpened(k) /\ k < pos
        BY <1>8, <2>2, <3>2
      <4>2. pathsOf[k] = IF base[k] = None THEN k ELSE pathsOf[base[k]]
        BY <1>2, <4>1 DEF PathsKept
      <4>3. base[k] = BaseStage(input, k) /\ (base[k] = 0 \/ (base[k] \in 1..Count /\ base[k] < k))
        BY <1>2, BaseFacts DEF GraphInv, StagesAreStates
      <4>4. base[k] # 0 => base[k] \in 1..Count /\ base[k] < pos
        BY <1>4, <4>1, <4>3
      <4>5. base[k] # 0 => pathsOf'[base[k]] = pathsOf[base[k]]
        BY <1>11, <4>4
      <4>6. pathsOf'[k] = pathsOf[k]
        BY <1>11, <4>1
      <4> QED BY <1>5, <4>2, <4>5, <4>6
    <3> QED BY <3>1, <3>2
  <2>3. ASSUME NEW k \in 1..Count, NEW i \in 1..Size(k), NEW c, c = input.stages[k].cmds[i], Dispatched(k, i)',
               c.op = "COPY", srcs[k][i] # <<>>
        PROVE  c.path \in paths[pathsOf'[srcs[k][i][1]]]
    <3>1. Size(k) \in Nat /\ ~(i < 1)
      BY Recipes DEF IInv, Size
    <3>2. k < pos /\ (input.allStages \/ (k \in reach /\ ~IsReplaced(k)))
      BY <1>1, <1>3, <2>3, <3>1 DEF Dispatched
    <3>3. Dispatched(k, i)
      BY <3>2 DEF Dispatched
    <3>4. c.path \in paths[pathsOf[srcs[k][i][1]]]
      BY <1>1, <1>2, <2>3, <3>3 DEF PathsKept
    <3>5. Sound(input, k, c)
      <4>1. CommandsAreSound
        BY <1>1, <1>2, GraphStands
      <4> QED BY <1>1, <2>3, <3>3, <4>1 DEF CommandsAreSound, Size
    <3>6. k <= pos
      BY <1>4, <3>2
    <3>7. srcs[k][i][1] \in Id /\ srcs[k][i][1] # pos
      BY <1>1, <1>4, <2>3, <3>5, <3>6, CopySourceStays
    <3> QED BY <1>10, <3>4, <3>7
  <2> QED BY <1>1, <1>3, <2>1, <2>2, <2>3 DEF PathsKept
<1> QED BY <1>15, <1>16, <1>17

\* A state that stands for an image holds it once the images are resolved.
LEMMA ImagesAreLoaded ==
    ASSUME IInv, VerdictInv, ContentInv, IsPlainBuild, phase = "dispatch", NEW d \in implicit
    PROVE  fs[d] = ImageContent(input, stage[d].image)
<1>1. GraphInv /\ Registered = Count /\ ContentsKept
  BY GraphStands DEF ContentInv, Underway, IsPlainBuild
<1>2. d \in Id /\ d > Count /\ d <= n /\ Count \in Nat /\ Id \subseteq Nat
  <2>1. d \in Id
    BY DEF IInv, TypeOK
  <2> QED BY <1>1, <2>1, Recipes DEF IInv, GraphInv, ImagesAreStates
<1>3. d \notin 1..Count
  BY <1>2
<1>4. ~IsOpened(d) /\ Given(d) = {}
  BY <1>1, <1>3 DEF IsOpened, Given
<1>5. base[d] = None
  BY <1>1, <1>2 DEF GraphInv, ImagesAreStates
<1>6. Resolvable(d) <=> stage[d].image # Scratch
  BY <1>5 DEF Resolvable
<1>7. fs[d] = IF Resolvable(d) THEN ImageContent(input, stage[d].image) ELSE Given(d)
  BY <1>1, <1>2, <1>4 DEF ContentsKept
<1> QED BY <1>4, <1>6, <1>7 DEF ImageContent

\* What a command with --from reads is what its source holds.
LEMMA SourceHolds ==
    ASSUME IInv, VerdictInv, ContentInv, ContextNames, IsPlainBuild, AtCommand(Op), NEW c, c = Dispatching
    PROVE  /\ c.from.by = "none" <=> c.from = FromNothing
           /\ c.from.by = "none" => HeldRead(input, fs, c) = IF c.op \in {"ADD", "COPY"} /\ c.path # Remote THEN {<<"context">>} ELSE {}
           /\ c.from.by # "none" =>
                /\ FromSources[1] \in Deps(pos)
                /\ FromContext(input, c) =>
                     HeldRead(input, fs, c) = {<<"context">>} /\ stage[FromSources[1]].name = Context
                /\ ~FromContext(input, c) =>
                     HeldRead(input, fs, c) = fs[FromSources[1]] /\ stage[FromSources[1]].name # Context
<1>1. IsClear(input) /\ IsPlain(input)
  BY DEF IsPlainBuild
<1>2. /\ GraphInv /\ Registered = Count /\ phase = "dispatch"
      /\ pos \in 1..Count /\ Count \in Nat
      /\ c \in Commands(input, pos)
      /\ SourcesAre(c, FromSources)
      /\ c.from.by # "none" => FromSources[1] \in Deps(pos)
      /\ c.from.by = "none" => FromStage(input, c.from) = 0
      /\ c.from.by = "none" \/ FromStage(input, c.from) # 0 \/ FromImage(input, c) \/ FromContext(input, c)
  BY <1>1, CommandFacts
<1>3. c \in Command
  BY DispatchFacts DEF IInv
<1>4. c.from \in From
  BY <1>3 DEF Command
<1>5. c.from.by = "none" <=> c.from = FromNothing
  BY <1>4 DEF From, FromNothing
<1>6. c.from.by = "none" => ~FromImage(input, c) /\ ~FromContext(input, c)
  BY DEF FromImage, FromContext
<1>7. c.from.by = "none" => HeldRead(input, fs, c) = IF c.op \in {"ADD", "COPY"} /\ c.path # Remote THEN {<<"context">>} ELSE {}
  BY <1>2, <1>5, <1>6 DEF HeldRead
<1>8. ASSUME c.from.by # "none"
      PROVE  /\ FromContext(input, c) =>
                  HeldRead(input, fs, c) = {<<"context">>} /\ stage[FromSources[1]].name = Context
             /\ ~FromContext(input, c) =>
                  HeldRead(input, fs, c) = fs[FromSources[1]] /\ stage[FromSources[1]].name # Context
  <2>1. PICK s : s = FromSources[1]
    OBVIOUS
  <2>2. FromIs(c, s) /\ s \in Deps(pos)
    BY <1>2, <1>8, <2>1 DEF SourcesAre
  <2>3. s \in Id /\ s \in Nat /\ n \in Nat
    <3>1. Deps(pos) \subseteq Id /\ Id \subseteq Nat /\ n \in Nat
      BY <1>2, SourceFacts, Recipes DEF IInv
    <3> QED BY <2>2, <3>1
  <2>4. s > Count /\ s <= n => (stage[s].name = Context <=> s \notin implicit)
    BY <1>1, <1>2, <2>3 DEF ContextNames, Underway
  <2>5. CASE FromStage(input, c.from) # 0
    <3>1. s = FromStage(input, c.from) /\ s <= Count
      BY <2>2, <2>5 DEF FromIs
    <3>2. s \in 1..Count
      BY <1>2, <2>3, <2>5, <3>1
    <3>3. stage[s] = input.stages[s] /\ Positions(input) = 1..Count
      BY <1>2, <3>2, Recipes DEF GraphInv, StagesAreStates, IInv
    <3>4. stage[s].name # Context
      BY <1>1, <3>2, <3>3 DEF IsPlain
    <3>5. ~FromContext(input, c)
      BY <2>5 DEF FromContext
    <3>6. HeldRead(input, fs, c) = fs[FromStage(input, c.from)]
      BY <1>5, <1>8, <2>5 DEF HeldRead, FromImage, FromContext
    <3> QED BY <2>1, <3>1, <3>4, <3>5, <3>6
  <2>6. CASE FromImage(input, c)
    <3>1. s \in implicit /\ stage[s].image = c.from.name
      BY <2>2, <2>6 DEF FromIs
    <3>2. stage[s].name # Context
      BY <1>2, <2>4, <3>1 DEF GraphInv, ImagesAreStates
    <3>3. fs[s] = ImageContent(input, c.from.name)
      BY <1>2, <3>1, ImagesAreLoaded
    <3>4. ~FromContext(input, c) /\ FromStage(input, c.from) = 0
      BY <2>6 DEF FromContext, FromImage
    <3>5. HeldRead(input, fs, c) = ImageContent(input, c.from.name)
      BY <1>5, <1>8, <2>6, <3>4 DEF HeldRead
    <3> QED BY <2>1, <3>2, <3>3, <3>4, <3>5
  <2>7. CASE FromContext(input, c)
    <3>1. s > Count /\ s <= n /\ s \notin implicit
      BY <2>2, <2>7 DEF FromIs
    <3>2. ~FromImage(input, c) /\ FromStage(input, c.from) = 0
      BY <2>7 DEF FromContext, FromImage
    <3>3. HeldRead(input, fs, c) = {<<"context">>}
      BY <1>5, <1>8, <2>7, <3>2 DEF HeldRead
    <3> QED BY <2>1, <2>4, <2>7, <3>1, <3>3
  <2> QED BY <1>2, <1>8, <2>5, <2>6, <2>7
<1> QED BY <1>2, <1>5, <1>7, <1>8

\* A command puts on top of its stage what the recipe says of it.
LEMMA CommandReads ==
    ASSUME IInv, VerdictInv, ContentInv, ContextNames, IsPlainBuild, DispatchCommand
    PROVE  /\ fs' = [fs EXCEPT ![pos] = fs[pos] \cup HeldAdd(input, fs, pos, cmd)]
           /\ \A y : <<"image", y>> \in HeldAdd(input, fs, pos, cmd) => \E s \in Deps(pos) : <<"image", y>> \in fs[s]
<1>1. AtCommand(Op) /\ IsClear(input)
  BY DispatchCommandStep DEF IsPlainBuild
<1>2. PICK c : c = Dispatching
  OBVIOUS
<1>3. PICK ss : ss = FromSources
  OBVIOUS
<1>4. /\ GraphInv /\ phase = "dispatch" /\ pos \in 1..Count /\ Current = pos
      /\ cmd \in 1..Len(input.stages[pos].cmds) /\ c = input.stages[pos].cmds[cmd]
      /\ SourcesAre(c, ss)
  BY <1>1, <1>2, <1>3, CommandFacts
<1>5. /\ c.from.by = "none" <=> c.from = FromNothing
      /\ c.from.by = "none" => HeldRead(input, fs, c) = IF c.op \in {"ADD", "COPY"} /\ c.path # Remote THEN {<<"context">>} ELSE {}
      /\ c.from.by # "none" =>
           /\ ss[1] \in Deps(pos)
           /\ FromContext(input, c) => HeldRead(input, fs, c) = {<<"context">>} /\ stage[ss[1]].name = Context
           /\ ~FromContext(input, c) => HeldRead(input, fs, c) = fs[ss[1]] /\ stage[ss[1]].name # Context
  BY <1>1, <1>2, <1>3, SourceHolds
<1>6. HeldAdd(input, fs, pos, cmd) =
        IF c.op = "LABEL" THEN {}
        ELSE {<<"op", pos, cmd>>} \cup HeldRead(input, fs, c) \cup (IF IsTool(c) THEN ImageContent(input, ToolImage(c)) ELSE {})
  BY <1>4 DEF HeldAdd
<1>7. c.op = "COPY" => ~FromContext(input, c)
  <2>1. Positions(input) = 1..Count /\ c \in Commands(input, pos)
    BY <1>1, <1>2, CommandFacts, Recipes DEF IInv
  <2> QED BY <1>4, <2>1 DEF IsPlainBuild, IsPlain
<1>8. c.op \in {"ADD", "CAT", "LABEL"} => c.from = FromNothing
  <2>1. Positions(input) = 1..Count /\ c \in Commands(input, pos)
    BY <1>1, <1>2, CommandFacts, Recipes DEF IInv
  <2> QED BY <1>4, <2>1 DEF IsPlainBuild, IsPlain
<1>9. IsTool(c) => /\ fs[ss[Len(ss)]] = ImageContent(input, ToolImage(c))
                   /\ \E s \in Deps(pos) : fs[s] = ImageContent(input, ToolImage(c))
                   /\ Len(ss) = IF c.from.by = "none" THEN 1 ELSE 2
  <2> SUFFICES ASSUME IsTool(c)
               PROVE  /\ fs[ss[Len(ss)]] = ImageContent(input, ToolImage(c))
                      /\ \E s \in Deps(pos) : fs[s] = ImageContent(input, ToolImage(c))
                      /\ Len(ss) = IF c.from.by = "none" THEN 1 ELSE 2
    OBVIOUS
  <2>1. ss[Len(ss)] \in implicit /\ stage[ss[Len(ss)]].image = ToolImage(c)
    BY <1>4 DEF SourcesAre
  <2>2. \E d \in Deps(pos) \cap implicit : stage[d].image = ToolImage(c)
    BY <1>4, SourceFacts
  <2>3. Len(ss) = IF c.from.by = "none" THEN 1 ELSE 2
    <3>1. SourcesAre(c, ss)
      BY <1>4
    <3>2. Len(ss) = (IF c.from.by = "none" THEN 0 ELSE 1) + (IF IsTool(c) THEN 1 ELSE 0)
      BY <3>1 DEF SourcesAre
    <3> QED BY <3>2
  <2> QED BY <1>4, <2>1, <2>2, <2>3, ImagesAreLoaded
<1>10. /\ c.op = "LABEL" => ~IsTool(c)
       /\ c.op \in {"ADD", "COPY", "CAT"} => ~IsTool(c)
  BY DEF IsTool
<1>11. fs \in [Id -> SUBSET Vertex(Id)] /\ pos \in Id
  BY <1>4, Recipes DEF IInv, TypeOK
<1>12. fs' = [fs EXCEPT ![pos] = fs[pos] \cup HeldAdd(input, fs, pos, cmd)]
  <2> DEFINE Over(read) == fs' = [fs EXCEPT ![pos] = fs[pos] \cup read \cup {<<"op", pos, cmd>>}]
  <2>1. \A read : Extend(read) => Over(read)
    BY <1>4, <1>11 DEF Extend
  <2>2. CASE DispatchAdd
    <3>1. c.op = "ADD" /\ Extend(BuildContext(c))
      BY <1>2, <2>2 DEF DispatchAdd, AtCommand
    <3>2. HeldRead(input, fs, c) = BuildContext(c)
      BY <1>5, <1>8, <3>1 DEF BuildContext
    <3>3. HeldAdd(input, fs, pos, cmd) = {<<"op", pos, cmd>>} \cup BuildContext(c)
      BY <1>6, <1>10, <3>1, <3>2
    <3>4. fs[pos] \cup HeldAdd(input, fs, pos, cmd) = fs[pos] \cup BuildContext(c) \cup {<<"op", pos, cmd>>}
      BY <3>3
    <3> QED BY <2>1, <3>1, <3>4
  <2>3. CASE DispatchCopyContext
    <3>1. c.op = "COPY" /\ Extend(BuildContext(c)) /\ ss = <<>> /\ c.path # Remote
      BY <1>2, <1>3, <2>3 DEF DispatchCopyContext, AtCommand
    <3>2. c.from.by = "none"
      <4>1. SourcesAre(c, ss)
        BY <1>4
      <4>2. Len(ss) = (IF c.from.by = "none" THEN 0 ELSE 1) + (IF IsTool(c) THEN 1 ELSE 0)
        BY <4>1 DEF SourcesAre
      <4>3. Len(ss) = 0
        BY <3>1
      <4> QED BY <4>2, <4>3
    <3>3. HeldRead(input, fs, c) = BuildContext(c)
      BY <1>5, <3>1, <3>2 DEF BuildContext
    <3>4. HeldAdd(input, fs, pos, cmd) = {<<"op", pos, cmd>>} \cup BuildContext(c)
      BY <1>6, <1>10, <3>1, <3>3
    <3>5. fs[pos] \cup HeldAdd(input, fs, pos, cmd) = fs[pos] \cup BuildContext(c) \cup {<<"op", pos, cmd>>}
      BY <3>4
    <3> QED BY <2>1, <3>1, <3>5
  <2>4. CASE DispatchCopyFrom
    <3>1. c.op = "COPY" /\ Extend(fs[ss[1]]) /\ ss # <<>>
      BY <1>2, <1>3, <2>4 DEF DispatchCopyFrom, AtCommand
    <3>2. c.from.by # "none"
      <4> SUFFICES ASSUME c.from.by = "none" PROVE FALSE
        OBVIOUS
      <4>1. Len(ss) = 0
        BY <1>4, <1>10, <3>1 DEF SourcesAre
      <4>2. ss \in Seq(Id)
        BY <1>1, <1>3, DispatchFacts DEF IInv
      <4> QED BY <3>1, <4>1, <4>2
    <3>3. HeldRead(input, fs, c) = fs[ss[1]]
      BY <1>5, <1>7, <3>1, <3>2
    <3>4. HeldAdd(input, fs, pos, cmd) = {<<"op", pos, cmd>>} \cup fs[ss[1]]
      BY <1>6, <1>10, <3>1, <3>3
    <3>5. fs[pos] \cup HeldAdd(input, fs, pos, cmd) = fs[pos] \cup fs[ss[1]] \cup {<<"op", pos, cmd>>}
      BY <3>4
    <3> QED BY <2>1, <3>1, <3>5
  <2>5. CASE DispatchTool
    <3>1. IsTool(c) /\ c.op \in {"CONVERT", "QUANTIZE"} /\ Extend(Mounted(ss) \cup fs[ss[Len(ss)]])
      BY <1>2, <1>3, <2>5 DEF DispatchTool, DispatchConvert, DispatchQuantize, RunTool, AtCommand, IsTool
    <3>2. HeldAdd(input, fs, pos, cmd) = {<<"op", pos, cmd>>} \cup HeldRead(input, fs, c) \cup fs[ss[Len(ss)]]
      BY <1>6, <1>9, <3>1
    <3>3. fs[pos] \cup Mounted(ss) = fs[pos] \cup HeldRead(input, fs, c)
      <4>1. CASE c.from.by = "none"
        <5>1. Mounted(ss) = fs[pos]
          BY <1>4, <1>9, <3>1, <4>1 DEF Mounted
        <5>2. HeldRead(input, fs, c) = {}
          BY <1>5, <3>1, <4>1
        <5> QED BY <5>1, <5>2
      <4>2. CASE c.from.by # "none"
        <5>1. Mounted(ss) = IF stage[ss[1]].name = Context THEN {<<"context">>} ELSE fs[ss[1]]
          BY <1>9, <3>1, <4>2 DEF Mounted
        <5> QED BY <1>5, <4>2, <5>1
      <4> QED BY <4>1, <4>2
    <3>4. fs[pos] \cup HeldAdd(input, fs, pos, cmd) = fs[pos] \cup (Mounted(ss) \cup fs[ss[Len(ss)]]) \cup {<<"op", pos, cmd>>}
      BY <3>2, <3>3
    <3> QED BY <2>1, <3>1, <3>4
  <2>6. CASE DispatchCat
    <3>1. c.op = "CAT" /\ Extend({})
      BY <1>2, <2>6 DEF DispatchCat, AtCommand
    <3>2. HeldRead(input, fs, c) = {}
      BY <1>5, <1>8, <3>1
    <3>3. HeldAdd(input, fs, pos, cmd) = {<<"op", pos, cmd>>}
      BY <1>6, <1>10, <3>1, <3>2
    <3>4. fs[pos] \cup HeldAdd(input, fs, pos, cmd) = fs[pos] \cup {} \cup {<<"op", pos, cmd>>}
      BY <3>3
    <3> QED BY <2>1, <3>1, <3>4
  <2>7. CASE DispatchLabel
    <3>1. c.op = "LABEL" /\ fs' = fs
      BY <1>2, <2>7 DEF DispatchLabel, AtCommand, result
    <3>2. HeldAdd(input, fs, pos, cmd) = {}
      BY <1>6, <3>1
    <3> QED BY <1>11, <3>1, <3>2
  <2> QED BY <2>2, <2>3, <2>4, <2>5, <2>6, <2>7 DEF DispatchCommand
<1>13. ASSUME NEW y, <<"image", y>> \in HeldAdd(input, fs, pos, cmd)
       PROVE  \E s \in Deps(pos) : <<"image", y>> \in fs[s]
  <2>1. <<"image", y>> # <<"op", pos, cmd>> /\ <<"image", y>> # <<"context">>
    OBVIOUS
  <2>2. <<"image", y>> \in HeldRead(input, fs, c) \/ (IsTool(c) /\ <<"image", y>> \in ImageContent(input, ToolImage(c)))
    BY <1>6, <1>13, <2>1
  <2>3. CASE <<"image", y>> \in HeldRead(input, fs, c)
    <3>1. c.from.by # "none" /\ ~FromContext(input, c)
      BY <1>5, <2>1, <2>3
    <3> QED BY <1>5, <2>3, <3>1
  <2>4. CASE IsTool(c) /\ <<"image", y>> \in ImageContent(input, ToolImage(c))
    BY <1>9, <2>4
  <2> QED BY <2>2, <2>3, <2>4
<1> QED BY <1>12, <1>13

LEMMA DispatchCommandContents ==
    ASSUME IInv, VerdictInv, ContentInv, ContextNames, DispatchCommand
    PROVE  ContentInv'
<1>1. CommandStep /\ AtCommand(Op)
  BY DispatchCommandStep
<1>2. /\ DispatchStep /\ phase = "dispatch" /\ phase' = "dispatch" /\ pos' = pos /\ cmd' = cmd + 1
      /\ UNCHANGED <<input, pathsOf, fetched, target>>
  BY <1>1 DEF CommandStep, DispatchStep
<1> SUFFICES ASSUME IsPlainBuild PROVE (ContentsKept /\ FetchesKept /\ PathsKept)'
  BY <1>2 DEF ContentInv, IsPlainBuild
<1>3. /\ IsClear(input) /\ IsPlain(input) /\ ContentsKept /\ FetchesKept /\ PathsKept
  BY <1>2 DEF IsPlainBuild, ContentInv, Underway
<1>4. /\ GraphInv /\ Jobs /\ Registered = Count
      /\ pos \in 1..Count /\ Count \in Nat /\ Current = pos /\ cmd \in Nat /\ cmd > 0
      /\ cmd \in 1..Size(pos) /\ Dispatching = input.stages[pos].cmds[cmd] /\ FromSources = srcs[pos][cmd]
      /\ input.allStages \/ (pos \in reach /\ ~IsReplaced(pos))
  BY <1>1, <1>3, CommandFacts DEF Size
<1>5. /\ pos \in reach /\ ~IsReplaced(pos) /\ Size(pos) \in Nat /\ pos \in Nat /\ pos \in Id /\ 1..Count \subseteq Id
      /\ stage[pos] = input.stages[pos]
  <2>1. Size(pos) \in Nat /\ 1..Count \subseteq Id
    BY <1>4, Recipes DEF IInv, Size
  <2>2. stage[pos] = input.stages[pos]
    BY <1>4 DEF GraphInv, StagesAreStates
  <2> QED BY <1>4, <2>1, <2>2 DEF IsPlainBuild
<1>6. /\ Count' = Count /\ UNCHANGED <<order, base, stage, srcs, reach>>
      /\ \A k : (IsReplaced(k)' <=> IsReplaced(k)) /\ (Resolvable(k)' <=> Resolvable(k))
                /\ (Fetched(k)' <=> Fetched(k)) /\ Given(k)' = Given(k) /\ Size(k)' = Size(k)
  BY <1>2, <1>3, DispatchKeeps
<1>7. PICK a : a = HeldAdd(input, fs, pos, cmd)
  OBVIOUS
<1>8. /\ \A e \in Id : e # pos => fs'[e] = fs[e]
      /\ fs'[pos] = fs[pos] \cup a
      /\ \A y : <<"image", y>> \in a => \E s \in Deps(pos) : <<"image", y>> \in fs[s]
  <2>1. fs' = [fs EXCEPT ![pos] = fs[pos] \cup a]
    BY <1>7, CommandReads
  <2>2. fs \in [Id -> SUBSET Vertex(Id)]
    BY DEF IInv, TypeOK
  <2> QED BY <1>5, <1>7, <2>1, <2>2, CommandReads
<1>9. ASSUME NEW k \in 1..Count PROVE (IsOpened(k)' <=> IsOpened(k)) /\ IsOpened(pos)
  <2>1. Entered(k)' <=> Entered(k)
    BY <1>2, <1>4, <1>6 DEF Entered
  <2>2. IsOpened(pos)
    BY <1>2, <1>4, <1>5 DEF IsOpened, Entered, Fetched
  <2> QED BY <1>6, <2>1, <2>2 DEF IsOpened
<1>10. ASSUME NEW k \in 1..Count, NEW i \in 1..Size(k), k < pos \/ (k = pos /\ i < cmd + 1), k \in reach, ~IsReplaced(k)
       PROVE  Sound(input, k, input.stages[k].cmds[i])
  <2>1. ClearVerdict
    BY <1>2 DEF ClearVerdict, VerdictIsRight
  <2>2. VerdictInv'
    BY <2>1, DispatchCommandVerdict
  <2>3. CommandsAreSound'
    BY <1>2, <1>3, <2>2 DEF VerdictInv, Underway
  <2>4. Dispatched(k, i)'
    BY <1>2, <1>6, <1>10 DEF Dispatched
  <2> QED BY <1>2, <1>6, <2>3, <2>4 DEF CommandsAreSound, Size
<1>11. PICK g : g = fs'
  OBVIOUS
<1>12. ASSUME NEW k \in 1..Count, k <= pos, NEW j \in 1..Count, j < k \/ IsReplaced(j) PROVE fs[j] = g[j]
  <2>1. j # pos
    BY <1>4, <1>5, <1>12
  <2> QED BY <1>5, <1>8, <1>11, <2>1
<1>13. fs'[pos] = Held(input, g, pos, cmd)
  <2>1. cmd - 1 \in Nat /\ (cmd - 1) + 1 = cmd /\ cmd - 1 <= Size(pos) /\ pos <= pos
    BY <1>4, <1>5
  <2>2. fs[pos] = Held(input, fs, pos, cmd - 1)
    <3>1. ~(pos < pos)
      BY <1>5
    <3> QED BY <1>2, <1>3, <1>4, <1>9, <3>1 DEF ContentsKept
  <2>3. \A i \in 1..(cmd - 1) : Sound(input, pos, input.stages[pos].cmds[i])
    <3> SUFFICES ASSUME NEW i \in 1..(cmd - 1) PROVE i \in 1..Size(pos) /\ i < cmd + 1
      BY <1>4, <1>5, <1>10
    <3> QED BY <1>4, <1>5
  <2>4. /\ \A i \in 1..Size(pos) : Sound(input, pos, input.stages[pos].cmds[i]) =>
              HeldAdd(input, fs, pos, i) = HeldAdd(input, g, pos, i)
        /\ \A m \in Nat : m <= Size(pos) /\ (\A i \in 1..m : Sound(input, pos, input.stages[pos].cmds[i])) =>
              Held(input, fs, pos, m) = Held(input, g, pos, m)
    <3>1. GraphInv /\ IsPlain(input) /\ pos \in 1..Count
      BY <1>3, <1>4
    <3>2. \A j \in 1..Count : j < pos \/ IsReplaced(j) => fs[j] = g[j]
      BY <1>12, <2>1, <3>1
    <3> QED BY <3>1, <3>2, HeldStays
  <2>5. Held(input, fs, pos, cmd - 1) = Held(input, g, pos, cmd - 1)
    BY <2>1, <2>3, <2>4
  <2>6. HeldAdd(input, fs, pos, cmd) = HeldAdd(input, g, pos, cmd)
    <3>1. Sound(input, pos, input.stages[pos].cmds[cmd])
      <4>1. cmd < cmd + 1
        BY <1>4
      <4> QED BY <1>4, <1>5, <1>10, <4>1
    <3>2. cmd \in 1..Size(pos)
      BY <1>4
    <3> QED BY <2>4, <3>1, <3>2
  <2>7. Held(input, g, pos, cmd) = Held(input, g, pos, cmd - 1) \cup HeldAdd(input, g, pos, cmd)
    BY <2>1, HeldStep
  <2> QED BY <1>7, <1>8, <2>2, <2>5, <2>6, <2>7
<1>14. ASSUME NEW k \in 1..Count, IsOpened(k), k # pos
       PROVE  k < pos /\ fs'[k] = Held(input, g, k, Size(k))
  <2>1. k < pos /\ k <= pos
    <3>1. k <= pos
      BY <1>2, <1>14, OpenedAreSound
    <3> QED BY <1>5, <1>14, <3>1
  <2>2. \A i \in 1..Size(k) : Sound(input, k, input.stages[k].cmds[i])
    BY <1>2, <1>14, <2>1, OpenedAreSound
  <2>3. fs[k] = Held(input, fs, k, Size(k))
    BY <1>2, <1>3, <1>14, <2>1 DEF ContentsKept
  <2>4. Size(k) \in Nat /\ Size(k) <= Size(k)
    BY Recipes DEF IInv, Size
  <2>5. Held(input, fs, k, Size(k)) = Held(input, g, k, Size(k))
    <3>1. \A j \in 1..Count : j < k \/ IsReplaced(j) => fs[j] = g[j]
      BY <1>12, <2>1
    <3>2. GraphInv /\ IsPlain(input)
      BY <1>3, <1>4
    <3> QED BY <2>2, <2>4, <3>1, <3>2, HeldStays
  <2>6. fs'[k] = fs[k]
    BY <1>5, <1>8, <1>14
  <2> QED BY <2>1, <2>3, <2>5, <2>6
<1>15. ContentsKept'
  <2>1. ASSUME NEW d \in Id, ~IsOpened(d)'
        PROVE  fs'[d] = IF Resolvable(d)' THEN ImageContent(input', stage'[d].image) ELSE Given(d)'
    <3>1. d # pos /\ ~IsOpened(d)
      <4>1. d \in 1..Count => d # pos /\ ~IsOpened(d)
        BY <1>4, <1>9, <2>1
      <4>2. d \notin 1..Count => d # pos /\ ~IsOpened(d)
        BY <1>4 DEF IsOpened
      <4> QED BY <4>1, <4>2
    <3>2. fs[d] = IF Resolvable(d) THEN ImageContent(input, stage[d].image) ELSE Given(d)
      BY <1>2, <1>3, <3>1 DEF ContentsKept
    <3> QED BY <1>2, <1>6, <1>8, <3>1, <3>2
  <2>2. cmd' - 1 = cmd /\ cmd' - 1 <= Len(stage'[Current'].cmds)
    <3>1. Current' = pos
      BY <1>2, <1>4, <1>6 DEF Current
    <3> HIDE DEF Current
    <3> QED BY <1>2, <1>4, <1>5, <1>6, <3>1 DEF Size
  <2>3. ASSUME NEW k \in 1..Count, IsOpened(k)'
        PROVE  fs'[k] = Held(input, g, k, IF k < pos THEN Size(k) ELSE cmd)
    <3>1. CASE k = pos
      <4>1. ~(pos < pos)
        BY <1>5
      <4> QED BY <1>13, <3>1, <4>1
    <3>2. CASE k # pos
      BY <1>9, <1>14, <2>3, <3>2
    <3> QED BY <3>1, <3>2
  <2>4. \A k \in 1..Count' : IsOpened(k)' => fs'[k] = Held(input', fs', k, IF k < pos' THEN Size(k)' ELSE cmd' - 1)
    BY <1>2, <1>6, <1>11, <2>2, <2>3
  <2> HIDE DEF Current
  <2> QED BY <1>2, <2>1, <2>2, <2>4 DEF ContentsKept
<1>16. FetchesKept'
  <2>1. ASSUME NEW d \in reach, NEW y \in Name, <<"image", y>> \in fs'[d] PROVE y \in fetched
    <3>0. reach \subseteq Id
      BY DEF IInv, TypeOK
    <3>1. CASE d = pos /\ <<"image", y>> \in a
      <4>1. PICK s \in Deps(pos) : <<"image", y>> \in fs[s]
        BY <1>8, <3>1
      <4>2. s \in reach
        <5>1. reach = Reachable(target)
          BY <1>2, <1>4 DEF Jobs
        <5>2. Parents(pos) \subseteq reach
          BY <1>4, <1>5, <5>1, ReachFacts
        <5>3. s # None
          <6>1. s \in Id
            BY <1>4, SourceFacts
          <6> QED BY <6>1, NoneIsNoState
        <5> QED BY <5>2, <5>3 DEF Parents
      <4> QED BY <1>3, <4>1, <4>2 DEF FetchesKept
    <3>2. CASE ~(d = pos /\ <<"image", y>> \in a)
      <4>1. <<"image", y>> \in fs[d]
        BY <1>8, <2>1, <3>0, <3>2
      <4> QED BY <1>3, <4>1 DEF FetchesKept
    <3> QED BY <3>1, <3>2
  <2>2. \A y \in fetched : \E d \in reach : Resolvable(d) /\ stage[d].image = y /\ y \notin input.named
    BY <1>3 DEF FetchesKept
  <2> QED BY <1>2, <1>6, <2>1, <2>2 DEF FetchesKept
<1>17. PathsKept'
  <2>1. ASSUME NEW d \in Id, ~IsOpened(d)' PROVE pathsOf'[d] = d
    <3>1. ~IsOpened(d)
      BY <1>9, <2>1 DEF IsOpened
    <3> QED BY <1>2, <1>3, <3>1 DEF PathsKept
  <2>2. \A k \in 1..Count : IsOpened(k)' => pathsOf'[k] = IF base[k] = None THEN k ELSE pathsOf'[base[k]]
    BY <1>2, <1>3, <1>9 DEF PathsKept
  <2>3. paths \in [Id -> SUBSET Path] /\ pathsOf \in [Id -> Id]
    BY DEF IInv, TypeOK
  <2>4. \A e \in Id : paths[e] \subseteq paths'[e]
    <3>1. CASE DispatchCopyFrom
      <4>1. paths' = [paths EXCEPT ![pathsOf[FromSources[1]]] = @ \cup {Dispatching.path}]
        BY <3>1 DEF DispatchCopyFrom
      <4> HIDE DEF FromSources, Dispatching
      <4> QED BY <2>3, <4>1
    <3>2. CASE ~DispatchCopyFrom
      BY <3>2 DEF DispatchCommand, DispatchAdd, DispatchCopyContext, DispatchTool, DispatchConvert, DispatchQuantize,
                  RunTool, DispatchCat, DispatchLabel, result
    <3> QED BY <3>1, <3>2
  <2>5. ASSUME NEW k \in 1..Count, NEW i \in 1..Size(k), NEW c, c = input.stages[k].cmds[i], Dispatched(k, i)',
               c.op = "COPY", srcs[k][i] # <<>>
        PROVE  c.path \in paths'[pathsOf[srcs[k][i][1]]]
    <3>1. (k < pos \/ (k = pos /\ i < cmd + 1)) /\ (input.allStages \/ (k \in reach /\ ~IsReplaced(k)))
      BY <1>2, <1>6, <2>5 DEF Dispatched
    <3>2. Size(k) \in Nat /\ i \in Nat
      BY Recipes DEF IInv, Size
    <3>3. CASE k = pos /\ i = cmd
      <4>1. c = Dispatching /\ FromSources = srcs[k][i]
        BY <1>4, <2>5, <3>3
      <4>2. DispatchCopyFrom
        BY <2>5, <4>1, CommandIsFine
      <4>3. FromSources[1] \in Id
        BY <4>2, CopySource DEF IInv
      <4>4. paths' = [paths EXCEPT ![pathsOf[FromSources[1]]] = @ \cup {Dispatching.path}]
        BY <4>2 DEF DispatchCopyFrom
      <4> HIDE DEF FromSources, Dispatching
      <4> QED BY <2>3, <4>1, <4>3, <4>4
    <3>4. CASE ~(k = pos /\ i = cmd)
      <4>1. k < pos \/ (k = pos /\ i < cmd)
        BY <1>4, <3>1, <3>2, <3>4
      <4>2. Dispatched(k, i)
        BY <3>1, <4>1 DEF Dispatched
      <4>3. c.path \in paths[pathsOf[srcs[k][i][1]]]
        BY <1>2, <1>3, <2>5, <4>2 DEF PathsKept
      <4>4. srcs[k][i][1] \in Id
        <5>1. Sound(input, k, c)
          BY <1>10, <2>5, <3>1 DEF IsPlainBuild
        <5>2. k <= pos
          BY <1>5, <3>1
        <5> QED BY <1>2, <1>4, <1>5, <2>5, <5>1, <5>2, CopySourceStays
      <4> QED BY <2>3, <2>4, <4>3, <4>4
    <3> QED BY <3>3, <3>4
  <2> QED BY <1>2, <1>6, <2>1, <2>2, <2>5 DEF PathsKept
<1> QED BY <1>15, <1>16, <1>17

\* Of the states that are no stages, only those for "context" bear its name.
LEMMA FillCommandNames ==
    ASSUME IInv, IInv', VerdictInv, ContextNames, FillCommand
    PROVE  ContextNames'
<1> SUFFICES ASSUME IsClear(input)', Underway', NEW d \in Id, (d > Count)', d <= n'
             PROVE  stage'[d].name = Context <=> d \notin implicit'
  BY DEF ContextNames
<1>0. PICK c : c = Filling
  OBVIOUS
<1>1. /\ input' = input /\ Count' = Count /\ phase = "fill" /\ pos <= Count /\ cmd <= Len(stage[pos].cmds)
  BY DEF FillCommand, Count
<1>2. IsClear(input) /\ Underway /\ TypeOK
  BY <1>1 DEF IInv, Underway
<1>3. StagesAreStates /\ ImagesAreStates
  BY <1>2 DEF VerdictInv
<1>4. ~(c.from.by = "index" /\ c.from.index >= Len(order))
  <2>1. phase' # "failed"
    BY DEF Underway
  <2> QED BY <1>0, <2>1 DEF FillCommand, Fail
<1>5. /\ n' \in Nat /\ n <= n' /\ implicit' = implicit \cup Added(c)
      /\ \A e \in Id : e <= n => stage'[e] = stage[e]
  BY <1>0, <1>1, <1>2, <1>3, <1>4, FillStep
<1>6. /\ NewFrom(c) <=> FromNew(c)
      /\ FromContext(input, c) <=> NewFrom(c) /\ c.from.name = Context
      /\ FromId(c) = IF FromNew(c) THEN n + 1 ELSE FromStage(input, c.from)
      /\ ToolId(c) = IF FromNew(c) THEN n + 2 ELSE n + 1
      /\ FromStage(input, c.from) \in 0..Count
  BY <1>0, <1>1, <1>2, <1>3, <1>4, FoundFacts
<1>7. n \in Nat /\ Count \in Nat /\ Id \subseteq Nat /\ d \in Nat
  BY <1>2, Recipes
<1>8. NoName # Context
  BY NameAssumption
<1>9. stage' = [e \in Id |-> Made(c, e)] /\ n' = n + (IF NewFrom(c) THEN 1 ELSE 0) + (IF IsTool(c) THEN 1 ELSE 0)
  BY <1>0, <1>4 DEF FillCommand
<1>10. FromImage(input, c) <=> FromNew(c) /\ c.from.name # Context
  BY <1>6 DEF FromNew, FromImage, FromContext
<1>11. n >= Count
  BY <1>1, <1>3 DEF StagesAreStates
<1>12. CASE d <= n
  <2>1. stage'[d] = stage[d]
    BY <1>5, <1>12
  <2>2. d \notin Added(c)
    <3>1. d # ToolId(c) /\ (FromNew(c) => d # FromId(c))
      BY <1>6, <1>7, <1>12
    <3>2. FromImage(input, c) => FromNew(c)
      BY <1>10
    <3> QED BY <3>1, <3>2 DEF Added
  <2>3. stage[d].name = Context <=> d \notin implicit
    BY <1>1, <1>2, <1>12 DEF ContextNames
  <2> QED BY <1>5, <2>1, <2>2, <2>3
<1>13. CASE d > n
  <2>1. d \notin implicit
    BY <1>3, <1>7, <1>13 DEF ImagesAreStates
  <2>2. stage'[d] = Made(c, d)
    BY <1>9
  <2>3. CASE FromNew(c) /\ d = FromId(c)
    <3>1. Made(c, d) = IF c.from.name = Context
                       THEN [name |-> Context, image |-> Scratch, cmds |-> <<>>]
                       ELSE [name |-> NoName, image |-> c.from.name, cmds |-> <<>>]
      BY <1>6, <1>7, <2>3 DEF Made
    <3>2. stage'[d].name = Context <=> c.from.name = Context
      <4>1. CASE c.from.name = Context
        BY <2>2, <3>1, <4>1
      <4>2. CASE c.from.name # Context
        <5>1. stage'[d].name = NoName
          BY <2>2, <3>1, <4>2
        <5> QED BY <1>8, <4>2, <5>1
      <4> QED BY <4>1, <4>2
    <3>3. d # ToolId(c)
      BY <1>6, <1>7, <2>3
    <3>4. d \in Added(c) <=> FromImage(input, c)
      BY <2>3, <3>3 DEF Added
    <3> QED BY <1>5, <1>10, <2>1, <2>3, <3>2, <3>4
  <2>4. CASE ~(FromNew(c) /\ d = FromId(c))
    <3>1. IsTool(c) /\ d = ToolId(c)
      BY <1>6, <1>7, <1>9, <1>13, <2>4
    <3>2. Made(c, d) = [name |-> NoName, image |-> ToolImage(c), cmds |-> <<>>]
      BY <1>6, <2>4, <3>1 DEF Made
    <3>3. stage'[d].name = NoName
      BY <2>2, <3>2
    <3>4. d \in Added(c)
      BY <3>1 DEF Added
    <3> QED BY <1>5, <1>8, <3>3, <3>4
  <2> QED BY <2>3, <2>4
<1> QED BY <1>7, <1>12, <1>13

LEMMA ContextNamesNext ==
    ASSUME IInv, IInv', VerdictInv, ContextNames, [Next]_vars
    PROVE  ContextNames'
<1>1. CASE FillCommand
  BY <1>1, FillCommandNames
<1>2. CASE RegisterStage
  BY <1>2 DEF RegisterStage, Fail, ContextNames, Underway
<1>3. CASE SelectTarget
  <2> SUFFICES ASSUME IsClear(input)', Underway', NEW d \in Id, (d > Count)', d <= n'
               PROVE  FALSE
    BY DEF ContextNames
  <2>1. phase = "register" /\ pos > Count /\ UNCHANGED <<input, n>> /\ Count' = Count
    BY <1>3 DEF SelectTarget, graph, Count
  <2>2. TypeOK /\ IsClear(input)
    BY <2>1 DEF IInv
  <2>3. n \in 0..Count
    BY <2>1, <2>2, Registering
  <2>4. Count \in Nat /\ Id \subseteq Nat
    BY <2>2, Recipes
  <2> QED BY <2>1, <2>3, <2>4
<1>4. CASE UNCHANGED <<input, graph>> /\ (Underway' => Underway) /\ (phase = "register" => phase' = "register" \/ ~Underway')
  <2>1. Count' = Count /\ IsClear(input)' = IsClear(input)
    BY <1>4 DEF Count
  <2> SUFFICES ASSUME IsClear(input), Underway', phase' # "register"
               PROVE  \A d \in Id : d > Count /\ d <= n => (stage[d].name = Context <=> d \notin implicit)
    BY <1>4, <2>1 DEF ContextNames, graph
  <2> QED BY <1>4 DEF ContextNames
<1>5. CASE UNCHANGED vars
  BY <1>4, <1>5 DEF vars, Underway
<1>6. CASE FillNextStage \/ Validate \/ StartResolve \/ FinishResolve
  BY <1>4, <1>6 DEF FillNextStage, Validate, StartResolve, FinishResolve, Fail, Underway
<1>7. CASE \E k \in DOMAIN job : ResolveNamed(k) \/ ResolveConfig(k) \/ Cancel(k)
  BY <1>4, <1>7 DEF ResolveNamed, ResolveConfig, Cancel, Underway
<1>8. CASE SkipState \/ EnterState \/ LeaveState \/ DispatchFails \/ Finish
  BY <1>4, <1>8 DEF SkipState, EnterState, LeaveState, DispatchFails, AtCommand, Finish, Fail, Underway
<1>9. CASE DispatchCommand
  BY <1>4, <1>9 DEF DispatchCommand, DispatchAdd, DispatchCopyContext, DispatchCopyFrom, DispatchTool,
        DispatchConvert, DispatchQuantize, RunTool, DispatchCat, DispatchLabel, AtCommand, Underway
<1> QED BY <1>1, <1>2, <1>3, <1>5, <1>6, <1>7, <1>8, <1>9 DEF Next, DispatchCommand, DispatchTool

LEMMA Induction ==
    ASSUME NEW S \in SUBSET Nat, 0 \in S, \A m \in S : m + 1 \in S
    PROVE  S = Nat
<1> SUFFICES ASSUME Nat \ S # {} PROVE FALSE
  OBVIOUS
<1>1. PICK m \in Nat \ S : \A x \in Nat \ S : m <= x
  BY LeastNumber
<1>2. m # 0 /\ m - 1 \in Nat
  BY <1>1
<1>3. m - 1 \in S
  BY <1>1, <1>2
<1> QED BY <1>1, <1>3
-----------------------------------------------------------------------------
\* What the target holds in the end.

\* The dispatch loop has come to its end.
IsOver == phase = "dispatch" /\ pos > Len(order)
UsedStages == {k \in 1..Count : k \in reach}

LEMMA OverFacts ==
    ASSUME IInv, VerdictInv, ContentInv, IsPlainBuild, IsOver
    PROVE  /\ GraphInv /\ SettledStages /\ IsPlain(input) /\ target \in UsedStages
           /\ \A k \in 1..Count : IsReplaced(k) => fs[k] = {<<"local", input.stages[k].name>>}
           /\ \A k \in UsedStages :
                /\ base[k] = BaseStage(input, k)
                /\ BaseStage(input, k) # 0 => BaseStage(input, k) \in UsedStages
                /\ FromStages(input, k) \subseteq UsedStages
                /\ Deps(k) \subseteq reach
                /\ ~IsReplaced(k) => /\ IsOpened(k) /\ fs[k] = Held(input, fs, k, Size(k))
                                     /\ \A i \in 1..Size(k) : Sound(input, k, input.stages[k].cmds[i])
<1>1. GraphInv /\ SettledStages /\ Jobs /\ Registered = Count /\ IsPlain(input)
  BY GraphStands DEF IsPlainBuild, IsOver
<1>2. ContentsKept
  BY DEF ContentInv, IsOver, Underway
<1>3. reach = Reachable(target)
  BY <1>1 DEF Jobs, IsOver
<1>4. target \in reach /\ reach \subseteq Id /\ \A d \in reach : Parents(d) \subseteq reach
  BY <1>1, <1>3, ReachFacts
<1>5. target \in UsedStages
  BY <1>1, <1>4 DEF GraphInv, StagesAreStates, UsedStages
<1>6. Count \in Nat /\ None = 0 /\ Id \subseteq Nat /\ 1..Count \subseteq Id /\ pos \in Nat /\ None \notin Id /\ Len(order) \in Nat
  BY Recipes DEF IInv, TypeOK
<1>7. \A k \in 1..Count : k < pos
  <2>1. Count <= Len(order) /\ pos > Len(order)
    BY <1>1 DEF GraphInv, StagesAreStates, IsOver
  <2> QED BY <1>6, <2>1
<1>8. ASSUME NEW k \in 1..Count, IsReplaced(k) PROVE fs[k] = {<<"local", input.stages[k].name>>}
  <2>1. ~IsOpened(k) /\ k \in Id
    BY <1>6, <1>8 DEF IsOpened
  <2>2. k \notin implicit
    BY <1>1, <1>6 DEF GraphInv, ImagesAreStates
  <2>3. ~Resolvable(k)
    BY <1>8, <2>2 DEF Resolvable
  <2>4. fs[k] = Given(k)
    BY <1>2, <2>1, <2>3 DEF ContentsKept, IsOver
  <2> QED BY <1>1, <1>8, <2>4 DEF Given
<1>9. ASSUME NEW k \in UsedStages
      PROVE  /\ base[k] = BaseStage(input, k)
             /\ BaseStage(input, k) # 0 => BaseStage(input, k) \in UsedStages
             /\ FromStages(input, k) \subseteq UsedStages
             /\ Deps(k) \subseteq reach
  <2>1. k \in 1..Count /\ k \in reach
    BY DEF UsedStages
  <2>2. base[k] = BaseStage(input, k)
    BY <1>1, <2>1 DEF GraphInv, StagesAreStates
  <2>3. BaseStage(input, k) = 0 \/ BaseStage(input, k) \in 1..Count
    BY <2>1, BaseFacts
  <2>4. FromStages(input, k) \subseteq Deps(k) /\ FromStages(input, k) \subseteq 1..Count /\ Deps(k) \subseteq Id
    BY <1>1, <2>1, SourceFacts
  <2>5. Parents(k) \subseteq reach
    BY <1>4, <2>1
  <2>6. Deps(k) \subseteq reach /\ (base[k] # None => base[k] \in reach)
    BY <1>6, <2>4, <2>5 DEF Parents
  <2> QED BY <1>6, <2>2, <2>3, <2>4, <2>6 DEF UsedStages
<1>10. ASSUME NEW k \in UsedStages, ~IsReplaced(k)
       PROVE  /\ IsOpened(k) /\ fs[k] = Held(input, fs, k, Size(k))
              /\ \A i \in 1..Size(k) : Sound(input, k, input.stages[k].cmds[i])
  <2>1. k \in 1..Count /\ k \in reach /\ k < pos
    BY <1>7 DEF UsedStages
  <2>2. IsOpened(k)
    BY <1>10, <2>1 DEF IsOpened, Entered, Fetched, IsOver
  <2>3. fs[k] = Held(input, fs, k, Size(k))
    BY <1>2, <2>1, <2>2 DEF ContentsKept, IsOver
  <2>4. \A i \in 1..Size(k) : Sound(input, k, input.stages[k].cmds[i])
    BY <2>1, <2>2, OpenedAreSound DEF IsOver
  <2> QED BY <2>2, <2>3, <2>4
<1> QED BY <1>1, <1>5, <1>8, <1>9, <1>10

\* A stage goes by what it refers to.
LEMMA HeldByReferences ==
    ASSUME IInv, NEW k \in 1..Count, NEW f, NEW g,
           BaseStage(input, k) # 0 => f[BaseStage(input, k)] = g[BaseStage(input, k)],
           \A j \in FromStages(input, k) : f[j] = g[j]
    PROVE  Held(input, f, k, Size(k)) = Held(input, g, k, Size(k))
<1>1. HeldBase(input, f, k) = HeldBase(input, g, k)
  BY DEF HeldBase
<1>2. ASSUME NEW i \in 1..Size(k) PROVE HeldAdd(input, f, k, i) = HeldAdd(input, g, k, i)
  <2>1. PICK c : c = input.stages[k].cmds[i]
    OBVIOUS
  <2>2. c \in Commands(input, k)
    <3>1. input.stages[k].cmds \in Seq(Command)
      BY Recipes DEF IInv
    <3> QED BY <2>1, <3>1 DEF Size, Commands
  <2>3. FromStage(input, c.from) # 0 => f[FromStage(input, c.from)] = g[FromStage(input, c.from)]
    BY <2>2 DEF FromStages
  <2>4. HeldRead(input, f, c) = HeldRead(input, g, c)
    BY <2>3 DEF HeldRead
  <2> QED BY <2>1, <2>4 DEF HeldAdd
<1> QED BY <1>1, <1>2 DEF Held

\* The content of the stages, from what they hold one reference less deep.
Deeper(in, below) ==
    [k \in Positions(in) |->
        IF Replaced(in, in.stages[k]) THEN {<<"local", in.stages[k].name>>}
        ELSE Held(in, below, k, Len(in.stages[k].cmds))]

LEMMA Depths ==
    ASSUME NEW in \in Input
    PROVE  \E f : /\ Content(in) = f[Len(in.stages)]
                  /\ \A m \in 0..Len(in.stages) :
                       f[m] = IF m = 0 THEN [k \in Positions(in) |-> {}] ELSE Deeper(in, f[m - 1])
<1> DEFINE Read(below, c) ==
               CASE FromStage(in, c.from) # 0 -> below[FromStage(in, c.from)]
                 [] FromImage(in, c)          -> ImageContent(in, c.from.name)
                 [] FromContext(in, c)        -> {<<"context">>}
                 [] c.from = FromNothing /\ c.op \in {"ADD", "COPY"} /\ c.path # Remote -> {<<"context">>}
                 [] OTHER -> {}
           Add(below, k, i) ==
               LET c == in.stages[k].cmds[i] IN
               IF c.op = "LABEL" THEN {}
               ELSE {<<"op", k, i>>} \cup Read(below, c)
                      \cup (IF IsTool(c) THEN ImageContent(in, ToolImage(c)) ELSE {})
           Base(below, k) ==
               IF BaseStage(in, k) # 0 THEN below[BaseStage(in, k)]
               ELSE ImageContent(in, in.stages[k].image)
           Whole(below) ==
               [k \in Positions(in) |->
                   IF Replaced(in, in.stages[k]) THEN {<<"local", in.stages[k].name>>}
                   ELSE Base(below, k) \cup UNION {Add(below, k, i) : i \in DOMAIN in.stages[k].cmds}]
           none == [k \in Positions(in) |-> {}]
           N == Len(in.stages)
           F == CHOOSE content : content =
                    [depth \in 0..Len(in.stages) |->
                        IF depth = 0 THEN [k \in Positions(in) |-> {}] ELSE Whole(content[depth - 1])]
<1>1. N \in Nat /\ \A k \in Positions(in) : in.stages[k].cmds \in Seq(Command)
  <2>1. in.stages \in Seq(Stage)
    BY DEF Input
  <2>2. N \in Nat /\ \A k \in Positions(in) : in.stages[k] \in Stage
    BY <2>1 DEF Positions
  <2> QED BY <2>2 DEF Stage
<1>2. Content(in) = F[N]
  BY DEF Content
<1>3. ASSUME NEW below PROVE Whole(below) = Deeper(in, below)
  <2>1. \A k \in Positions(in) : DOMAIN in.stages[k].cmds = 1..Len(in.stages[k].cmds)
    BY <1>1
  <2>2. \A c : Read(below, c) = HeldRead(in, below, c)
    BY DEF HeldRead
  <2>3. \A k, i : Add(below, k, i) = HeldAdd(in, below, k, i)
    <3> HIDE DEF Read
    <3> QED BY <2>2 DEF HeldAdd
  <2>4. \A k : Base(below, k) = HeldBase(in, below, k)
    BY DEF HeldBase
  <2> HIDE DEF Add, Base
  <2> QED BY <2>1, <2>3, <2>4 DEF Deeper, Held
<1> HIDE DEF Whole
<1>4. F = CHOOSE content : content = [depth \in 0..N |-> IF depth = 0 THEN none ELSE Whole(content[depth - 1])]
  OBVIOUS
<1> HIDE DEF F, none, N
<1>5. \E f : f = [depth \in 0..N |-> IF depth = 0 THEN none ELSE Whole(f[depth - 1])]
  <2> DEFINE S == {m \in Nat : \E f : f = [depth \in 0..m |-> IF depth = 0 THEN none ELSE Whole(f[depth - 1])]}
  <2>1. 0 \in S
    <3>1. [depth \in 0..0 |-> none] = [depth \in 0..0 |-> IF depth = 0 THEN none ELSE Whole([d \in 0..0 |-> none][depth - 1])]
      OBVIOUS
    <3> QED BY <3>1
  <2>2. ASSUME NEW m \in S PROVE m + 1 \in S
    <3>1. PICK f : f = [depth \in 0..m |-> IF depth = 0 THEN none ELSE Whole(f[depth - 1])]
      OBVIOUS
    <3>2. PICK g : g = [depth \in 0..(m + 1) |-> IF depth = 0 THEN none ELSE Whole(f[depth - 1])]
      OBVIOUS
    <3>3. m \in Nat
      OBVIOUS
    <3>4. \A depth \in 0..m : g[depth] = f[depth]
      BY <3>1, <3>2, <3>3
    <3>5. \A depth \in 0..(m + 1) : depth # 0 => f[depth - 1] = g[depth - 1]
      BY <3>3, <3>4
    <3>6. g = [depth \in 0..(m + 1) |-> IF depth = 0 THEN none ELSE Whole(g[depth - 1])]
      <4>1. \A depth \in 0..(m + 1) : (IF depth = 0 THEN none ELSE Whole(f[depth - 1])) = (IF depth = 0 THEN none ELSE Whole(g[depth - 1]))
        BY <3>5
      <4> QED BY <3>2, <4>1
    <3> QED BY <3>3, <3>6
  <2>3. S = Nat
    <3> HIDE DEF S
    <3>1. S \in SUBSET Nat
      BY DEF S
    <3> QED BY <2>1, <2>2, <3>1, Induction
  <2> QED BY <1>1, <2>3
<1>6. F = [depth \in 0..N |-> IF depth = 0 THEN none ELSE Whole(F[depth - 1])]
  BY <1>4, <1>5
<1>7. \A m \in 0..N : F[m] = IF m = 0 THEN none ELSE Deeper(in, F[m - 1])
  BY <1>3, <1>6
<1> QED BY <1>2, <1>7 DEF none, N

\* The stages that a dispatched one refers to come before it, or are replaced.
LEMMA ReferencesAreReady ==
    ASSUME IInv, VerdictInv, ContentInv, IsPlainBuild, IsOver, NEW k \in UsedStages, ~IsReplaced(k)
    PROVE  /\ BaseStage(input, k) # 0 => BaseStage(input, k) \in UsedStages /\ BaseStage(input, k) < k
           /\ \A j \in FromStages(input, k) : j \in UsedStages /\ (j < k \/ IsReplaced(j))
<1>1. k \in 1..Count /\ GraphInv /\ IsPlain(input)
  BY OverFacts DEF UsedStages
<1>2. /\ BaseStage(input, k) # 0 => BaseStage(input, k) \in UsedStages
      /\ FromStages(input, k) \subseteq UsedStages
      /\ \A i \in 1..Size(k) : Sound(input, k, input.stages[k].cmds[i])
  BY OverFacts
<1>3. BaseStage(input, k) # 0 => BaseStage(input, k) < k
  BY <1>1, BaseFacts
<1>4. ASSUME NEW j \in FromStages(input, k) PROVE j < k \/ IsReplaced(j)
  <2>1. input.stages[k].cmds \in Seq(Command)
    BY <1>1, Recipes DEF IInv
  <2>2. PICK c \in Commands(input, k) : j = FromStage(input, c.from) /\ j # 0
    BY DEF FromStages
  <2>3. PICK i \in 1..Size(k) : c = input.stages[k].cmds[i]
    BY <2>1 DEF Commands, Size
  <2>4. Sound(input, k, c)
    BY <1>2, <2>3
  <2> QED BY <1>1, <2>2, <2>3, <2>4, PlainReads
<1> QED BY <1>2, <1>3, <1>4

\* By depth: a stage needs as many references as stages come before it, and one
\* more when a stage behind it is replaced.
LEMMA MeaningIsReached ==
    ASSUME IInv, VerdictInv, ContentInv, IsPlainBuild, IsOver
    PROVE  fs[target] = Content(input)[target]
<1>1. /\ target \in UsedStages
      /\ \A k \in 1..Count : IsReplaced(k) => fs[k] = {<<"local", input.stages[k].name>>}
      /\ \A k \in UsedStages : ~IsReplaced(k) => fs[k] = Held(input, fs, k, Size(k))
  BY OverFacts
<1>2. input \in Input /\ Count \in Nat /\ Count \in 1..MaxStates /\ Positions(input) = 1..Count
  BY Recipes DEF IInv
<1>3. PICK f : /\ Content(input) = f[Len(input.stages)]
               /\ \A m \in 0..Len(input.stages) :
                    f[m] = IF m = 0 THEN [k \in Positions(input) |-> {}] ELSE Deeper(input, f[m - 1])
  BY <1>2, Depths
<1>4. Content(input) = f[Count] /\ \A m \in 1..Count : f[m] = Deeper(input, f[m - 1])
  BY <1>2, <1>3 DEF Count
<1>5. ASSUME NEW m \in 1..Count, NEW k \in 1..Count
      PROVE  f[m][k] = IF IsReplaced(k) THEN {<<"local", input.stages[k].name>>} ELSE Held(input, f[m - 1], k, Size(k))
  <2>1. f[m] = Deeper(input, f[m - 1])
    BY <1>4
  <2> QED BY <1>2, <2>1 DEF Deeper, IsReplaced, Size
<1> DEFINE NoneAfter(k) == \A r \in 1..Count : IsReplaced(r) => ~(r > k)
           Deep(m, k) == m >= k /\ (m = k => NoneAfter(k))
           T == {k \in UsedStages : ~IsReplaced(k) /\ \E m \in 0..Count : Deep(m, k) /\ f[m][k] # fs[k]}
<1>6. UsedStages \subseteq 1..Count /\ T \in SUBSET Nat
  BY <1>2 DEF UsedStages
<1>7. T = {}
  <2> SUFFICES ASSUME T # {} PROVE FALSE
    OBVIOUS
  <2> HIDE DEF T
  <2>1. PICK k \in T : \A x \in T : k <= x
    BY <1>6, LeastNumber
  <2>2. PICK m \in 0..Count : k \in UsedStages /\ ~IsReplaced(k) /\ Deep(m, k) /\ f[m][k] # fs[k]
    BY <2>1 DEF T
  <2>3. k \in 1..Count /\ m \in 1..Count /\ m - 1 \in 0..Count /\ k \in Nat
    BY <1>2, <1>6, <2>2
  <2>4. ASSUME NEW j \in UsedStages, j < k \/ IsReplaced(j) PROVE fs[j] = f[m - 1][j]
    <3>1. j \in 1..Count /\ j # k
      BY <1>6, <2>2, <2>3, <2>4
    <3>2. CASE IsReplaced(j)
      <4>1. j > k => m # k
        BY <2>2, <3>1, <3>2
      <4>2. m - 1 \in 1..Count
        BY <1>2, <2>2, <2>3, <3>1, <4>1
      <4>3. f[m - 1][j] = {<<"local", input.stages[j].name>>}
        BY <1>5, <3>1, <3>2, <4>2
      <4> QED BY <1>1, <3>1, <3>2, <4>3
    <3>3. CASE ~IsReplaced(j)
      <4>1. j < k /\ j \in Nat
        BY <1>2, <2>4, <3>1, <3>3
      <4>2. j \notin T
        BY <2>1, <2>3, <4>1
      <4>3. Deep(m - 1, j)
        <5>1. m - 1 >= j
          BY <2>2, <2>3, <4>1
        <5>2. ASSUME m - 1 = j, NEW r \in 1..Count, IsReplaced(r), r > j PROVE FALSE
          <6>1. m = k /\ r >= k
            BY <1>2, <2>2, <2>3, <4>1, <5>2
          <6>2. r # k
            BY <2>2, <5>2
          <6>3. r > k
            BY <1>2, <2>3, <6>1, <6>2
          <6> QED BY <2>2, <5>2, <6>1, <6>3
        <5> QED BY <5>1, <5>2
      <4> HIDE DEF Deep
      <4> QED BY <2>3, <3>3, <4>2, <4>3 DEF T
    <3> QED BY <3>2, <3>3
  <2> HIDE DEF Deep
  <2>5. /\ BaseStage(input, k) # 0 => fs[BaseStage(input, k)] = f[m - 1][BaseStage(input, k)]
        /\ \A j \in FromStages(input, k) : fs[j] = f[m - 1][j]
    BY <2>2, <2>4, ReferencesAreReady
  <2>6. Held(input, fs, k, Size(k)) = Held(input, f[m - 1], k, Size(k))
    BY <2>3, <2>5, HeldByReferences
  <2>7. f[m][k] = Held(input, f[m - 1], k, Size(k)) /\ fs[k] = Held(input, fs, k, Size(k))
    BY <1>1, <1>5, <2>2, <2>3
  <2> QED BY <2>2, <2>6, <2>7
<1>8. target \in 1..Count
  BY <1>1, <1>6
<1>9. CASE IsReplaced(target)
  <2>1. f[Count][target] = {<<"local", input.stages[target].name>>}
    <3>1. Count \in 1..Count
      BY <1>2, <1>8
    <3> QED BY <1>5, <1>8, <1>9, <3>1
  <2> QED BY <1>1, <1>4, <1>8, <1>9, <2>1
<1>10. CASE ~IsReplaced(target)
  <2>1. Deep(Count, target) /\ Count \in 0..Count
    BY <1>2, <1>8
  <2>2. target \notin T
    BY <1>7
  <2>3. f[Count][target] = fs[target]
    <3> HIDE DEF Deep
    <3> QED BY <1>1, <1>10, <2>1, <2>2
  <2> QED BY <1>4, <2>3
<1> QED BY <1>9, <1>10

\* A stage shows all the images of the states that it takes its files from.
LEMMA SourcesAreShown ==
    ASSUME IInv, VerdictInv, ContentInv, IsPlainBuild, IsOver, NEW k \in UsedStages, ~IsReplaced(k),
           NEW e \in Deps(k), NEW x \in Name, <<"image", x>> \in fs[e]
    PROVE  <<"image", x>> \in fs[k]
<1>1. GraphInv /\ IsPlain(input) /\ k \in 1..Count /\ fs[k] = Held(input, fs, k, Size(k)) /\ Registered = Count /\ phase = "dispatch"
  BY OverFacts DEF UsedStages, IsOver, GraphInv, Registered
<1>2. PICK i \in DOMAIN srcs[k] : \E j \in DOMAIN srcs[k][i] : e = srcs[k][i][j]
  BY DEF Deps
<1>3. PICK j \in DOMAIN srcs[k][i] : e = srcs[k][i][j]
  BY <1>2
<1>4. k \in Id /\ srcs[k] \in Seq(Seq(Id)) /\ Id \subseteq Nat /\ Count \in Nat
  <2>1. 1..Count \subseteq Id /\ Id \subseteq Nat /\ Count \in Nat /\ srcs \in [Id -> Seq(Seq(Id))]
    BY Recipes DEF IInv, TypeOK
  <2> QED BY <1>1, <2>1
<1>5. i \in 1..Size(k) /\ j \in 1..Len(srcs[k][i]) /\ e \in Id
  <2>1. i \in 1..Len(srcs[k]) /\ srcs[k][i] \in Seq(Id)
    BY <1>2, <1>4
  <2>2. j \in 1..Len(srcs[k][i]) /\ e \in Id
    BY <1>3, <2>1
  <2> QED BY <1>1, <2>1, <2>2 DEF GraphInv, Filled, Size
<1>6. PICK c : c = input.stages[k].cmds[i]
  OBVIOUS
<1>7. /\ SourcesAre(c, srcs[k][i]) /\ c \in Commands(input, k)
      /\ c.from.by = "none" \/ FromStage(input, c.from) # 0 \/ FromImage(input, c) \/ FromContext(input, c)
  BY <1>1, <1>5, <1>6, SourceFacts DEF Size
<1>8. /\ Len(srcs[k][i]) = (IF c.from.by = "none" THEN 0 ELSE 1) + (IF IsTool(c) THEN 1 ELSE 0)
      /\ c.from.by # "none" => FromIs(c, srcs[k][i][1])
      /\ IsTool(c) => srcs[k][i][Len(srcs[k][i])] \in implicit /\ stage[srcs[k][i][Len(srcs[k][i])]].image = ToolImage(c)
  BY <1>7 DEF SourcesAre
<1>9. (c.from.by # "none" /\ j = 1) \/ (IsTool(c) /\ j = Len(srcs[k][i]))
  BY <1>5, <1>8
<1>10. c.op # "LABEL"
  <2> SUFFICES ASSUME c.op = "LABEL" PROVE FALSE
    OBVIOUS
  <2>1. ~IsTool(c) /\ c.from = FromNothing
    BY <1>1, <1>7, Recipes DEF IInv, IsPlain, IsTool
  <2> QED BY <1>9, <2>1 DEF FromNothing
<1>11. HeldAdd(input, fs, k, i) \subseteq fs[k]
  BY <1>1, <1>5 DEF Held
<1>12. CASE c.from.by # "none" /\ j = 1
  <2>1. FromIs(c, e)
    BY <1>3, <1>8, <1>12
  <2>2. HeldRead(input, fs, c) \subseteq fs[k]
    BY <1>6, <1>10, <1>11 DEF HeldAdd
  <2>3. CASE FromStage(input, c.from) # 0
    <3>1. e = FromStage(input, c.from)
      BY <2>1, <2>3 DEF FromIs
    <3>2. HeldRead(input, fs, c) = fs[e]
      <4>1. ~FromImage(input, c) /\ ~FromContext(input, c) /\ c.from # FromNothing
        BY <1>12, <2>3 DEF FromImage, FromContext, FromNothing
      <4> QED BY <2>3, <3>1, <4>1 DEF HeldRead
    <3> QED BY <2>2, <3>2
  <2>4. CASE FromImage(input, c)
    <3>1. e \in implicit /\ stage[e].image = c.from.name
      BY <2>1, <2>4 DEF FromIs
    <3>2. fs[e] = ImageContent(input, c.from.name)
      BY <1>1, <3>1, ImagesAreLoaded
    <3>3. HeldRead(input, fs, c) = ImageContent(input, c.from.name)
      <4>1. FromStage(input, c.from) = 0 /\ ~FromContext(input, c) /\ c.from # FromNothing
        BY <1>12, <2>4 DEF FromImage, FromContext, FromNothing
      <4> QED BY <2>4, <4>1 DEF HeldRead
    <3> QED BY <2>2, <3>2, <3>3
  <2>5. CASE FromContext(input, c)
    <3>1. e > Count /\ e \notin implicit
      BY <2>1, <2>5 DEF FromIs
    <3>2. e \notin 1..Count
      BY <1>4, <1>5, <3>1
    <3>3. ~IsOpened(e) /\ ~Resolvable(e) /\ Given(e) = {}
      BY <1>1, <3>1, <3>2 DEF IsOpened, Resolvable, Given
    <3>4. fs[e] = {}
      BY <1>1, <1>5, <3>3 DEF ContentInv, ContentsKept, Underway
    <3> QED BY <3>4
  <2> QED BY <1>7, <1>12, <2>3, <2>4, <2>5
<1>13. CASE IsTool(c) /\ j = Len(srcs[k][i])
  <2>1. e \in implicit /\ stage[e].image = ToolImage(c)
    BY <1>3, <1>8, <1>13
  <2>2. fs[e] = ImageContent(input, ToolImage(c))
    BY <1>1, <2>1, ImagesAreLoaded
  <2>3. ImageContent(input, ToolImage(c)) \subseteq fs[k]
    BY <1>6, <1>10, <1>11, <1>13 DEF HeldAdd
  <2> QED BY <2>2, <2>3
<1> QED BY <1>9, <1>12, <1>13

\* The target shows all the images of the states that it reaches.
LEMMA TargetShows ==
    ASSUME IInv, VerdictInv, ContentInv, IsPlainBuild, IsOver, \A k \in 1..Count : ~IsReplaced(k),
           NEW x \in Name, NEW d \in reach, <<"image", x>> \in fs[d]
    PROVE  <<"image", x>> \in fs[target]
<1> DEFINE S == {e \in Id : e \in reach /\ (<<"image", x>> \in fs[e] => <<"image", x>> \in fs[target])}
<1>1. GraphInv /\ target \in UsedStages /\ reach = Reachable(target) /\ Registered = Count /\ IsPlain(input)
  BY OverFacts, GraphStands DEF IsPlainBuild, IsOver, Jobs
<1>2. reach \subseteq Id /\ \A e \in reach : Parents(e) \subseteq reach
  BY <1>1, ReachFacts
<1>3. target \in S /\ S \in SUBSET Id
  BY <1>1, <1>2 DEF UsedStages
<1>4. Count \in Nat /\ None = 0 /\ Id \subseteq Nat /\ \A e \in Id : e \in 1..Count \/ e > Count
  BY Recipes DEF IInv
<1>5. ASSUME NEW e \in S PROVE Parents(e) \subseteq S
  <2> SUFFICES ASSUME NEW b \in Parents(e), <<"image", x>> \in fs[b] PROVE <<"image", x>> \in fs[target]
    BY <1>2
  <2>1. CASE e > Count
    <3>1. base[e] = None /\ srcs[e] = <<>>
      BY <1>1, <2>1 DEF GraphInv, ImagesAreStates
    <3>2. Parents(e) = {}
      BY <3>1 DEF Parents, Deps
    <3> QED BY <3>2
  <2>2. CASE e \in 1..Count
    <3>1. e \in UsedStages /\ ~IsReplaced(e)
      BY <2>2 DEF UsedStages
    <3>2. fs[e] = Held(input, fs, e, Size(e)) /\ base[e] = BaseStage(input, e)
      BY <3>1, OverFacts
    <3>3. CASE b \in Deps(e)
      <4>1. <<"image", x>> \in fs[e]
        BY <3>1, <3>3, SourcesAreShown
      <4> QED BY <4>1
    <3>4. CASE b = base[e] /\ b # None
      <4>1. HeldBase(input, fs, e) = fs[b]
        BY <1>4, <3>2, <3>4 DEF HeldBase
      <4>2. fs[b] \subseteq fs[e]
        BY <3>2, <4>1 DEF Held
      <4> QED BY <4>2
    <3> QED BY <3>3, <3>4 DEF Parents
  <2> QED BY <1>4, <2>1, <2>2
<1>6. d \in S
  <2>1. d \in Reachable(target)
    BY <1>1
  <2> HIDE DEF S
  <2> QED BY <1>3, <1>5, <2>1 DEF Reachable
<1> QED BY <1>6

LEMMA AsNeeded ==
    ASSUME IInv, VerdictInv, ContentInv, IsPlainBuild, IsOver
    PROVE  LET shown == {x \in Name : <<"image", x>> \in fs[target]} IN
           /\ shown \subseteq fetched
           /\ (\A k \in DOMAIN input.stages : ~Replaced(input, input.stages[k])) => fetched \subseteq shown
<1>1. GraphInv /\ target \in UsedStages /\ Registered = Count /\ IsPlain(input)
  BY OverFacts, GraphStands DEF IsPlainBuild, IsOver
<1>2. /\ \A d \in reach : \A x \in Name : <<"image", x>> \in fs[d] => x \in fetched
      /\ \A x \in fetched : \E d \in reach : Resolvable(d) /\ stage[d].image = x /\ x \notin input.named
  BY DEF ContentInv, FetchesKept, IsOver, Underway
<1>3. target \in reach
  BY <1>1 DEF UsedStages
<1>4. ASSUME \A k \in DOMAIN input.stages : ~Replaced(input, input.stages[k]), NEW x \in fetched
      PROVE  x \in Name /\ <<"image", x>> \in fs[target]
  <2>1. PICK d \in reach : Resolvable(d) /\ stage[d].image = x /\ x \notin input.named
    BY <1>2
  <2>2. x \in Name
    BY DEF IInv, TypeOK
  <2>3. \A k \in 1..Count : ~IsReplaced(k)
    <3>1. DOMAIN input.stages = 1..Count
      BY Recipes DEF IInv, Input, Count
    <3> QED BY <1>4, <3>1 DEF IsReplaced
  <2>4. ImageContent(input, x) = {<<"image", x>>}
    BY <2>1 DEF ImageContent, Resolvable
  <2>5. ImageContent(input, x) \subseteq fs[d]
    <3>1. CASE d \in implicit
      BY <2>1, <3>1, ImagesAreLoaded DEF IsOver
    <3>2. CASE d \in 1..Count
      <4>1. d \in UsedStages /\ ~IsReplaced(d)
        BY <2>3, <3>2 DEF UsedStages
      <4>2. fs[d] = Held(input, fs, d, Size(d)) /\ base[d] = BaseStage(input, d)
        BY <4>1, OverFacts
      <4>3. BaseStage(input, d) = 0 /\ input.stages[d].image = x
        BY <1>1, <2>1, <3>2, <4>2 DEF Resolvable, None, GraphInv, StagesAreStates
      <4>4. HeldBase(input, fs, d) = ImageContent(input, x)
        BY <4>3 DEF HeldBase
      <4> QED BY <4>2, <4>4 DEF Held
    <3> QED BY <2>1, <3>1, <3>2 DEF Resolvable
  <2>6. <<"image", x>> \in fs[d]
    BY <2>4, <2>5
  <2> QED BY <2>2, <2>3, <2>6, TargetShows
<1> QED BY <1>2, <1>3, <1>4

\* The chain of FROM leads from each stage to earlier ones, down to its bottom.
LEMMA BottomFacts ==
    ASSUME IInv, GraphInv, NEW d \in Id
    PROVE  /\ base[d] = None \/ (d \in 1..Count /\ base[d] \in 1..Count /\ base[d] < d)
           /\ Bottom(d) = IF base[d] = None \/ (d <= Len(input.stages) /\ Replaced(input, stage[d]))
                          THEN d ELSE Bottom(base[d])
<1> DEFINE P(i) == base[i] = None \/ (i <= Len(input.stages) /\ Replaced(input, stage[i]))
           F == CHOOSE bottom : bottom = [i \in Id |-> IF P(i) THEN i ELSE bottom[base[i]]]
<1>1. /\ Count \in Nat /\ MaxStates \in Nat /\ None = 0 /\ Id \subseteq Nat /\ 1..Count \subseteq Id
      /\ \A i \in Id : i \in 1..Count \/ i > Count
  BY Recipes DEF IInv
<1>2. ASSUME NEW i \in Id PROVE base[i] = None \/ (i \in 1..Count /\ base[i] \in 1..Count /\ base[i] < i)
  <2>1. CASE i \in 1..Count
    <3>1. base[i] = BaseStage(input, i)
      BY <2>1 DEF GraphInv, StagesAreStates, Registered
    <3> QED BY <1>1, <2>1, <3>1, BaseFacts
  <2>2. CASE i > Count
    BY <2>2 DEF GraphInv, ImagesAreStates, Registered
  <2> QED BY <1>1, <2>1, <2>2
<1>3. \A i \in Id : Bottom(i) = F[i]
  BY DEF Bottom
<1> HIDE DEF P
<1>4. \E f : f = [i \in 1..MaxStates |-> IF P(i) THEN i ELSE f[base[i]]]
  <2> DEFINE S == {m \in Nat : m <= MaxStates => \E f : f = [i \in 1..m |-> IF P(i) THEN i ELSE f[base[i]]]}
  <2>1. 0 \in S
    <3>1. 1..0 = {}
      OBVIOUS
    <3>2. [i \in {} |-> 0] = [i \in {} |-> IF P(i) THEN i ELSE [j \in {} |-> 0][base[i]]]
      OBVIOUS
    <3> QED BY <3>1, <3>2
  <2>2. ASSUME NEW m \in S PROVE m + 1 \in S
    <3> SUFFICES ASSUME m + 1 <= MaxStates
                 PROVE  \E f : f = [i \in 1..(m + 1) |-> IF P(i) THEN i ELSE f[base[i]]]
      OBVIOUS
    <3>1. m \in Nat /\ m <= MaxStates
      BY <1>1
    <3>2. PICK f : f = [i \in 1..m |-> IF P(i) THEN i ELSE f[base[i]]]
      BY <3>1
    <3>3. PICK g : g = [i \in 1..(m + 1) |-> IF P(i) THEN i ELSE f[base[i]]]
      OBVIOUS
    <3>4. \A i \in 1..m : g[i] = f[i]
      BY <3>1, <3>2, <3>3
    <3>5. ASSUME NEW i \in 1..(m + 1), ~P(i) PROVE g[base[i]] = f[base[i]]
      <4>1. i \in Id /\ base[i] # None
        BY <1>1, <3>1, <3>5 DEF Id, P
      <4>2. base[i] \in 1..m
        BY <1>1, <1>2, <3>1, <4>1
      <4> QED BY <3>4, <4>2
    <3>6. g = [i \in 1..(m + 1) |-> IF P(i) THEN i ELSE g[base[i]]]
      BY <3>3, <3>5
    <3> QED BY <3>6
  <2>3. S = Nat
    <3> HIDE DEF S
    <3>1. S \in SUBSET Nat
      BY DEF S
    <3> QED BY <2>1, <2>2, <3>1, Induction
  <2> QED BY <1>1, <2>3
<1> HIDE DEF F
<1>5. F = [i \in Id |-> IF P(i) THEN i ELSE F[base[i]]]
  BY <1>4 DEF F, Id
<1>6. F[d] = IF P(d) THEN d ELSE F[base[d]]
  BY <1>5
<1>7. CASE P(d)
  BY <1>2, <1>3, <1>6, <1>7 DEF P
<1>8. CASE ~P(d)
  <2>1. base[d] \in Id
    BY <1>1, <1>2, <1>8 DEF P
  <2>2. Bottom(d) = Bottom(base[d])
    BY <1>3, <1>6, <1>8, <2>1
  <2> QED BY <1>2, <1>8, <2>2 DEF P
<1> QED BY <1>7, <1>8

\* In the end every state that is reached shares the paths of its bottom.
LEMMA PathsOfTheBottom ==
    ASSUME IInv, VerdictInv, ContentInv, IsPlainBuild, IsOver, NEW d \in reach
    PROVE  pathsOf[d] = Bottom(d)
<1>1. GraphInv /\ Registered = Count /\ PathsKept
  BY GraphStands DEF IsPlainBuild, IsOver, ContentInv, Underway
<1>2. reach \subseteq Id /\ None = 0 /\ None \notin Id /\ Count \in Nat /\ Id \subseteq Nat /\ 1..Count \subseteq Id
  BY Recipes DEF IInv, TypeOK
<1>3. ASSUME NEW e \in Id, ~IsOpened(e) PROVE pathsOf[e] = e
  BY <1>1, <1>3 DEF PathsKept
<1>4. ASSUME NEW e \in Id, base[e] = None \/ (e \in 1..Count /\ IsReplaced(e)) PROVE Bottom(e) = e
  <2>1. e \in 1..Count => e <= Len(input.stages) /\ stage[e] = input.stages[e]
    BY <1>1 DEF GraphInv, StagesAreStates, Count
  <2> QED BY <1>1, <1>4, <2>1, BottomFacts DEF IsReplaced
<1> DEFINE T == {e \in reach : pathsOf[e] # Bottom(e)}
<1>5. T = {}
  <2> SUFFICES ASSUME T # {} PROVE FALSE
    OBVIOUS
  <2>1. T \in SUBSET Nat
    BY <1>2
  <2> HIDE DEF T
  <2>2. PICK e \in T : \A y \in T : e <= y
    BY <2>1, LeastNumber
  <2>3. e \in reach /\ e \in Id /\ e \in Nat /\ pathsOf[e] # Bottom(e)
    BY <1>2, <2>2 DEF T
  <2>4. e \in 1..Count /\ ~IsReplaced(e) /\ base[e] # None /\ base[e] \in 1..Count /\ base[e] < e
    <3>1. base[e] # None
      <4> SUFFICES ASSUME base[e] = None PROVE FALSE
        OBVIOUS
      <4>1. Bottom(e) = e
        BY <1>4, <2>3
      <4>2. CASE IsOpened(e)
        BY <1>1, <2>3, <4>1, <4>2 DEF PathsKept, IsOpened
      <4> QED BY <1>3, <2>3, <4>1, <4>2
    <3>2. e \in 1..Count /\ base[e] \in 1..Count /\ base[e] < e
      BY <1>1, <2>3, <3>1, BottomFacts
    <3>3. ~IsReplaced(e)
      <4> SUFFICES ASSUME IsReplaced(e) PROVE FALSE
        OBVIOUS
      <4>1. Bottom(e) = e
        BY <1>4, <2>3, <3>2
      <4>2. ~IsOpened(e)
        BY DEF IsOpened
      <4> QED BY <1>3, <2>3, <4>1, <4>2
    <3> QED BY <3>1, <3>2, <3>3
  <2>5. e \in UsedStages
    BY <2>3, <2>4 DEF UsedStages
  <2>6. IsOpened(e) /\ base[e] \in reach
    <3>1. base[e] = BaseStage(input, e) /\ IsOpened(e) /\ (BaseStage(input, e) # 0 => BaseStage(input, e) \in UsedStages)
      BY <2>4, <2>5, OverFacts
    <3> QED BY <1>2, <2>4, <3>1 DEF UsedStages
  <2>7. pathsOf[e] = pathsOf[base[e]]
    BY <1>1, <2>4, <2>6 DEF PathsKept
  <2>8. Bottom(e) = Bottom(base[e])
    <3>1. stage[e] = input.stages[e]
      BY <1>1, <2>4 DEF GraphInv, StagesAreStates
    <3>2. ~Replaced(input, stage[e])
      BY <2>4, <3>1 DEF IsReplaced
    <3> QED BY <1>1, <2>3, <2>4, <3>2, BottomFacts
  <2>9. base[e] \notin T
    BY <1>2, <2>2, <2>3, <2>4
  <2> QED BY <2>3, <2>6, <2>7, <2>8, <2>9 DEF T
<1> QED BY <1>5

\* The paths that COPY commands read from a state are recorded with it.
LEMMA CopiedPaths ==
    ASSUME IInv, VerdictInv, ContentInv, IsPlainBuild, IsOver, NEW d \in 1..n, ~ToolsRead(d)
    PROVE  PathsRead(d) \subseteq paths[d] \cap Path
<1>1. GraphInv /\ Registered = Count /\ PathsKept /\ IsPlain(input) /\ phase = "dispatch" /\ reach = Reachable(target)
  BY GraphStands DEF IsPlainBuild, IsOver, ContentInv, Underway, Jobs
<1>2. /\ None = 0 /\ None \notin Id /\ Count \in Nat /\ 1..Count \subseteq Id /\ d # None
      /\ \A k \in 1..Count : input.stages[k].cmds \in Seq(Command)
  BY Recipes DEF IInv
<1> SUFFICES ASSUME NEW k \in Built(input), NEW i \in DOMAIN stage[k].cmds, SourceRead(k, i) = d
             PROVE  stage[k].cmds[i].path \in paths[d] /\ stage[k].cmds[i].path \in Path
  BY DEF PathsRead
<1>3. k \in UsedStages /\ k \in 1..Count /\ ~IsReplaced(k)
  <2>1. k \in Needed(input) /\ ~IsReplaced(k)
    BY DEF Built, IsReplaced, IsPlainBuild
  <2>2. k \in 1..Count /\ k \in reach
    BY <1>1, <2>1, ReachFacts DEF IsPlainBuild
  <2> QED BY <2>1, <2>2 DEF UsedStages
<1>4. stage[k] = input.stages[k]
  BY <1>1, <1>3 DEF GraphInv, StagesAreStates
<1>5. PICK c : c = input.stages[k].cmds[i]
  OBVIOUS
<1>6. i \in 1..Size(k) /\ c \in Command /\ c \in Commands(input, k)
  <2>1. input.stages[k].cmds \in Seq(Command) /\ i \in DOMAIN input.stages[k].cmds
    BY <1>2, <1>3, <1>4
  <2> QED BY <1>5, <2>1 DEF Size, Commands
<1>7. ~IsTool(c)
  BY <1>4, <1>5 DEF ToolsRead
<1>8. srcs[k][i] # <<>> /\ Bottom(srcs[k][i][1]) = d
  BY <1>2, <1>4, <1>5, <1>7 DEF SourceRead
<1>9. SourcesAre(c, srcs[k][i]) /\ (c.from.by # "none" => srcs[k][i][1] \in Deps(k))
  BY <1>1, <1>3, <1>5, <1>6, SourceFacts DEF Size
<1>10. c.from.by # "none"
  <2> SUFFICES ASSUME c.from.by = "none" PROVE FALSE
    OBVIOUS
  <2>1. Len(srcs[k][i]) = 0
    BY <1>7, <1>9 DEF SourcesAre
  <2>2. srcs[k][i] \in Seq(Id)
    <3>1. srcs[k] \in Seq(Seq(Id))
      BY <1>2, <1>3 DEF IInv, TypeOK
    <3>2. i \in 1..Len(srcs[k])
      BY <1>1, <1>3, <1>6 DEF GraphInv, Filled, Size
    <3> QED BY <3>1, <3>2
  <2> QED BY <1>8, <2>1, <2>2
<1>11. c.op = "COPY"
  <2>1. c.from # FromNothing
    BY <1>10 DEF FromNothing
  <2>2. c.op \notin {"ADD", "CAT", "LABEL"}
    BY <1>1, <1>2, <1>3, <1>6, <2>1, Recipes DEF IInv, IsPlain
  <2> QED BY <1>6, <1>7, <2>2 DEF Command, Op, IsTool
<1>12. srcs[k][i][1] \in reach
  BY <1>3, <1>9, <1>10, OverFacts
<1>13. pathsOf[srcs[k][i][1]] = d
  BY <1>8, <1>12, PathsOfTheBottom
<1>14. Dispatched(k, i)
  <2>1. k < pos
    <3>1. Count <= Len(order) /\ pos > Len(order) /\ Len(order) \in Nat /\ pos \in Nat /\ k \in 1..Count
      BY <1>1, <1>3 DEF GraphInv, StagesAreStates, IsOver, IInv, TypeOK
    <3> QED BY <1>2, <3>1
  <2> QED BY <1>3, <2>1 DEF Dispatched, UsedStages
<1>15. c.path \in paths[d]
  BY <1>1, <1>3, <1>5, <1>6, <1>8, <1>11, <1>13, <1>14 DEF PathsKept
<1>16. d \in Id /\ paths[d] \subseteq Path
  BY <1>13, <1>12 DEF IInv, TypeOK
<1> QED BY <1>4, <1>5, <1>15, <1>16

\* The end of the dispatch loop is where these properties begin.
LEMMA FinishMeaning ==
    ASSUME IInv, VerdictInv, ContentInv, Finish
    PROVE  ContentInv' /\ PlainMeaning'
<1>1. /\ phase = "dispatch" /\ pos > Len(order) /\ phase' \in {"done", "failed"}
      /\ paths' = [paths EXCEPT ![pathsOf[target]] = @ \cup {Root}]
      /\ UNCHANGED <<input, n, base, stage, srcs, fs, pathsOf, target, fetched>>
  BY DEF Finish, graph
<1>2. ContentInv'
  BY <1>1 DEF ContentInv, Underway
<1> SUFFICES ASSUME IsPlainBuild PROVE (Meaning /\ FetchedAsNeeded /\ NamedContextCovered)'
  BY <1>1, <1>2 DEF PlainMeaning, IsPlainBuild
<1>3. IsOver
  BY <1>1 DEF IsOver
<1>4. Meaning'
  <2>1. fs[target] = Content(input)[target]
    BY <1>3, MeaningIsReached
  <2> QED BY <1>1, <2>1 DEF Meaning
<1>5. FetchedAsNeeded'
  <2>1. LET shown == {x \in Name : <<"image", x>> \in fs[target]} IN
        /\ shown \subseteq fetched
        /\ (\A k \in DOMAIN input.stages : ~Replaced(input, input.stages[k])) => fetched \subseteq shown
    BY <1>3, AsNeeded
  <2> QED BY <1>1, <2>1 DEF FetchedAsNeeded
<1>6. NamedContextCovered'
  <2>1. \A d : PathsRead(d)' = PathsRead(d) /\ (ToolsRead(d)' <=> ToolsRead(d))
    <3>1. \A d : Bottom(d)' = Bottom(d)
      BY <1>1 DEF Bottom
    <3>2. \A k, i : SourceRead(k, i)' = SourceRead(k, i)
      BY <1>1, <3>1 DEF SourceRead
    <3> QED BY <1>1, <3>2 DEF PathsRead, ToolsRead
  <2> SUFFICES ASSUME NEW d \in 1..n, ~ToolsRead(d) PROVE PathsRead(d) \subseteq Filtered(paths'[d])
    BY <1>1, <2>1 DEF NamedContextCovered
  <2>2. PathsRead(d) \subseteq paths[d] \cap Path
    BY <1>3, CopiedPaths
  <2>3. d \in Id /\ paths \in [Id -> SUBSET Path]
    BY Recipes DEF IInv, TypeOK, Id
  <2>4. paths[d] \subseteq paths'[d]
    BY <1>1, <2>3
  <2> QED BY <2>2, <2>4 DEF Filtered
<1> QED BY <1>2, <1>4, <1>5, <1>6

LEMMA StutterContents ==
    ASSUME ContentInv, UNCHANGED vars
    PROVE  ContentInv'
<1>1. UNCHANGED <<input, phase, pos, cmd, n, order, base, stage, implicit, srcs, fs, noinit, pathsOf, paths, reach, job, fetched>>
  BY DEF vars, graph, result
<1> SUFFICES ASSUME IsPlainBuild, Underway PROVE (ContentsKept /\ FetchesKept /\ PathsKept)'
  BY <1>1 DEF ContentInv, IsPlainBuild, Underway
<1>2. ContentsKept /\ FetchesKept /\ PathsKept
  BY DEF ContentInv
<1>3. Count' = Count /\ Registered' = Registered /\ Current' = Current
  BY <1>1 DEF Count, Registered, Current
<1>4. \A k : (IsReplaced(k)' <=> IsReplaced(k)) /\ (Fetched(k)' <=> Fetched(k)) /\ Size(k)' = Size(k)
  BY <1>1 DEF IsReplaced, Fetched, Size
<1>5. \A k : /\ Resolvable(k)' <=> Resolvable(k)
             /\ Given(k)' = Given(k)
             /\ IsLoaded(k)' <=> IsLoaded(k)
             /\ IsOpened(k)' <=> IsOpened(k)
  BY <1>1, <1>3, <1>4 DEF Resolvable, Given, IsLoaded, IsOpened, Entered
<1>6. (SomeFailed' <=> SomeFailed) /\ \A k, i : Dispatched(k, i)' <=> Dispatched(k, i)
  BY <1>1, <1>4 DEF SomeFailed, Dispatched
<1> HIDE DEF Current
<1>7. ContentsKept'
  BY <1>1, <1>2, <1>3, <1>4, <1>5, <1>6 DEF ContentsKept
<1>8. FetchesKept'
  BY <1>1, <1>2, <1>5 DEF FetchesKept
<1>9. PathsKept'
  BY <1>1, <1>2, <1>3, <1>4, <1>5, <1>6 DEF PathsKept
<1> QED BY <1>7, <1>8, <1>9

PlainInv == ContextNames /\ ContentInv /\ PlainMeaning

LEMMA PlainNext ==
    ASSUME IInv, IInv', VerdictInv, PlainInv, [Next]_vars
    PROVE  PlainInv'
<1>1. ContextNames'
  BY ContextNamesNext DEF PlainInv
<1>2. ContentInv /\ ContextNames /\ PlainMeaning
  BY DEF PlainInv
<1>3. CASE Finish
  BY <1>1, <1>2, <1>3, FinishMeaning DEF PlainInv
<1>4. CASE UNCHANGED vars
  <2>1. ContentInv'
    BY <1>2, <1>4, StutterContents
  <2>2. UNCHANGED <<input, phase, n, base, stage, srcs, fs, paths, target, fetched>>
    BY <1>4 DEF vars, graph, result
  <2>3. PlainMeaning'
    <3> SUFFICES ASSUME IsPlainBuild PROVE (Meaning /\ FetchedAsNeeded /\ NamedContextCovered)'
      BY <2>2 DEF PlainMeaning, IsPlainBuild
    <3>1. Meaning /\ FetchedAsNeeded /\ NamedContextCovered
      BY <1>2 DEF PlainMeaning
    <3>2. Meaning' /\ FetchedAsNeeded'
      BY <2>2, <3>1 DEF Meaning, FetchedAsNeeded
    <3>3. NamedContextCovered'
      <4>1. \A d : Bottom(d)' = Bottom(d)
        BY <2>2 DEF Bottom
      <4>2. \A k, i : SourceRead(k, i)' = SourceRead(k, i)
        BY <2>2, <4>1 DEF SourceRead
      <4>3. \A d : PathsRead(d)' = PathsRead(d) /\ (ToolsRead(d)' <=> ToolsRead(d))
        BY <2>2, <4>2 DEF PathsRead, ToolsRead
      <4>4. \A d : IsLocal(d)' <=> IsLocal(d)
        BY <2>2, <4>1 DEF IsLocal
      <4> QED BY <2>2, <3>1, <4>3, <4>4 DEF NamedContextCovered
    <3> QED BY <3>2, <3>3
  <2> QED BY <1>1, <2>1, <2>3 DEF PlainInv
<1>5. CASE ~Finish /\ ~UNCHANGED vars
  <2>1. phase' # "done"
    BY <1>5 DEF Next, RegisterStage, SelectTarget, FillCommand, FillNextStage, Validate, StartResolve,
       FinishResolve, ResolveNamed, ResolveConfig, Cancel, SkipState, EnterState, LeaveState,
       DispatchAdd, DispatchCopyContext, DispatchCopyFrom, DispatchConvert, DispatchQuantize, RunTool,
       DispatchCat, DispatchLabel, DispatchFails, AtCommand, Fail
  <2>2. PlainMeaning'
    BY <2>1 DEF PlainMeaning, Meaning, FetchedAsNeeded, NamedContextCovered
  <2> SUFFICES ContentInv'
    BY <1>1, <2>2 DEF PlainInv
  <2>3. CASE RegisterStage
    BY <1>2, <2>3, RegisterStageContents
  <2>4. CASE SelectTarget \/ FillCommand \/ FillNextStage
    BY <1>2, <2>4, FillContents
  <2>5. CASE Validate
    BY <1>2, <2>5, ValidateContents
  <2>6. CASE StartResolve
    BY <1>2, <2>6, StartResolveContents
  <2>7. CASE FinishResolve
    BY <1>2, <2>7, FinishResolveContents
  <2>8. ASSUME NEW k \in DOMAIN job, ResolveNamed(k) \/ ResolveConfig(k) \/ Cancel(k) PROVE ContentInv'
    BY <1>2, <2>8, ResolveContents
  <2>9. CASE SkipState
    BY <1>2, <2>9, SkipStateContents
  <2>10. CASE EnterState
    BY <1>2, <2>10, EnterStateContents
  <2>11. CASE LeaveState
    BY <1>2, <2>11, LeaveStateContents
  <2>12. CASE DispatchCommand
    BY <1>2, <2>12, DispatchCommandContents
  <2>13. CASE DispatchFails
    BY <2>13 DEF DispatchFails, Fail, ContentInv, Underway
  <2> QED
    BY <1>5, <2>3, <2>4, <2>5, <2>6, <2>7, <2>8, <2>9, <2>10, <2>11, <2>12, <2>13 DEF Next, DispatchCommand, DispatchTool
<1> QED BY <1>3, <1>4, <1>5

\* The images, contexts and commands that a conversion keeps account of.
LEMMA PlainHolds == Spec => []PlainMeaning
<1>1. Init => IInv /\ VerdictInv /\ ClearVerdict /\ PlainInv
  <2> SUFFICES ASSUME Init PROVE IInv /\ VerdictInv /\ ClearVerdict /\ PlainInv
    OBVIOUS
  <2>1. IInv /\ VerdictInv /\ ContentInv
    BY InitIInv, InitVerdict, InitContents
  <2>2. ClearVerdict /\ ContextNames /\ PlainMeaning
    BY DEF Init, ClearVerdict, VerdictIsRight, ContextNames, PlainMeaning, Meaning, FetchedAsNeeded, NamedContextCovered
  <2> QED BY <2>1, <2>2 DEF PlainInv
<1>2. IInv /\ VerdictInv /\ ClearVerdict /\ PlainInv /\ [Next]_vars => (IInv /\ VerdictInv /\ ClearVerdict /\ PlainInv)'
  BY NextIInv, VerdictNext, PlainNext
<1>3. PlainInv => PlainMeaning
  BY DEF PlainInv
<1> QED BY <1>1, <1>2, <1>3, PTL DEF Spec

\* The image that comes out is the one that the recipe describes: whatever the
\* order of the states, of the goroutines that resolve their images, and of the
\* sharing between states; of the recipes that IsPlain describes.
THEOREM MeaningHolds == Spec => [](IsPlainBuild => Meaning)
<1>1. PlainMeaning => (IsPlainBuild => Meaning)
  BY DEF PlainMeaning
<1> QED BY <1>1, PlainHolds, PTL

\* The registry is asked for the images that the target shows, and for no others
\* unless a named context replaces a stage; of the same recipes.
THEOREM FetchedAsNeededHolds == Spec => [](IsPlainBuild => FetchedAsNeeded)
<1>1. PlainMeaning => (IsPlainBuild => FetchedAsNeeded)
  BY DEF PlainMeaning
<1> QED BY <1>1, PlainHolds, PTL

\* The client transfers what COPY reads from a named context, through whatever
\* chain of stages that share its paths; of the same recipes.
THEOREM NamedContextCoveredHolds == Spec => [](IsPlainBuild => NamedContextCovered)
<1>1. PlainMeaning => (IsPlainBuild => NamedContextCovered)
  BY DEF PlainMeaning
<1> QED BY <1>1, PlainHolds, PTL
=============================================================================
