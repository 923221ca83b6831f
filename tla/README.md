# gguf-packer-go in TLA+

gguf-packer packs GGUF models as OCI images.  A BuildKit frontend turns a
GGUFPackerfile (a recipe of `FROM`, `ADD`, `COPY`, `CAT`, `CONVERT`, `QUANTIZE`,
`LABEL`, `CMD`, ...) into an LLB graph, and a command line pulls, keeps, runs
and removes the models that come out.  This directory holds TLA+ models of the
code in `../src`, TLC configurations that check them on small instances, and
theorems that TLAPS checks for every instance.

Paths below are relative to `src/`; `FE` is `buildkit/frontend` and
`convert.go` is `FE/ggufpackerfile/ggufpackerfile2llb/convert.go`.
`PROJECT.json` maps every definition that models code to its lines.

## 1. Inventory

| Component | Where | State it keeps | Operations | Modules |
|---|---|---|---|---|
| Line parser | `FE/ggufpackerfile/parser` | directives, current line, comments, heredocs | `Parse`, `ParseDirective` | `LineParser` |
| Instruction parser | `FE/ggufpackerfile/instructions` | stages with commands, arguments, CMD with positions of its files | `Parse`, `parseCmd`, `parseFrom`, `Expand` | `Recipe`, `ModelImage`, `BuildArgs` |
| Converter | `convert.go` | `dispatchStates`, for each state: stage, base, deps, commands, LLB state, paths, ctxPaths, noinit, image | `toDispatchState`: register, fill, validate, resolve, dispatch, finish | `Recipe`, `Convert`, `BuildArgs` |
| Circular check | `convert.go:1876` | visited set, recursion stack | `validateCircularDependency` | `CircularDependency` |
| Image config | `image.go`, `specs/v1/image.go`, `convert.go:79` | config, labels, history, CMD, GGUF metadata | `clone`, `ToLLB`, `dispatchLabel`, `commitToHistory` | `ModelImage` |
| Outline, targets | `outline.go` | what the recipe uses | `Outline`, `ListTargets` | `BuildArgs` |
| Linter | `FE/ggufpackerfile/linter` | called rules, the warn function | `New`, `Run`, `Error` | `PlatformBuild`, `BuildArgs` |
| Builder | `FE/ggufpackerfile/builder` | resolve cache, image of each platform | `Build` | `Builder`, composed of `Frontend` and `PlatformBuild`; `ModelImage` |
| UI client | `FE/ggufpackerui` | options, build context, ignore file, named contexts, results by platform | `NewClient`, `ReadEntrypoint`, `HandleSubrequest`, `NamedContext`, `MainContext`, `Build` | `Frontend`, `PlatformBuild`, `BuildResult`, `NamedContext` |
| Model store | `cmd/gguf-packer/pull.go`, `remove.go`, `run.go` | links by tag, tombstones, configs, layers, cached blobs | `pull`, `remove`, `run`, `cacheLayers` | `Store`, `Removal` |
| Store readers | `list.go`, `inspect.go` | none | `list`, `inspect` | `Removal` |
| Run's arguments | `run.go` | none | the command line of the server | `ModelImage` |
| Estimate | `estimate.go` | none | options, a row for each step of layers | `Estimate` |
| Command line | `main.go` | the command that runs | `remove`, `estimate`, and those of the store | `Commands`, composed of `Removal` and `Estimate` |
| Entry points, utilities | `llb_*.go`, `util/*` | none | flags and small helpers | none |

How they interact.  `main` serves the frontend, or dumps its LLB, or works on
the store.  The builder makes a client from the options of the request, asks
it for the recipe, answers a subrequest or lets it run one conversion per platform,
concurrently, over the same recipe, options, ignore file, linter configuration
and resolve cache.  A conversion parses the recipe line by line, makes the
environment of its stages, asks the client for named contexts (a callback) and
the resolver for image configs, both from one goroutine per base image, and
builds the graph.  The builder then solves it, reads the GGUF files that CMD names
and puts labels and metadata into the image.  `run` reads them there again.
The store commands share nothing but the file system, and take no lock.

What is hard, and what makes each component correct:

* **Converter.**  Stages refer to each other by name, position and image, forwards
  and backwards; the slice of states grows while it is ranged over; states are
  resolved concurrently; a `FROM` shares data with its base, a `COPY` takes a
  snapshot.  Correct when the target holds what the recipe says, exactly the bad recipes
  are refused whatever the goroutines do, only the needed images are looked up, and no
  file that a build reads is filtered out of the transfer.
* **Circular check.**  A depth-first search over Go maps in random order.  Correct when every order gives
  the verdict "there is a cycle", and when it ends.
* **Image config.**  Aliasing of maps and slices between stages; positions of
  words in one command line used in another.  Correct when labels and history
  are a stage's own and its base's, and what is recorded of a GGUF file belongs to it.
* **Builder, client, linter.**  Shared state of concurrent conversions.  Correct
  when the answer is that of all platforms or an error, independent of their order.
* **Parsers.**  Sequential; boundaries.  Correct when they agree with a
  declarative reading of the lines.
* **Model store.**  Many file-system steps per command, overlap, kills, leftovers.
  Correct when a link is made only to a complete model, a removal takes no other
  model and leaves nothing without a link, and the cache holds complete blobs.
* **Estimate.**  Goroutines over a shared slice, two sources of options.  Correct
  when the rows reach the end in the steps asked for, and each option has its rank.

`PROJECT.json` lists the hazards line by line, with the properties that
catch each, or the reason why none does.

## 2. Plan

Built, in this order: the circular check; the conversion; the store; `ModelImage`;
`PlatformBuild`, `Frontend` and their composition `Builder`; `NamedContext`; `LineParser`;
`BuildArgs`; `Removal`, `Estimate` and `Commands`.  Proved: see section 5.

To come: the flags of `ADD`, `COPY`, `CAT`, `CONVERT` and `QUANTIZE`, and the rules of the linter one by one.

Which module uses which (an arrow is EXTENDS or INSTANCE; "promise" is a refinement):

    CircularDependency --promise--> CycleCheck
    Convert --> Recipe
    Builder --> Frontend, PlatformBuild;   Builder --promise--> BuildResult
    Commands --> Removal, Estimate
    Store, ModelImage, BuildArgs, NamedContext, LineParser: on their own
    ResolutionProofs --> CircularDependency, NamedContext
    other XProofs --> X;   MCX --> X

## 3. Modules

### CycleCheck and CircularDependency

`CycleCheck` decides in one step whether a graph has a cycle.
`CircularDependency` is the code: a stack of frames (the nested calls of
`visit`), `visited`, the part of each Go map that a frame has ranged over, and one
action per step of a call: `VisitRegistered` (the outer loop), `FindCycle`,
`SkipVisited`, `Descend`, `Leave`, `Accept`.  Map ranges are a choice of any
successor not ranged yet, made anew at each step.  The search ignores `base`, as the code
does: a `FROM` only ever points to an earlier state when it is made, and the
states that the fill loop adds have no commands.

### Recipe

What the author of a recipe may expect, from the parsed recipe alone: which stage
a name or position means, which stages the target needs (`Needed`), what it is made of
(`Content`), and which recipes must be refused (`Accepts`).  `Convert` is checked
against it.  Nothing in it speaks of states, order or goroutines.

### Convert

`toDispatchState`, one action per step: `RegisterStage`, `SelectTarget`, `FillCommand`,
`FillNextStage`, `Validate`, `StartResolve`, `ResolveNamed`, `ResolveConfig`,
`Cancel`, `FinishResolve`, `SkipState`, `EnterState` (`d.init()`), one action
per instruction, `DispatchFails`, `LeaveState`, `Finish`.  Variables have the
names of the fields they model (`base`, `noinit`, `paths`, `ctxPaths`); `srcs` is
`command.sources`, `order` is the slice `states` (it may hold a state twice) and
`byName` the map `statesByName`; `fs[d]` is `d.state`, the set of LLB
vertices below it, which is enough to tell what a state holds and when it was
read.  `pathsOf` models Go's map reference: a state shares the map that
its base has.  A `LABEL` stands for all that changes no file (`ARG`, `CMD`).

Abstractions: names are in lower case and expanded; the platform is one; an
image has layers; paths other than the root are unrelated; the instruction's
own errors are one flag of the command (`ok`).  `validateCircularDependency` is the formula
`Circular`, justified by the first pair of modules.  The client's answers and
the registry's are chosen with the recipe: asking twice gives the same.

Two details that the model keeps because they matter: a stage whose name has a
named context is replaced by it (but not one named `context` or `scratch`), and a
replaced stage's base is looked up all the same.

### BuildArgs

`ARG` and the environment: the platform's arguments, build arguments, global
and local `ARG`s, through `FROM` and a chain of stages, and the outline's search for what
the target uses.  `Word` and `Arg` are the types of a default and of an argument; `BuildArgsAssumption`
says that recipes are made of them, have a stage, and that the platform has arguments.  A default is a text, a reference (`$k`) or one that must be
set (`${k:?}`).  `convert` bundles the arguments and bases, `info` and `used` are the outline's
maps.  The endless recursion of `markAllUsed` is a phase, `overflow`, that a stack deeper than
all the arguments leads to.

### ModelImage

The way of `CMD` and `LABEL` through five places of the code: `parseCmd`, `CmdCommand.Expand`,
`clone`/`dispatchLabel`/`commitToHistory`, `ToLLB`, the parse loop of `builder/build.go`, and
`run`'s arguments.  Builds follow each other; each may start `FROM` what an earlier one pushed.
`RunArgs` says which words get the directory of the image before them, `Quoted` which of them `run` then executes
with quotes around them: the empty word and those with a space, a quote or a backslash (`Spaced`), unless they begin with a dash; a path
also if the directory, which may be either, has such a character.
Label maps and backing arrays of histories have references (`maps`, `arrays`), so
that sharing and Go's growth of slices show.  All GGUF files have the size 1.  `ModelImageAssumption` gives
recipes, the environment and the images of others their types.  It also says that no variable of the environment is
written like an option of `CMD`, since the parser only finds options that are written as such; and that an image of others that does not mix
two CMDs has its files where its CMD names them, as those that this builder makes do (theorem `PositionsHoldHolds`).

### Builder: Frontend, PlatformBuild and BuildResult

`BuildResult` is the promise of the builder: one answer to a request, which is an error, what a
subrequest asks for, or the images of all platforms, each under its key and in its place; and an
error for certain if a rule that must be kept is broken.  `Builder` is the code.

`Frontend` is what comes first: `NewClient`, `initContext`, `ReadEntrypoint` and `HandleSubrequest`.
Options are parsed or bad; files are missing, empty or have text.  What it hands over is the
record `Handed`.

`PlatformBuild` is `Client.Build`: a goroutine per platform, with the steps at which it reads or writes what is shared: the
linter configuration, the bytes of the ignore file (a slice is written as pointer and length, in
either order), refs, metadata, slots, the error group.

`Builder` lets `Frontend` go on until it is in phase `build`, starts any of `Builds` that agrees
with `Handed`, and then lets the goroutines run.  The caller sees `Told`, and
`Promise == INSTANCE BuildResult WITH answer <- Told` is what `ImplementsBuildResult` refines.
`BuilderAssumption`: a build has up to `MaxTargets` platforms, more than one only if it asks for several; a file in one of
the `Places` of a recipe has a text, or is there and empty.

### NamedContext

Callers ask for contexts by name and platform.  `opts` is the client's map of options, which a
source policy rewrites (`BeginWrite`, `EndWrite`); a caller that reads in between may end the program
(`RaceDetected`), after which nothing is claimed.  A local context is narrowed when it
is first used (`UseOutput`), while its recipe records paths (`Record`).  `WorldsAssumption` gives options their type and
the registry finitely many references.  The specification is called `ContextSpec`, so that one module can hold the proofs about this and
about the circular check.

### LineParser

`Parse`, a `Scan` a step, over lines of a few kinds; text is told by line numbers.
`phase` is the place in the nested loops.  `ParseDirective`, the other reader of the same lines, is an operator:
it takes directives behind `#`, or else behind `//` (code, to `Parse`), or else in a JSON object (`json` of a file
has its keys).

### Store

`pull`, `remove` and the store side of `run`, one file-system call a step, for
any number of processes.  `link` holds links of tags and tombstones
(`.old.<digest>`), `config` the config files, `extracted` the layers
directories, `blob` the cached layers by DiffIDPath, `tmp` the `.tmp` files.  A layer is copied
in `PartCount` parts.  A file knows who holds it open for writing: a writer goes on
with its file when it is renamed, and writes to nowhere when
another has been renamed over it.  `extracted[d][x].by` tells the last process
that began to write the file: extraction removes and rewrites it.

`Stop` is a failure or a kill at any step, `RestoreFails` a failed rename of a
tombstone.

Abstractions: the registry may serve any model under a tag at any time; digests
and diffIDs correspond; tags are those of one repository; the look at a tombstone and
its rename are one step; the walk of `remove` by ID is one step, and so is the removal of a layers directory; a
reader of a blob that is renamed over goes on with the new file; one
argument per `remove`.  A tombstone arises only when pulls overlap: without
`--force` a pull of a tag that has a link returns at once (`Look`), so `Relink`
finds one only if another pull made it meanwhile.

### Removal

`remove` with several arguments over any store: names, IDs, beginnings of IDs, names that look like IDs, bad
references.  Names go first, in order; one walk matches the IDs (it may end early, with any links unseen, `cut`); the
IDs follow in any order.  Each removal is three calls, each of which may fail.  `Listed` is
what `list` shows.  The store has finitely many paths.  `Store` has removal that overlaps with other commands; here it runs alone.

### Estimate

The loop over the image's command line, flags and their defaults, and a goroutine per row.  `options` is
what they come to, the last option of a kind.  `Full` and `Estimated` stand for gguf-parser-go.

### Commands

A process of `gguf-packer` is one of its commands: `Removal` or `Estimate`, each over its own
variables, the other with nothing to do.  It changes nothing about either.

### MC modules and wrong variants

`MC*.tla` extend the modules above and define the instances.  They hold no property.
Operators that a module's header names as wrong variants (`TrustConfig`,
`LeaveMarked`, `LinkFirst`, ...) are plausible mistakes, kept next to the
definition that they vary: put in its place, the property that `PROJECT.json` names fails.

## 4. Runs

| Run | What it asks | Bounds |
|---|---|---|
| `circular_dependency` | every graph over 3 registered states and one pseudo stage, every order of the ranges: same verdict as `CycleCheck`, and it ends | 4 nodes: self-loop, cycle of 2 and of 3, diamond, a cycle behind a visited node, a cycle out of a node's reach |
| `convert` | the result means what the recipe says, the verdict is right, images are fetched as needed, what was copied stays, the paths recorded for a named context cover what a `COPY` reads from it, the conversion ends | 1 to 3 stages, 7 states (3 stages and what their commands can add), two commands per stage, at most one of them with several sources, two files and the root; chains of 3 stages with any of 4 names replaced |
| `build_args` | given values prevail, a global argument is the same in every stage, ignored defaults never fail, the outline is whole | 3 global arguments over 4 names, 2 stages, 1 argument each |
| `model_image` | what an image records of its files, labels and history, and the command line that `run` makes of it, with the words that it quotes | 3 builds after each other, 4 stages; every flag; empty and expanded values; histories at and below the size of their array |
| `builder` | it implements `BuildResult`; recipe and ignore file are the user's; excludes are the file's; it answers | every option by itself, every combination of context, place and name of the recipe; 3 platforms, any of them failing |
| `named_contexts` | each caller gets the end of the policies of its own option, and an error exactly beyond the limit; local contexts are narrowed to what is read; all are answered | 3 callers, chains and circles of policies longer than the limit |
| `line_parser` | lines are placed once, instructions whole with the comments before them, heredocs verbatim, nothing left unread, the two readers of directives agree on a recipe whose instructions exist | files of 3 lines of every kind, 5 lines of those that continue or hold heredocs, JSON objects |
| `store_sequential` | one command after another, killed anywhere: links only to complete models; removal by ID takes no other model | 2 tags, 2 models that share a layer, 2 parts |
| `store_concurrent` | two commands that run a model overlap at every step and die anywhere: a cached blob that lacks a part is being written, or a download of it was cut short | 2 processes, 1 tag, 2 models, 1 layer, 2 parts |
| `commands` | `remove`: nothing loses its last link while it is there, what is reported as removed is gone, only what a name means or what is the last link left to an ID is taken; `estimate`: the rows reach the end by the step | every store of 2 tags, a tombstone and 2 models, 3 arguments, any call fails; 4 layers, steps 0 to 5, command lines of 4 arguments |
| `tool_reads_later`, `store_force` | one disagreement of code and documentation each, see 6 | the smallest instances that show it |

Why these bounds are enough for the questions asked: a stage refers to stages
before, at and after it, and a third stage adds a chain; longer chains repeat
`Inherit`.  `MCInputs` leaves out what is known to fail: recipes where a tool
reads a later stage, `--from=context` of a `COPY`; each has a configuration of its own (section 6).
A third build makes an image of an image that was made of another; `model_image` asks about
labels and positions only of builds that do not share or mix them, since
those that do have configurations of their own.  The property about named contexts leaves out the
contexts that a tool reads, for the same reason.  Three platforms let a second success come
between a failure and its end; platforms that share a linter are not asked to keep its rules there (section 6).  A line parser has no memory but the
instruction at hand, the comments before it and its heredocs, so five lines show every pair of
neighbours within and between them; the theorems hold for any file.  For
the store, two parts tell complete from torn and "truncated by
another" from "written to the end".  Four layers have steps that divide them and steps that do not.
Processes and models of `store_concurrent` are symmetric.

The commands of a `pull` and of its layers are the same code in `run`, so
`store_concurrent` uses `run` alone; `pull`, `--force` and `remove` are in the
other store runs, and the theorems about the store hold for every mix of commands.
Most runs have `CHECK_DEADLOCK FALSE`: a conversion, a build, a parser or a command
stops when it is done.  The store never stops.

**Fairness.**  `circular_dependency` and `convert` state weak fairness of the
whole next-state relation.  The search is a loop of one goroutine, which Go runs to its end.
The conversion waits for goroutines that each end: a resolver gives an
answer or an error, and is cancelled with the errgroup's context after the first error.
`builder` and `named_contexts` state weak fairness of each goroutine, because Go's scheduler runs every
goroutine that can go on, and calls to BuildKit return or are cancelled; and of what the main goroutine does before them and of its `Wait`.
No run assumes more, strong fairness is nowhere, and the other modules have safety properties only.

`ImplementsBuildResult` has two parts: the refinement, and that no build starts for a request that has a request ID.

## 5. Proofs

All proofs are for every value of the constants under the named assumptions of
the modules (`NameAssumption`, `PathAssumption`, `MaxStatesAssumption`,
`InputsAssumption`, `StoreAssumption`, `FilesAssumption`, `RemovalAssumption`, `BuilderAssumption`,
`BuildArgsAssumption`, `ModelImageAssumption`, `WorldsAssumption`, ...), which TLC
evaluates in the runs.  Each inductive invariant was an invariant of a TLC run before it was proved.

* `ResolutionProofs!InductiveInvariant`: `Spec => []IInv`.  `IInv` says that the
  stack is a path of the graph, that a node searched to its end has all its
  successors searched, and that no set of searched nodes is circular.  The verdict of the code
  is about one path; that no cycle was missed needs the last two parts, which is why they are there.
* `ResolutionProofs!SearchImplementsCycleCheck`: by refinement; each step of the search is a
  stutter of `CycleCheck`, except `FindCycle` and `Accept`, which are its one step.
* `ResolutionProofs!FollowsThePoliciesHolds` and `SendsWhatIsReadHolds`: `ContextSpec => []...`, by `ContextInv`, for any number
  of callers, options, policies and depth.  `OptionsAreOnTheWay`: whichever caller has written an option last, also one
  that was overtaken by others and moves it back, it is on the way that the policies lead from the user's (`OnChain`), so that what a
  caller finds ends where its own option ends.  That a way which goes on after as many steps as there are references is a circle
  and leads to nothing new is the pigeonhole principle (`CirclesGoOn`).  `CountIs`: for a caller that shares no
  option, the depth of the recursion is the number of policies that it has followed, from which the limit is exact; with
  others that is false, since they may take steps for it.  `Sending` says that nothing is recorded once what is sent is fixed.
* `ConvertProofs!ConvertInvariant`: `Spec => []IInv`: types, the bookkeeping of the loops
  (`LoopsDone`), that a tool has a source (`ToolsHaveImages`), and that only settled
  states are copied (`CopiedIsSettled`).  The loops' part is needed for the types: `srcs[d][cmd]`
  exists because the fill loop has been there.
* `ConvertProofs!CopiedStatesStay`: `Spec => CopiedStaysAsItWas`, an action property.  A
  state that was copied is in `noinit`, such a state is not entered again, and the state
  being dispatched is not copied, because it would be a source of its own and the graph is free of circles.
* `ConvertProofs!VerdictIsRightHolds`: `Spec => [](IsClear(input) => VerdictIsRight)`, by `VerdictInv`, which ties
  the states to the recipe.  The first states are the stages, with the base that the recipe gives them
  (`StagesAreStates`); the others are images behind `--from` and tools, each a source of some stage
  (`ImagesAreStates`); the sources of each command are those the recipe names (`SourcesAreThose`), so that a
  circle of states is a circle of stages (`CircleIsRefused`) and what the target reaches is what it needs (`ReachFacts`).
  `Jobs` says that a goroutine fails only when some image is `Missing`, and ends well only when its own
  can be had or another has failed (which is what is left of an error when the context is cancelled); `MissingRefused`
  relates that to `Available`.  `SettledStages` gives the stages that a `COPY` may read when the
  loop is where it is, and `CommandsAreSound` that what has been dispatched was sound.  `IsClear` leaves out the two kinds of
  recipes for which the property is false (`MCUnclear.cfg`, section 6); the inputs of the run are clear.
* `ConvertProofs!MeaningHolds`, `FetchedAsNeededHolds` and `NamedContextCoveredHolds`: `Spec => [](IsPlainBuild => ...)`,
  by `ContentInv` on top of `VerdictInv`.  `ContentsKept` says what each state holds in each phase: what a
  named context gave it, the files of its image once a goroutine has come back, and, when the loop has entered it, what
  its base and the sources of its commands hold *now* (`Held`).  `FetchesKept` ties the images that were asked for to the
  states that are reached, and `PathsKept` says that a stage shares the paths of the bottom of its chain of bases, and that
  each `COPY` that has been dispatched is recorded there.  `Held` speaks of one command at a time and `Meaning` of
  `Content`, which is recursive over the references of a recipe; `MeaningIsReached` joins them by the depth of a stage, the number of
  references that may have to be followed from it (`Depths`): as many as there are stages before it, and one more when a
  later stage that a named context replaces is read.  `PathsOfTheBottom` does the same for chains.
  `IsPlain` leaves out what the documentation promises and the code does not do (a tool that reads a later stage,
  `COPY --from=context`, section 6), a stage that is itself named `context`, which a tool reads the build
  context instead of, and `--from` of instructions for which the parser knows no such flag.  A conversion of
  `allStages` is the linter's, and makes no image.
* `StoreProofs!StoreInvariant`: `Spec => []IInv`, for any number of processes, tags, models, layers
  and parts.  `TornIsBeingWritten` is not inductive: a writer may be the one
  that another has truncated under.  `Owed` is the reason that it holds: *for every
  missing part* there is a writer that has not come to it yet.
* `StoreProofs!TornBlobsAreWritten`: `Spec => []TornIsBeingWritten`.
* `StoreProofs!LinkedWhenWholeHolds` and `RemovalByIdSparesOthersHolds`: `Spec => LinkedWhenWhole` and
  `Spec => RemovalByIdSparesOthers`, action properties, for commands that do not overlap (`IsSequential`: at most one
  process, which gives any number of commands one after another) and finitely many tags and models, which the count of
  the links to an ID needs.  Both are false of commands that overlap, which a store without locks does not
  prevent.  The strengthening (`SeqInv`) follows a pull: every cached blob that is there has all its parts,
  *because* a kill leaves a torn file only in `.tmp`, which the next download truncates; the parts extracted and
  written so far are the first ones; and the layers behind the current one are whole, but for an earlier occurrence of it,
  which is extracted again.  A removal by ID has, once it has walked the store, the only link to its
  model.  The tombstones of a pull that meets another link (`Bury`, `Restore`) need a second command
  between two of its steps, so the proof shows that they are not reached here.
* `LineParserProofs!LinesArePlaced` and `RecipesAreReadToTheEnd`: `Spec => []EveryLineIsPlaced` and
  `Spec => []ReadToTheEnd`, for files of any lines and length.  The strengthening (`Ranges`
  there) says that the lines up to the current one are divided between the instructions, the one that
  is being read, and lines without code; in a phase in which an instruction is read, it
  began at `start` and reaches to the current line.
* `CommandsProofs!RemovalInvariant` and `NothingLeftBehind`: `Spec => []IInv` and
  `Spec => []NothingIsOrphaned`, for any store and arguments.  `NothingIsOrphaned` alone is not inductive: the removal of
  a link must know that layers and config are gone, and that the link still leads to the model that it led to when
  the walk matched it.  `Underway` says so.
* `CommandsProofs!RemovedIsGoneHolds` and `OnlyNamedOrLastHolds`: `Spec => [](IInv /\ Sure)`.  `Sure`
  says that names are done before IDs (`NamesFirst`), that what is being removed is the model the argument led
  to when it was looked up (`RightTarget`), that the walk has found every link to the models of an ID, or was
  cut (`AllFound`), and ties each answer to what has become of the links (`Reported`,
  `OnlyCovered`).  A link may go also when it shares its model with a link that a name means, since
  the model is removed below both, and when it is the only one left to an ID (`LeftTo`) whose other links the
  names have taken, although that ID is refused alone (section 6).  `CommandsRemoveSafely` says the same of a process that runs either command.
* `CommandsProofs!StepsReachTheEndHolds`: `CommandSpec => []StepsReachTheEnd`, for any number of layers, step, command line
  and flags.  `RowsFilled` says that each goroutine that has appended has the option of its own place (`Asks`), and that a
  row that is filled is the estimate for it; that the rows go up by the step to the end is then arithmetic: the number of rows is a
  quotient, and `StepsAre` relates it to the layers through its products (`Division`, `Product`).
* `LineParserProofs!DirectivesAgreeHolds`, `InstructionsAreWholeHolds` and `HeredocsAreVerbatimHolds`: on top of
  `Ranges`, `DirectivesRead` says that the directives seen are those of the first `D` lines, for some `D` that ends with the directives;
  `WholeInv` that the words kept of an instruction, and the comments before it, are those of the lines since `start`; `DocsInv` that the
  heredocs read so far end where the property says they do; `StartsInv` that an instruction starts at a line of code, so that
  what only `ParseDirective` takes for directives, behind `//` or in JSON, is the first instruction of the recipe
  (`FirstLineOfCode`).  That is none that exists, and parse.go:95 refuses the recipe.  `HeredocsAreVerbatim` speaks of a recursive function (where each
  heredoc begins), so `DocsInv` is about every function that satisfies its equation, and a lemma
  says that there is one.
* `BuildArgsProofs!GivenPrevailsHolds`, `SameInEveryStageHolds` and `IgnoredDefaultsNeverFailHolds`: by
  `ArgsInv`, which has the types, the bookkeeping of the loops (`Loops`), and the three properties for
  every stage that has been entered.  `SameInEveryStage` needs that the stages of the target's chain, a
  recursive set, are entered base first.
* `BuildArgsProofs!OutlineIsWholeHolds`: by `OutlineInv`.  While a stage is searched, what an argument that is already
  marked depends on is marked too, or still in one of the calls (`AllSeen`), so that a stage
  whose calls have all returned is closed (`Closed`); the chain has no stage between one and its base
  (`ChainGoesDown`), so none is passed by.  For the search without an end, `Calls` names the key
  of each call that has not returned.  Only global arguments depend on anything, so calls deeper than
  their number come back to a key (`LongCallsRepeat`, by the pigeonhole principle), which therefore reaches
  itself (`CircleIsReached`).
* `BuilderProofs`, for any number of platforms: `RecipeIsTheUsersHolds` and
  `IgnoreFileOfTheRecipeHolds` by an invariant of the frontend (what has been decided in each phase, and from which place);
  `PatternsAreOfTheFileHolds` by what each goroutine has written of the slice that others may overwrite by halves
  (`PatternsKept`); `AnswersAreWhole` and `BuildRefinesItsPromise` by the places that each goroutine has filled when it ends
  (`ImagesStay`), and that an error stays until `Wait` returns it (`ErrorsStay`).  The
  refinement is proved under `OwnLinters`: platforms that must fail for their warnings have a linter
  each.  Without it the refinement is false (`MCSharedLinter.cfg`, section 6); with it, a recipe
  with a `check` directive of its own is still covered.  That answers are whole does not need it.
* `ModelImageProofs!PositionsHoldHolds`, `RunNamesTheFilesHolds` and `OnlyTheLastCmdHolds`: by `FilesInv`, over
  any number of builds after each other.  `StagesKept`: what the parser has made of a `CMD`, before and after its words were expanded,
  has its files where the words are, each after an option that takes a file.
  `BaseKept`: until the builder describes the target, a stage has the files and the command line of the base image
  at the root of its chain, and nothing of its own.  `Inspecting`: in the middle of the
  loop over the files, each kind of file is still the base's or already the CMD's, and what is neither is to
  come.
* `ModelImageProofs!LabelsPrevailHolds` and `HistoryIsWholeHolds`: by `HeapInv`, which is about the label
  maps and arrays that stages share.  Both properties speak of the end of a build; what makes them inductive is
  that no stage beside the chain refers to a map or an array of the chain (`Separate`), and that of all
  the stages of the chain only the one that was entered last (`Latest`) is spoken of: it has taken over the
  references of its base, and every command adds to what it refers to, so that the contents of the stages before it
  are spoilt, which is harmless as nobody reads them again.  A command that has room in the array
  writes in place, where the entry is behind every history of the chain.  The chain, and what each stage ends
  with, are recursive functions: `HeapInv` is about every `C`, `L` and `W` that satisfy their
  equations (`IsChain`, `AreLabels`, `AreWritten`), and lemmas say that those of the properties do (`ChainIs`,
  `LabelledIs`, `WrittenIs`).  TLC was given those three in place of every one.

The library's induction theorems take an operator as a parameter, which these provers cannot instantiate.  Where a proof
needs induction over numbers, it takes the least number that fails (`LeastNumber`) and shows that there is
none; that a recursive function over `1..n` exists is proved in the same way (`GreatestNumber`, for functions on longer and longer
prefixes).

Every invariant and every action property of the passing runs is proved for every instance (the two of the
store for commands that do not overlap, as they are claimed).  Only model-checked are `Terminates`, `Answers` and
`EveryoneIsAnswered`: liveness and ENABLED are out of the prover's reach.

## 6. Where the code and its documentation differ

The first two are runs.  The others have a configuration each, which TLC finds violated too, as in
`tlc -config MCAddThenCopy.cfg MCConvert`:

| Run or configuration | Property | Disagreement |
|---|---|---|
| `tool_reads_later` | `Meaning` | `CONVERT`/`QUANTIZE --from` a later stage silently read an empty state (convert.go:971); `COPY` refuses it |
| `store_force` | `ForceRepairs` | a forced pull takes a torn blob from the cache and succeeds with an incomplete model (pull.go:291), where the flag's help (pull.go:183) says that it always pulls |
| `MCCopyFromContext.cfg`, `MCConvert` | `Meaning` | `COPY --from=context` copies from an empty state (convert.go:939); README.md:434 lists it among the sources |
| `MCAddThenCopy.cfg`, `MCConvert` | `BuildContextCovered` | a `COPY` records no path of the build context, so an `ADD` narrows the transfer without the `COPY`'s file (convert.go:958, against the comment at 1007) |
| `MCCopyThenConvert.cfg`, `MCConvert` | `ToolsAreCovered` | `CONVERT` and `QUANTIZE` record no path in a named context that a `COPY` narrows (convert.go:968, against the comment at 1009) |
| `MCPlainConvert.cfg`, `MCConvert` | `ConvertReadsContext` | `CONVERT` without `--from` reads the stage, not the build context as README.md:468 says (its example at README.md:450 does the former) |
| `MCUnclear.cfg` (with `-continue`), `MCConvert` | `VerdictIsRight` | a number behind `--from` is compared with all states (convert.go:1074), to which the same loop adds images (convert.go:441): one that no stage has is refused, or names such an image, depending on the commands before it |
| the same | `VerdictIsRight` | a stage named like the image of a tool replaces it (convert.go:1059): the tool runs over the files of that stage, and its image is not asked for |
| `MCValuelessArgs.cfg`, `MCBuildArgs` | `ValuesAreOptional` | a global `ARG` without default and value ends the program (convert.go:634); commands.go:149 makes the value optional |
| `MCDefaultBases.cfg`, `MCBuildArgs` | `LintedWithDefaults` | the linter's "only defaults" contain build arguments of the platform (convert.go:2303, against the comment at 2301) |
| `MCForked.cfg` (with `-workers 1 -continue`), `MCModelImage` | `StagesKeepTheirLabels`, `StagesKeepTheirHistory` | stages `FROM` the same stage share its label map and the array of its history (image.go:7); README.md:485 says that `FROM` clears what was before |
| the same | `BaseImageStays` | a `LABEL` also changes the base image that the annotations are made from (convert.go:550), "immutable" at convert.go:1002 |
| `MCInherited.cfg` (with `-workers 1 -continue`), `MCModelImage` | `IndexIsOfTheCmd` | metadata inherited from a base image keeps positions of the base's command line (build.go:230, against specs/v1/image.go:78) |
| the same | `SizeIsOfAllFiles` | the size leaves out the files that a base image's entries still name (build.go:130, against specs/v1/image.go:34) |
| the same | `ArchitectureIsOfTheModel` | a label that the builder set for a base image's model stays when another model takes its place (build.go:204, against README.md:516) |
| the same | `WordsReachTheServer` | `run` puts quotes around words with spaces, quotes or backslashes and around empty ones (run.go:150) and hands them to exec, not to a shell (run.go:166), so that the server gets other words than the `CMD` has, as for the chat template of README.md:413 |
| `MCSharedLinter.cfg`, `MCBuilder` | `StrictBuildsFail` | with several platforms, a build that must fail for its warnings may pass (convert.go:232, against the comment at 678) |
| `MCErrorsAreLocated.cfg`, `MCLineParser` | `ErrorsAreLocated` | the error of a parser directive names the line before it (parser.go:274, against errors.go:8) |
| `MCTombstones.cfg`, `MCStore` | `TagIsAsServed` | a tombstone gets the name of what the link was, and the content of what it has become; a later pull takes it for the model of its name (pull.go:100) |
| `MCHelpExamples.cfg` (with `-continue`), `MCCommands` | `RemovesByName` | a model whose name has the form of an ID cannot be removed by its name (remove.go:34, against the example at 19) |
| the same | `OnlyWhatIsMeant` | names are removed before IDs are matched, so the beginning of two IDs, "not unique" alone (remove.go:116), takes the model of one if a name of the same command has taken the other |
| the same | `OnlyFlagsOverride` | defaults of flags that nobody gave override the image's options (estimate.go:176, against the example at 53) |

Read and not modelled: the example at estimate.go:57 uses
`--offload-layers-step`, but the flag is `--gpu-layers-step` (estimate.go:463); no case of the
loop over the command line sets `rawNoMMap`, so `--no-mmap` in a CMD has no effect on an estimate;
a `CONVERT` without `--type` asks for `FP16` (parse.go:432), which no table has, where README.md:475 says `F16`;
and `QUANTIZE` to a type that needs an importance matrix is never refused, because
dispatchQuantize looks for it in the matrix and not in the type (convert.go:1661).

## 7. Not modelled

* How characters make words, key-value pairs, quotes and JSON (`line_parsers.go`,
  `split_command.go`): conversions that no property is about.
* The flags of `ADD`, `COPY`, `CAT`, `CONVERT` and `QUANTIZE` one by one, which are looked up in tables and
  handed to a tool; the text of errors; source maps; progress groups.
* The linter's rules one by one, and `ListTargets`: they read and report.
* The resolve cache: its behaviour after an error is a library's.
* Entry points and utilities: flags, and helpers without state of their own.  Of `main` there is only that it runs one command.
* Out of scope, since external: the meaning of LLB and its solver, registries, archives, GGUF files and the estimator.
