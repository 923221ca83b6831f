----------------------------- MODULE ModelImage -----------------------------
(***************************************************************************)
(* What becomes of CMD and LABEL on the way from a recipe to an image in   *)
(* the registry, and from there to the command line of the server:         *)
(* parseCmd finds the GGUF files a CMD names, dispatch expands them and    *)
(* commits labels and history, ToLLB takes the CMD of the target or of the *)
(* base image, the builder reads every file that it names, and run puts    *)
(* the directory of the model before each of them.                         *)
(*                                                                         *)
(* Builds follow each other, and a later one may start FROM the image of   *)
(* an earlier one.  Label maps and history arrays are shared by reference  *)
(* within a build, so they are kept apart from the images that use them.   *)
(*                                                                         *)
(* A recipe holds the stages that the conversion dispatches (Convert says  *)
(* which), its target, the labels of the build options and whether a       *)
(* warning fails the build.  All GGUF files have the size 1.               *)
(*                                                                         *)
(* ForgetsLast, Overwrite, IndexOfFlag, FirstCmd and AfterAnyOption are    *)
(* wrong variants of the definitions that follow them: the checks show     *)
(* that the properties of this module tell them from the code.             *)
(***************************************************************************)
EXTENDS Integers, Sequences

CONSTANTS
    Recipes,      \* the builds that may be asked for
    Elsewhere,    \* the images that the registry has already, by name
    MaxBuilds,    \* bound: builds that are started
    Env,          \* what the words with a variable expand to
    Dashed,       \* the words that start with "-"
    FileOptions,  \* the words of Dashed that end with "-file"
    Spaced        \* the words with a space, a quote or a backslash

VARIABLES
    registry,   \* the images that a FROM can name
    builds,     \* builds started
    phase,      \* which part of the build is running
    recipe,     \* the build that is running
    stages,     \* its stages, with the parameters that parseCmd found
    s, k, i,    \* the loops over stages, their commands, and the words of a command
    image,      \* d.image of each stage
    baseImg,    \* d.baseImg of each stage
    maps,       \* label maps, by reference
    arrays,     \* backing arrays of histories, by reference
    warned,     \* the linter has called a rule
    ps,         \* the parameters whose files are still to be read
    crashed     \* a build has ended in a panic

heap == <<maps, arrays>>
result == <<image, baseImg, heap>>
vars == <<registry, builds, phase, recipe, stages, s, k, i, result, warned, ps, crashed>>

-----------------------------------------------------------------------------
(* parseCmd: the flags that name GGUF files *)

\* The words of a CMD, a label or a name.
Empty == ""
Word == STRING \cup {Empty}

OneValue == {"-m", "--model", "-md", "--model-draft", "--mmproj", "--lora", "--control-vector"}
TwoValues == {"--lora-scaled", "--control-vector-scaled"}

Takes(word) == IF word \in OneValue THEN 1 ELSE IF word \in TwoValues THEN 2 ELSE 0

TypeOf(flag) ==
    IF flag \in {"-m", "--model"} THEN "model"
    ELSE IF flag \in {"-md", "--model-draft"} THEN "drafter"
    ELSE IF flag = "--mmproj" THEN "projector" ELSE "adapter"

\* No file: a parameter or an entry of the image that is nil.
NoFile == [value |-> Empty, index |-> 0]
NoFiles == [model |-> NoFile, drafter |-> NoFile, projector |-> NoFile, adapters |-> <<>>]

\* What the parser makes of a recipe, before parseCmd; the files of an image.
Parameter == [value : Word, index : Nat]
Parameters == [model : Parameter, drafter : Parameter, projector : Parameter, adapters : Seq(Parameter)]
Cmds == [op : {"CMD"}, json : BOOLEAN, args : Seq(Word), files : Parameters]
Command == Cmds \cup [op : {"LABEL"}, key : Word, value : Word, nodelim : BOOLEAN] \cup [op : {"FILE"}]
Stages == Seq([name : Word, base : Word \ {Empty}, cmds : Seq(Command)])
Line == Seq({"CMD", "LABEL", "FILE"} \cup Word)

\* files with the parameter p of a type: adapters add up, the last of the others counts.
WithFile(files, type, p) ==
    IF type = "adapter" THEN [files EXCEPT !.adapters = Append(@, p)] ELSE [files EXCEPT ![type] = p]

\* The files of a CMD or of an image, each with its type, as the builder lists them (ps).
Listed(files) ==
    LET Typed(type) == IF files[type] = NoFile THEN <<>> ELSE <<[type |-> type, file |-> files[type]]>>
    IN  Typed("model") \o Typed("drafter") \o Typed("projector")
            \o [j \in DOMAIN files.adapters |-> [type |-> "adapter", file |-> files.adapters[j]]]

Entries(files) == {Listed(files)[j].file : j \in DOMAIN Listed(files)}

\* The position that an entry records is that of its value.
Points(cmd, e) == e.index \in DOMAIN cmd /\ cmd[e.index] = e.value

\* A flag is no word with a variable; the images that are there are of other
\* tools, or name the files that their CMD has behind its flags.
ASSUME ModelImageAssumption ==
    /\ MaxBuilds \in Nat
    /\ DOMAIN Env \cap (OneValue \cup TwoValues \cup {Empty}) = {} /\ \A w \in DOMAIN Env : Env[w] \in Word
    /\ \A r \in Recipes :
           /\ r.stages \in Stages /\ r.target \in DOMAIN r.stages /\ r.tag \in Word
           /\ \A d \in DOMAIN r.stages : \A j \in DOMAIN r.stages[d].cmds :
                  r.stages[d].cmds[j].op = "CMD" => r.stages[d].cmds[j].files = NoFiles
    /\ \A name \in DOMAIN Elsewhere :
           LET img == Elsewhere[name]
           IN  /\ img.cmd \in Seq(Word) /\ img.files \in Parameters /\ img.size \in Nat /\ img.history \in Seq(Line)
               /\ ~img.mixed => \A e \in Entries(img.files) :
                      Points(img.cmd, e) /\ e.index > 1 /\ Takes(img.cmd[e.index - 1]) > 0

(* CmdCommand.Expand *)

Expanded(word) == IF word \in DOMAIN Env THEN Env[word] ELSE word

ExpandFile(p) == IF Expanded(p.value) = Empty THEN NoFile ELSE [p EXCEPT !.value = Expanded(@)]

\* The loop goes over the positions of the list as it was, and takes elements
\* out of the list: it runs past the end unless the last one alone is taken out.
ExpandCrashes(adapters) == \E j \in 1..(Len(adapters) - 1) : Expanded(adapters[j].value) = Empty

ExpandAdapters(adapters) ==
    LET keep == IF adapters # <<>> /\ Expanded(adapters[Len(adapters)].value) = Empty
                THEN SubSeq(adapters, 1, Len(adapters) - 1) ELSE adapters
    IN  [j \in DOMAIN keep |-> ExpandFile(keep[j])]

ExpandCmd(c) ==
    [c EXCEPT !.args = [j \in DOMAIN c.args |-> Expanded(c.args[j])],
              !.files = [model |-> ExpandFile(@.model), drafter |-> ExpandFile(@.drafter),
                         projector |-> ExpandFile(@.projector), adapters |-> ExpandAdapters(@.adapters)]]

-----------------------------------------------------------------------------
(* Images *)

\* Two maps of labels, of which the first prevails.
Over(m, n) == [key \in DOMAIN m \cup DOMAIN n |-> IF key \in DOMAIN m THEN m[key] ELSE n[key]]
Only(key, v) == [x \in {key} |-> v]

EmptyImage == [labels |-> 0, history |-> [array |-> 0, len |-> 0], cmd |-> <<>>, files |-> NoFiles, size |-> 0]
NoImage == [name |-> Empty, labels |-> 0]

\* A wrong append to a history that is full: over the last entry.
ForgetsLast(array, e) ==
    [j \in 1..(IF array = <<>> THEN 1 ELSE 2 * Len(array)) |-> IF j < Len(array) THEN array[j] ELSE e]
\* commitToHistory on an array that is full, or nil: a new one of twice its size.
Grown(array, e) ==
    [j \in 1..(IF array = <<>> THEN 1 ELSE 2 * Len(array)) |->
        IF j <= Len(array) THEN array[j] ELSE IF j = Len(array) + 1 THEN e ELSE <<>>]

ArrayOf(h) == IF h.array = 0 THEN <<>> ELSE arrays[h.array]
HistoryOf(h) == SubSeq(ArrayOf(h), 1, h.len)

\* The history h of the stage d with an entry e appended.
CommitToHistory(d, img, e) ==
    LET h == img.history
    IN  IF h.len < Len(ArrayOf(h))
        THEN /\ arrays' = [arrays EXCEPT ![h.array][h.len + 1] = e]
             /\ image' = [image EXCEPT ![d] = [img EXCEPT !.history.len = h.len + 1]]
        ELSE /\ arrays' = Append(arrays, Grown(ArrayOf(h), e))
             /\ image' = [image EXCEPT ![d] = [img EXCEPT !.history = [array |-> Len(arrays) + 1, len |-> h.len + 1]]]

\* The room of an array to which n entries were appended one by one: 1, 2, 4, ...
Room(n) ==
    LET twice[e \in 1..n + 1] == IF e = 1 THEN 1 ELSE 2 * twice[e - 1]
    IN  twice[CHOOSE e \in 1..n + 1 : twice[e] >= n /\ \A f \in 1..n + 1 : twice[f] >= n => e <= f]

\* A history as json.Unmarshal leaves it: appended entry by entry.
Unmarshalled(history) ==
    [j \in 1..Room(Len(history)) |-> IF j <= Len(history) THEN history[j] ELSE <<>>]

NoLabels == [x \in {} |-> Empty]
LabelsOf(img) == IF img.labels = 0 THEN NoLabels ELSE maps[img.labels]

\* A wrong setLabel: it writes over a label that is there.
Overwrite(labels, key, v) == Over(Only(key, v), labels)
\* setLabel: v becomes the label key unless there is one.
SetLabel(labels, key, v) == Over(labels, Only(key, v))

\* The stage whose name the stage d starts FROM: the latest before d; 0 if none.
BaseOf(d) ==
    LET named == {e \in 1..(d - 1) : stages[e].name = stages[d].base}
    IN  IF named = {} THEN 0 ELSE CHOOSE e \in named : \A f \in named : f <= e

-----------------------------------------------------------------------------
(* A build *)

NoBuild == [tag |-> Empty, stages |-> <<>>, target |-> 0, labels |-> NoLabels, strict |-> FALSE]

Init ==
    /\ registry = Elsewhere
    /\ builds = 0
    /\ crashed = FALSE
    /\ phase = "idle" /\ recipe = NoBuild /\ stages = <<>> /\ s = 0 /\ k = 0 /\ i = 0
    /\ image = <<>> /\ baseImg = <<>> /\ maps = <<>> /\ arrays = <<>>
    /\ warned = FALSE /\ ps = <<>>

Begin(r) ==
    /\ phase = "idle" /\ ~crashed /\ builds < MaxBuilds
    /\ builds' = builds + 1
    /\ recipe' = r
    /\ stages' = r.stages
    /\ phase' = "parse" /\ s' = 1 /\ k' = 1 /\ i' = 1
    /\ image' = [d \in DOMAIN r.stages |-> EmptyImage]
    /\ baseImg' = [d \in DOMAIN r.stages |-> NoImage]
    /\ UNCHANGED <<registry, heap, warned, ps, crashed>>

\* The end of a build: all of it is forgotten but what was pushed.
Leave ==
    /\ phase' = "idle" /\ recipe' = NoBuild /\ stages' = <<>> /\ s' = 0 /\ k' = 0 /\ i' = 0
    /\ image' = <<>> /\ baseImg' = <<>> /\ maps' = <<>> /\ arrays' = <<>>
    /\ warned' = FALSE /\ ps' = <<>>
Fail == Leave /\ UNCHANGED <<registry, builds, crashed>>
Panic == Leave /\ crashed' = TRUE /\ UNCHANGED <<registry, builds>>

AtCommand(ph) == phase = ph /\ s \in DOMAIN stages /\ k \in DOMAIN stages[s].cmds
AtCmd(ph) == AtCommand(ph) /\ stages[s].cmds[k].op = "CMD"
PastCommands(ph) == phase = ph /\ s \in DOMAIN stages /\ k = Len(stages[s].cmds) + 1

\* The next stage of the loop of a phase, its commands from k0 on, or the next phase.
NextStage(k0, following) ==
    /\ s' = IF s < Len(stages) THEN s + 1 ELSE 1
    /\ k' = k0
    /\ phase' = IF s < Len(stages) THEN phase ELSE following

(* Parse: the CMDs of all stages, word by word *)

Accepted(c) == c.json /\ c.args # <<>> /\ c.args[1] \in Dashed

ParseRefused ==
    /\ AtCmd("parse")
    /\ LET c == stages[s].cmds[k]
       IN  \/ ~Accepted(c)
           \/ i \in DOMAIN c.args /\ i + Takes(c.args[i]) > Len(c.args)
    /\ Fail

\* A wrong parseCmd: the position of the flag, not of its value.
IndexOfFlag(c, j) ==
    IF Takes(c.args[j]) = 0 \/ c.args[j + 1] = Empty THEN c.files
    ELSE WithFile(c.files, TypeOf(c.args[j]), [value |-> c.args[j + 1], index |-> j])

\* The files of c once the word at j is read: an empty value names none.
ParseWord(c, j) ==
    IF Takes(c.args[j]) = 0 \/ c.args[j + 1] = Empty THEN c.files
    ELSE WithFile(c.files, TypeOf(c.args[j]), [value |-> c.args[j + 1], index |-> j + 1])

ParseArgument ==
    /\ AtCmd("parse")
    /\ LET c == stages[s].cmds[k]
       IN  /\ Accepted(c) /\ i \in DOMAIN c.args /\ i + Takes(c.args[i]) <= Len(c.args)
           /\ stages' = [stages EXCEPT ![s].cmds[k].files = ParseWord(c, i)]
           /\ i' = i + 1 + Takes(c.args[i])
    /\ UNCHANGED <<registry, builds, phase, recipe, s, k, result, warned, ps, crashed>>

ParseNext ==
    /\ AtCommand("parse")
    /\ stages[s].cmds[k].op = "CMD" => Accepted(stages[s].cmds[k]) /\ i > Len(stages[s].cmds[k].args)
    /\ k' = k + 1 /\ i' = 1
    /\ UNCHANGED <<registry, builds, phase, recipe, stages, s, result, warned, ps, crashed>>

ParseStage ==
    /\ PastCommands("parse")
    /\ NextStage(1, "resolve")
    /\ UNCHANGED <<registry, builds, recipe, stages, i, result, warned, ps, crashed>>

(* The images of the stages; each has a label map and a history of its own *)

FromRegistry(d) == BaseOf(d) = 0 /\ stages[d].base # "scratch"

ResolveFails ==
    /\ phase = "resolve"
    /\ FromRegistry(s) /\ stages[s].base \notin DOMAIN registry
    /\ Fail

\* An image from the registry is the image of the stage, and its clone the base image.
ResolveImage ==
    /\ phase = "resolve"
    /\ FromRegistry(s) /\ stages[s].base \in DOMAIN registry
    /\ LET img == registry[stages[s].base]
           ref == IF img.labels = NoLabels THEN 0 ELSE Len(maps) + 1
           array == IF img.history = <<>> THEN 0 ELSE Len(arrays) + 1
       IN  /\ maps' = IF ref = 0 THEN maps ELSE Append(maps, img.labels)
           /\ arrays' = IF array = 0 THEN arrays ELSE Append(arrays, Unmarshalled(img.history))
           /\ image' = [image EXCEPT ![s] =
                   [labels |-> ref, history |-> [array |-> array, len |-> Len(img.history)],
                    cmd |-> img.cmd, files |-> img.files, size |-> img.size]]
           /\ baseImg' = [baseImg EXCEPT ![s] = [name |-> stages[s].base, labels |-> ref]]
    /\ NextStage(0, "dispatch")
    /\ UNCHANGED <<registry, builds, recipe, stages, i, warned, ps, crashed>>

ResolveNothing ==
    /\ phase = "resolve"
    /\ ~FromRegistry(s)
    /\ NextStage(0, "dispatch")
    /\ UNCHANGED <<registry, builds, recipe, stages, i, result, warned, ps, crashed>>

(* Dispatch *)

\* dispatchState.init: clone copies the references to labels and history.
Enter ==
    /\ phase = "dispatch" /\ k = 0
    /\ LET b == BaseOf(s)
       IN  /\ image' = IF b = 0 THEN image ELSE [image EXCEPT ![s] = image[b]]
           /\ baseImg' = IF b = 0 THEN baseImg ELSE [baseImg EXCEPT ![s] = baseImg[b]]
    /\ k' = 1
    /\ UNCHANGED <<registry, builds, phase, recipe, stages, s, i, heap, warned, ps, crashed>>

DispatchLabel ==
    /\ AtCommand("dispatch") /\ stages[s].cmds[k].op = "LABEL"
    /\ LET c == stages[s].cmds[k]
           ref == IF image[s].labels = 0 THEN Len(maps) + 1 ELSE image[s].labels
       IN  /\ maps' = IF image[s].labels = 0 THEN Append(maps, Only(c.key, c.value))
                      ELSE [maps EXCEPT ![ref] = Over(Only(c.key, c.value), @)]
           /\ CommitToHistory(s, [image[s] EXCEPT !.labels = ref], <<"LABEL", stages[s].name>>)
           /\ warned' = (warned \/ c.nodelim)
    /\ k' = k + 1
    /\ UNCHANGED <<registry, builds, phase, recipe, stages, s, i, baseImg, ps, crashed>>

\* Another instruction, which adds files to the stage.
DispatchFile ==
    /\ AtCommand("dispatch") /\ stages[s].cmds[k].op = "FILE"
    /\ CommitToHistory(s, image[s], <<"FILE", stages[s].name>>)
    /\ k' = k + 1
    /\ UNCHANGED <<registry, builds, phase, recipe, stages, s, i, baseImg, maps, warned, ps, crashed>>

\* dispatchCmd; a second CMD of the stage is a warning.
DispatchCmd ==
    /\ AtCmd("dispatch")
    /\ LET c == stages[s].cmds[k]
       IN  /\ ~ExpandCrashes(c.files.adapters)
           /\ ExpandCmd(c).files.model # NoFile
           /\ stages' = [stages EXCEPT ![s].cmds[k] = ExpandCmd(c)]
           /\ CommitToHistory(s, image[s], <<"CMD", stages[s].name>>)
           /\ warned' = (warned \/ \E j \in 1..(k - 1) : stages[s].cmds[j].op = "CMD")
    /\ k' = k + 1
    /\ UNCHANGED <<registry, builds, phase, recipe, s, i, baseImg, maps, ps, crashed>>

DispatchCmdFails ==
    /\ AtCmd("dispatch")
    /\ ~ExpandCrashes(stages[s].cmds[k].files.adapters)
    /\ ExpandCmd(stages[s].cmds[k]).files.model = NoFile
    /\ Fail

ExpandPanics ==
    /\ AtCmd("dispatch")
    /\ ExpandCrashes(stages[s].cmds[k].files.adapters)
    /\ Panic

DispatchStage ==
    /\ PastCommands("dispatch")
    /\ NextStage(0, "finish")
    /\ UNCHANGED <<registry, builds, recipe, stages, i, result, warned, ps, crashed>>

t == recipe.target

\* The end of toDispatchState: labels of the build options, and the linter's error.
Finish ==
    /\ phase = "finish"
    /\ ~(recipe.strict /\ warned)
    /\ IF recipe.labels = NoLabels THEN UNCHANGED <<image, maps>>
       ELSE LET ref == IF image[t].labels = 0 THEN Len(maps) + 1 ELSE image[t].labels
            IN  /\ maps' = IF image[t].labels = 0 THEN Append(maps, recipe.labels)
                           ELSE [maps EXCEPT ![ref] = Over(recipe.labels, @)]
                /\ image' = [image EXCEPT ![t].labels = ref]
    /\ phase' = "describe"
    /\ UNCHANGED <<registry, builds, recipe, stages, s, k, i, baseImg, arrays, warned, ps, crashed>>

LintError ==
    /\ phase = "finish"
    /\ recipe.strict /\ warned
    /\ Fail

(* ToLLB: the label that names the base, and the CMD to take *)

CmdsOf(d) == {j \in DOMAIN stages[d].cmds : stages[d].cmds[j].op = "CMD"}
HasCmd(d) == CmdsOf(d) # {}

\* A wrong Parse: the stage keeps its first CMD.
FirstCmd(d) == stages[d].cmds[CHOOSE j \in CmdsOf(d) : \A h \in CmdsOf(d) : j <= h]
\* stage.CmdCommand: each CMD that is parsed replaces the one before.
CmdCommand(d) == stages[d].cmds[CHOOSE j \in CmdsOf(d) : \A h \in CmdsOf(d) : h <= j]

Describe ==
    /\ phase = "describe"
    /\ LET ref == IF image[t].labels = 0 THEN Len(maps) + 1 ELSE image[t].labels
           labels == IF stages[t].base = "scratch" THEN LabelsOf(image[t])
                     ELSE SetLabel(LabelsOf(image[t]), "base.name", stages[t].base)
           cmd == IF HasCmd(t) THEN CmdCommand(t).args ELSE image[t].cmd
           size == IF HasCmd(t) \/ baseImg[t] # NoImage THEN 0 ELSE image[t].size
       IN  /\ maps' = IF image[t].labels = 0 THEN Append(maps, labels) ELSE [maps EXCEPT ![ref] = labels]
           /\ image' = [image EXCEPT ![t] = [@ EXCEPT !.labels = ref, !.cmd = cmd, !.size = size]]
           /\ ps' = IF HasCmd(t) THEN Listed(CmdCommand(t).files)
                    ELSE IF baseImg[t] # NoImage THEN Listed(registry[baseImg[t].name].files) ELSE <<>>
    /\ phase' = "inspect"
    /\ UNCHANGED <<registry, builds, recipe, stages, s, k, i, baseImg, arrays, warned, crashed>>

(* Builder: gguf-parser reads the files one after the other *)

InspectFails ==
    /\ phase = "inspect" /\ ps # <<>>
    /\ Fail

\* The label stands for all those that the main model's metadata gives.
Inspect ==
    /\ phase = "inspect" /\ ps # <<>>
    /\ LET p == ps[1]
           img == image[t]
       IN  /\ image' = [image EXCEPT ![t] =
                   [img EXCEPT !.size = img.size + 1, !.files = WithFile(img.files, p.type, p.file)]]
           /\ maps' = IF p.type = "model"
                      THEN [maps EXCEPT ![image[t].labels] = SetLabel(@, "architecture", p.file.value)] ELSE maps
    /\ ps' = Tail(ps)
    /\ UNCHANGED <<registry, builds, phase, recipe, stages, s, k, i, baseImg, arrays, warned, crashed>>

\* Whether the image keeps files of its base image beside a CMD of its own
\* that names none of the kind, or its base image does so.
Mixes ==
    baseImg[t] # NoImage /\
        LET base == registry[baseImg[t].name]
        IN  \/ base.mixed
            \/ /\ HasCmd(t)
               /\ \/ \E type \in {"drafter", "projector"} :
                        base.files[type] # NoFile /\ CmdCommand(t).files[type] = NoFile
                  \/ base.files.adapters # <<>>

\* The exporter pushes the image: labels and history by value.
Push ==
    /\ phase = "inspect" /\ ps = <<>>
    /\ registry' = [name \in DOMAIN registry \cup {recipe.tag} |->
           IF name # recipe.tag THEN registry[name]
           ELSE [labels |-> LabelsOf(image[t]), history |-> HistoryOf(image[t].history),
                 cmd |-> image[t].cmd, files |-> image[t].files, size |-> image[t].size, mixed |-> Mixes]]
    /\ Leave
    /\ UNCHANGED <<builds, crashed>>

Next ==
    \/ \E r \in Recipes : Begin(r)
    \/ ParseRefused \/ ParseArgument \/ ParseNext \/ ParseStage
    \/ ResolveFails \/ ResolveImage \/ ResolveNothing
    \/ Enter \/ DispatchLabel \/ DispatchFile \/ DispatchCmd \/ DispatchCmdFails \/ ExpandPanics \/ DispatchStage
    \/ Finish \/ LintError \/ Describe \/ InspectFails \/ Inspect \/ Push

Spec == Init /\ [][Next]_vars

-----------------------------------------------------------------------------
(* run: the arguments of the server, each a word that may have the directory before it *)

\* A wrong run: the directory comes before what any option takes.
AfterAnyOption(args) == {j \in 2..Len(args) : args[j - 1].word \in Dashed}

\* Whether the word at j is what a "-file" option takes; the loop skips what it took.
TakenByFile(args) ==
    LET taken[j \in 1..Len(args)] ==
            j > 1 /\ args[j - 1].word \in FileOptions /\ ~args[j - 1].dir /\ ~taken[j - 1]
    IN  {j \in 1..Len(args) : taken[j]}

\* The assignments to execArgs[CmdParameterIndex], of which the last counts.
Joined(img) ==
    LET files == Listed(img.files)
        At(j) == {h \in DOMAIN files : files[h].file.index = j}
    IN  [j \in DOMAIN img.cmd |->
            IF At(j) = {} THEN [dir |-> FALSE, word |-> img.cmd[j]]
            ELSE [dir |-> TRUE, word |-> files[CHOOSE h \in At(j) : \A g \in At(j) : g <= h].file.value]]

RunCrashes(img) == \E e \in Entries(img.files) : e.index \notin DOMAIN img.cmd

RunArgs(img) ==
    [j \in DOMAIN img.cmd |->
        IF j \in TakenByFile(Joined(img)) THEN [Joined(img)[j] EXCEPT !.dir = TRUE] ELSE Joined(img)[j]]

\* strconvx.ShouldQuote of such a word.  The directory is odd if it has a space,
\* a quote or a backslash itself.
ShouldQuote(arg, odd) ==
    arg.word \in Spaced \/ (arg.dir /\ odd) \/ (~arg.dir /\ arg.word = Empty)

\* The words that are executed with quotes around them: all such, but for options.
Quoted(img, odd) ==
    {j \in DOMAIN img.cmd :
        LET arg == RunArgs(img)[j] IN ShouldQuote(arg, odd) /\ (arg.dir \/ arg.word \notin Dashed)}

-----------------------------------------------------------------------------
(* Properties *)

\* The GGUF files an image records are where its CMD has them, through every
\* chain of builds in which no image keeps files beside a CMD that names others.
PositionsHold ==
    \A name \in DOMAIN registry : ~registry[name].mixed =>
        \A e \in Entries(registry[name].files) : Points(registry[name].cmd, e)

\* run of such an image never leaves the range of the CMD; it has the words of
\* the CMD in their places, with the directory before every GGUF file and before
\* nothing that does not follow an option that takes a file; and quotes come
\* around no option and no word that is without spaces, quotes and backslashes,
\* if its directory is.
RunNamesTheFiles ==
    \A name \in DOMAIN registry : ~registry[name].mixed =>
        LET img == registry[name]
        IN  /\ ~RunCrashes(img)
            /\ \A j \in DOMAIN img.cmd : RunArgs(img)[j].word = img.cmd[j]
            /\ \A e \in Entries(img.files) : RunArgs(img)[e.index].dir
            /\ \A j \in DOMAIN img.cmd : RunArgs(img)[j].dir =>
                   j > 1 /\ (Takes(img.cmd[j - 1]) > 0 \/ img.cmd[j - 1] \in FileOptions)
            /\ \A odd \in BOOLEAN : \A j \in Quoted(img, odd) :
                   IF RunArgs(img)[j].dir THEN odd \/ img.cmd[j] \in Spaced
                   ELSE img.cmd[j] \in (Spaced \cup {Empty}) \ Dashed

Built == phase = "inspect" /\ ps = <<>>

\* "If you list more than one CMD, only the last one takes effect" (README):
\* the image has the words of the last CMD of the target, and no file of any
\* other CMD of the recipe.
OnlyTheLastCmd ==
    Built /\ HasCmd(t) =>
        LET c == recipe.stages[t].cmds[CHOOSE j \in CmdsOf(t) : \A h \in CmdsOf(t) : h <= j]
        IN  /\ image[t].cmd = [j \in DOMAIN c.args |-> Expanded(c.args[j])]
            /\ baseImg[t] = NoImage => \A e \in Entries(image[t].files) : Points(image[t].cmd, e)

\* The stages that the target is made from, FROM by FROM.
ChainOf(d0) ==
    LET in[d \in 1..Len(stages)] == d = d0 \/ \E e \in (d + 1)..Len(stages) : BaseOf(e) = d /\ in[e]
    IN  {d \in 1..Len(stages) : in[d]}

\* No stage beside that chain starts from a stage of it.
Alone == \A d \in DOMAIN stages : BaseOf(d) \in ChainOf(t) => d \in ChainOf(t)

\* The labels that the recipe asks for: those of LABEL, over those of the base image.
LabelsAt(d) == {j \in DOMAIN stages[d].cmds : stages[d].cmds[j].op = "LABEL"}
OwnLabels(d) ==
    [key \in {stages[d].cmds[j].key : j \in LabelsAt(d)} |->
        stages[d].cmds[CHOOSE j \in LabelsAt(d) :
            /\ stages[d].cmds[j].key = key
            /\ \A h \in LabelsAt(d) : stages[d].cmds[h].key = key => h <= j].value]
Labelled(d0) ==
    LET labels[d \in 1..Len(stages)] ==
            Over(OwnLabels(d), IF BaseOf(d) # 0 THEN labels[BaseOf(d)]
                               ELSE IF FromRegistry(d) THEN registry[stages[d].base].labels ELSE NoLabels)
    IN  labels[d0]

LabelsAreRight ==
    LET asked == Over(recipe.labels, Labelled(t))
        labels == LabelsOf(image[t])
    IN  /\ \A key \in DOMAIN asked : key \in DOMAIN labels /\ labels[key] = asked[key]
        /\ DOMAIN labels \subseteq DOMAIN asked \cup {"base.name", "architecture"}

\* "All labels can be overridden" (README): the labels of the options, of LABEL
\* and of the base image prevail over those that the builder finds, and there
\* are no others, as long as no other stage starts from the same stages.
LabelsPrevail == Built /\ Alone => LabelsAreRight

\* The history of the image: that of the base image, then a line per
\* instruction of the chain, in order.
Written(d0) ==
    LET history[d \in 1..Len(stages)] ==
            (IF BaseOf(d) # 0 THEN history[BaseOf(d)]
             ELSE IF FromRegistry(d) THEN registry[stages[d].base].history ELSE <<>>)
            \o [j \in DOMAIN stages[d].cmds |-> <<stages[d].cmds[j].op, stages[d].name>>]
    IN  history[d0]

HistoryIsRight == HistoryOf(image[t].history) = Written(t)
HistoryIsWhole == Built /\ Alone => HistoryIsRight

\* "Each FROM instruction clears any state created by previous instructions"
\* (README): the labels of the target are those of its own chain of stages.
StagesKeepTheirLabels == Built => LabelsAreRight

\* The same of its history.
StagesKeepTheirHistory == Built => HistoryIsRight

\* "immutable, unlike image" (convert.go, of baseImg).
BaseImageStays ==
    \A d \in DOMAIN baseImg : baseImg[d].labels # 0 => maps[baseImg[d].labels] = registry[baseImg[d].name].labels

\* "The CMD instruction sets the command to be executed" (README, with a chat
\* template among its words): run executes the words as they are.
WordsReachTheServer == \A name \in DOMAIN registry : Quoted(registry[name], FALSE) = {}

\* "CmdParameterIndex indicates the index of the Cmd" (image.go).
IndexIsOfTheCmd ==
    \A name \in DOMAIN registry : \A e \in Entries(registry[name].files) : Points(registry[name].cmd, e)

\* "Size represents the summarized size of all GGUFFiles" (image.go).
SizeIsOfAllFiles ==
    \A name \in DOMAIN registry : registry[name].files # NoFiles => registry[name].size = Len(Listed(registry[name].files))

\* "gguf.model.architecture: The architecture of the model" (README), where
\* nobody has set it.
ArchitectureIsOfTheModel ==
    Built /\ image[t].files.model # NoFile => LabelsOf(image[t])["architecture"] = image[t].files.model.value
=============================================================================
