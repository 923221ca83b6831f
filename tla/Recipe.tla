------------------------------- MODULE Recipe -------------------------------
(***************************************************************************)
(* Recipes (GGUFPackerfiles after parsing), what their author may expect   *)
(* of them, and which of them a conversion has to refuse.  The definitions *)
(* of this module follow the recipe alone: they know nothing of dispatch   *)
(* states, of their order or of the goroutines that resolve images.        *)
(*                                                                         *)
(* Names are in lower case and already expanded, an image that is not      *)
(* Scratch has layers, and paths other than Root are unrelated.            *)
(***************************************************************************)
EXTENDS Naturals, Sequences, FiniteSets

CONSTANTS
    Name,           \* stage and image names
    NoName,         \* a stage without AS
    Scratch,        \* emptyImageName
    Context,        \* the name "context" of the build context
    ConvertImage,   \* opt.ConvertImage or the default image: runs CONVERT
    QuantizeImage,  \* the same for QUANTIZE
    Path,           \* paths of a build context
    Root,           \* its root directory, "/"
    Remote          \* a URL in place of a path

ASSUME NameAssumption ==
    /\ {Scratch, Context, ConvertImage, QuantizeImage} \subseteq Name
    /\ NoName \notin Name
ASSUME PathAssumption == Root \in Path /\ Remote \notin Path

FromNothing == [by |-> "none"]
From == {FromNothing} \cup [by : {"name"}, name : Name] \cup [by : {"index"}, index : Nat]
Op == {"ADD", "COPY", "CAT", "CONVERT", "QUANTIZE", "LABEL"}

\* `ok`: the instruction finds no error in its own arguments when dispatched.
Command == [op : Op, from : From, path : Path \cup {Remote}, ok : BOOLEAN]
Stage == [name : Name \cup {NoName}, image : Name, cmds : Seq(Command)]

Input ==
    [stages    : Seq(Stage) \ {<<>>},
     target    : Name \cup {NoName},   \* opt.Target
     allStages : BOOLEAN,              \* opt.AllStages: lint without a target
     named     : SUBSET Name,          \* names that the client has a context for
     broken    : SUBSET Name,          \* names whose context or image cannot be had
     fails     : SUBSET {"ignore", "lint", "context"}]  \* failing calls at the end

IsTool(c) == c.op \in {"CONVERT", "QUANTIZE"}
ToolImage(c) == IF c.op = "CONVERT" THEN ConvertImage ELSE QuantizeImage

\* namedContext asks the client about every stage name but two.
Asked(name) == name \notin {NoName, Scratch, Context}

\* A context that the client has for the name of a stage replaces the stage.
Replaced(in, s) == Asked(s.name) /\ s.name \in in.named

-----------------------------------------------------------------------------
\* The stages of a recipe, by position, and how they refer to each other.

Positions(in) == 1..Len(in.stages)

\* The last stage of that name before position k, 0 when there is none.
Last(in, name, k) ==
    LET same == {j \in 1..(k - 1) : in.stages[j].name = name} IN
    IF same = {} THEN 0 ELSE CHOOSE j \in same : \A i \in same : i <= j

BaseStage(in, k) == Last(in, in.stages[k].image, k)
FromStage(in, from) ==
    CASE from.by = "name"  -> Last(in, from.name, Len(in.stages) + 1)
      [] from.by = "index" -> from.index + 1
      [] OTHER             -> 0

Commands(in, k) == {in.stages[k].cmds[i] : i \in DOMAIN in.stages[k].cmds}
FromStages(in, k) == {FromStage(in, c.from) : c \in Commands(in, k)} \ {0}

FromImage(in, c) == c.from.by = "name" /\ FromStage(in, c.from) = 0 /\ c.from.name # Context
FromContext(in, c) == c.from.by = "name" /\ FromStage(in, c.from) = 0 /\ c.from.name = Context

\* What the target is built from, directly or not; everything for lint.
Needed(in) ==
    LET t == IF in.target = NoName THEN Len(in.stages) ELSE Last(in, in.target, Len(in.stages) + 1)
        Closed(S) == \A k \in S : ({BaseStage(in, k)} \ {0}) \cup FromStages(in, k) \subseteq S
    IN {k \in Positions(in) : \A S \in SUBSET Positions(in) :
            (in.allStages \/ t \in S) /\ Closed(S) => in.allStages \/ k \in S}

\* The stages whose commands are carried out.
Built(in) == {k \in Needed(in) : in.allStages \/ ~Replaced(in, in.stages[k])}

-----------------------------------------------------------------------------
\* What a stage holds: the images, contexts and commands that it is made from.

Vertex(Stages) ==
    ({"image", "local"} \X Name) \cup {<<"context">>} \cup ({"op"} \X Stages \X Nat)

ImageContent(in, name) ==
    IF name = Scratch THEN {} ELSE {<<IF name \in in.named THEN "local" ELSE "image", name>>}

\* Content by depth: no stage is more than Len(stages) references away.
Content(in) ==
    LET
        Read(below, c) ==
            CASE FromStage(in, c.from) # 0 -> below[FromStage(in, c.from)]
              [] FromImage(in, c)          -> ImageContent(in, c.from.name)
              [] FromContext(in, c)        -> {<<"context">>}
              [] c.from = FromNothing /\ c.op \in {"ADD", "COPY"} /\ c.path # Remote -> {<<"context">>}
              [] OTHER -> {}
        Add(below, k, i) ==
            LET c == in.stages[k].cmds[i] IN
            IF c.op = "LABEL" THEN {}
            ELSE {<<"op", k, i>>} \cup Read(below, c)
                   \cup (IF IsTool(c) THEN ImageContent(in, ToolImage(c)) ELSE {})
        Base(below, k) ==
            IF BaseStage(in, k) # 0 THEN below[BaseStage(in, k)]
            ELSE ImageContent(in, in.stages[k].image)
        content[depth \in 0..Len(in.stages)] ==
            IF depth = 0 THEN [k \in Positions(in) |-> {}]
            ELSE LET below == content[depth - 1] IN
                 [k \in Positions(in) |->
                    IF Replaced(in, in.stages[k]) THEN {<<"local", in.stages[k].name>>}
                    ELSE Base(below, k) \cup UNION {Add(below, k, i) : i \in DOMAIN in.stages[k].cmds}]
    IN content[Len(in.stages)]

-----------------------------------------------------------------------------
\* Which conversions have to succeed.

Images(in, k) ==
    (IF BaseStage(in, k) = 0 /\ ~Replaced(in, in.stages[k]) THEN {in.stages[k].image} ELSE {})
        \cup {c.from.name : c \in {c \in Commands(in, k) : FromImage(in, c)}}
        \cup {ToolImage(c) : c \in {c \in Commands(in, k) : IsTool(c)}}

Available(in, k) ==
    \A x \in Images(in, k) \ {Scratch} :
        x \in in.broken => x \notin in.named /\ k \notin Needed(in)

\* A COPY takes files from a stage that comes before its own.
Sound(in, k, c) ==
    /\ c.ok
    /\ c.op = "COPY" => c.path # Remote
    /\ c.op = "COPY" /\ FromStage(in, c.from) # 0 =>
         \/ FromStage(in, c.from) < k
         \/ Replaced(in, in.stages[FromStage(in, c.from)])

Accepts(in) ==
    /\ in.fails = {}
    /\ in.target = NoName \/ \E k \in Positions(in) : in.stages[k].name = in.target
    /\ \A k \in Positions(in) :
         /\ Replaced(in, in.stages[k]) => in.stages[k].name \notin in.broken
         /\ FromStages(in, k) \subseteq Positions(in)
         /\ Available(in, k)
    /\ \A S \in SUBSET Positions(in) : S # {} => \E k \in S : FromStages(in, k) \cap S = {}
    /\ \A k \in Built(in) : \A c \in Commands(in, k) : Sound(in, k, c)
=============================================================================
