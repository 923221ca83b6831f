---------------------------- MODULE MCModelImage ----------------------------
\* Builds for the model checker.
EXTENDS ModelImage, TLC

Cmd(args) == [op |-> "CMD", json |-> TRUE, args |-> args, files |-> NoFiles]
Shell(args) == [op |-> "CMD", json |-> FALSE, args |-> args, files |-> NoFiles]
Label(key, v) == [op |-> "LABEL", key |-> key, value |-> v, nodelim |-> FALSE]
OldLabel(key, v) == [op |-> "LABEL", key |-> key, value |-> v, nodelim |-> TRUE]
File == [op |-> "FILE"]
Stage(name, base, cmds) == [name |-> name, base |-> base, cmds |-> cmds]
Recipe(tag, st, target, labels, strict) ==
    [tag |-> tag, stages |-> st, target |-> target, labels |-> labels, strict |-> strict]

MCEnv == [x \in {"$f", "$none"} |-> IF x = "$f" THEN "f" ELSE ""]
MCDashed == {"-m", "--model", "-md", "--model-draft", "--mmproj", "--lora", "--lora-scaled",
             "--control-vector", "--control-vector-scaled", "-c", "--system-prompt-file", "--chat-template"}
MCSpaced == {"a b", "g h"}
MCFileOptions == {"--system-prompt-file"}

\* An image that some other tool has made.
MCElsewhere == "ubuntu" :> [labels |-> "title" :> "ubuntu", history |-> <<<<"RUN", "">>>>, cmd |-> <<"sh">>,
                            files |-> NoFiles, size |-> 0, mixed |-> FALSE]

Plain == <<"-m", "f">>
Drafted == <<"--system-prompt-file", "p", "-m", "f", "-md", "g">>
Adapted == <<"-c", "8", "-m", "f", "--lora", "g h", "--lora-scaled", "h", "1", "--chat-template", "a b">>
Other == <<"-m", "g", "-c", "8">>
Long == <<"--model", "f", "-m", "$f", "-m", "", "--mmproj", "$none", "--model-draft", "", "--lora", "", "--mmproj", "g",
          "--control-vector", "g", "--control-vector", "", "--control-vector-scaled", "h", "2", "--lora-scaled", "", "3",
          "--control-vector-scaled", "", "4", "--lora", "$none">>
Refused == {Shell(Plain), Cmd(<<>>), Cmd(<<"f">>), Cmd(<<"-c", "8">>), Cmd(<<"-m">>), Cmd(<<"-m", "f", "--lora-scaled", "g">>),
            Cmd(<<"-m", "f", "-m", "$none">>), Cmd(<<"-m", "f", "--lora", "$none", "--lora", "g">>)}

\* One stage, with the CMDs that the parser knows and refuses.
One(base, cmds, labels, strict) == Recipe("x", <<Stage("", base, cmds)>>, 1, labels, strict)
OneStage ==
    {One("scratch", <<c>>, NoLabels, FALSE) : c \in Refused}
    \cup {One("scratch", <<Cmd(Long), OldLabel("title", "x")>>, "title" :> "option", strict) : strict \in BOOLEAN}
    \cup {One("scratch", <<Cmd(Adapted), Label("title", "x"), Cmd(Other)>>, NoLabels, strict) : strict \in BOOLEAN}
    \cup {One("ubuntu", <<Label("architecture", "mine"), Cmd(Drafted), Label("architecture", "yours")>>, NoLabels, FALSE),
          One("nowhere", <<Cmd(Plain)>>, NoLabels, FALSE)}

\* A base image, and an image made from it: its CMD kept, replaced, or in
\* between; with labels; with a stage beside those of the target.
Bases ==
    {Recipe("a", <<Stage("", "scratch", cmds)>>, 1, NoLabels, FALSE) :
        cmds \in {<<File, Cmd(Plain)>>, <<File, File, Cmd(Drafted)>>, <<Cmd(Adapted), Label("title", "x")>>, <<File>>}}
Chains ==
    {Recipe("b", <<Stage("one", base, <<File>> \o first), Stage("two", "one", second)>>, 2, NoLabels, FALSE) :
        base \in {"a", "scratch"}, first \in {<<Cmd(Plain)>>, <<Label("title", "y")>>},
        second \in {<<>>, <<Cmd(Other), Label("title", "z")>>}}
Forks ==
    {Recipe("b", <<Stage("one", "a", first), Stage("two", "one", <<File, Label("title", "z")>>),
                   Stage("three", base, <<File, Cmd(Plain)>>)>>, 3, NoLabels, FALSE) :
        first \in {<<>>, <<Label("title", "y"), File, File>>}, base \in {"one", "two", "scratch"}}
Beside ==
    {Recipe("b", <<Stage("one", "scratch", first), Stage("two", "one", <<File>>), Stage("three", "one", <<Label("title", "y")>>),
                   Stage("four", base, <<Cmd(Plain)>>)>>, 4, NoLabels, FALSE) :
        first \in {<<File>>, <<File, File, File>>}, base \in {"two", "three"}}
Again == {Recipe("c", <<Stage("", "b", cmds)>>, 1, NoLabels, FALSE) : cmds \in {<<>>, <<File, Cmd(Plain)>>}}

MCRecipes == OneStage \cup Bases \cup Chains \cup Forks \cup Beside \cup Again

\* Builds in which nobody sets a label that the builder sets.
MCUnlabelled == Bases \cup Chains \cup Again
=============================================================================
