----------------------------- MODULE MCConvert -----------------------------
\* Recipes for the model checker.
EXTENDS Convert

CONSTANTS alpha, beta, gamma, img, lib, tool, empty, context, noname, p, q, root, url

MCName == {alpha, beta, gamma, img, lib, tool, empty, context}
MCPath == {p, q, root}

By(x) == [by |-> "name", name |-> x]
At(i) == [by |-> "index", index |-> i]
Do(op, from, path) == [op |-> op, from |-> from, path |-> path, ok |-> TRUE]
Bad(op, from, path) == [op |-> op, from |-> from, path |-> path, ok |-> FALSE]
AtMostOne(C) == {<<>>} \cup {<<x>> : x \in C}
Stages(names, images, cmds) == [name : names, image : images, cmds : cmds]
Plain(S) == [stages : S, target : {noname}, allStages : {FALSE}, named : {{}}, broken : {{}}, fails : {{}}]

\* Two stages: --from to the stage itself, before it, after it, by name, by
\* position, to nothing; stages of the same name; a target or the last stage.
First == Stages({alpha}, {empty, img}, AtMostOne({
    Do("CAT", FromNothing, p), Do("ADD", FromNothing, p),
    Do("COPY", By(beta), p), Bad("QUANTIZE", FromNothing, p), Do("CONVERT", By(img), p)}))
Second == Stages({noname, alpha, beta}, {empty, alpha, lib}, AtMostOne({
    Do("COPY", By(alpha), p), Do("COPY", At(0), q), Do("COPY", At(9), q), Do("COPY", By(lib), p),
    Do("CONVERT", By(alpha), p), Do("QUANTIZE", By(context), p), Do("COPY", FromNothing, url), Do("ADD", FromNothing, url)})
    \cup {<<Do("COPY", By(beta), p), Do("CAT", FromNothing, p)>>})
TwoStages ==
    [stages : {<<s, t>> : s \in First, t \in Second}, target : {noname, alpha}, allStages : {FALSE},
     named : {{}, {alpha}, {beta}, {img}}, broken : {{}}, fails : {{}}]
    \cup
    [stages : {<<s, t>> : s \in First, t \in Second}, target : {noname}, allStages : {TRUE},
     named : {{}, {beta}}, broken : {{}}, fails : {{}}]

\* Three stages, in chains of FROM and --from over two files of each stage.
Middle == Stages({beta}, {empty, alpha}, {
    <<>>, <<Do("COPY", By(alpha), p), Do("COPY", FromNothing, q)>>, <<Do("COPY", By(alpha), q), Do("QUANTIZE", FromNothing, p)>>,
    <<Do("CAT", FromNothing, q), Do("CONVERT", At(0), p)>>, <<Do("COPY", By(gamma), p)>>})
Final == Stages({gamma}, {empty, alpha, beta}, {
    <<>>, <<Do("COPY", By(beta), p), Do("COPY", By(alpha), q)>>, <<Do("CONVERT", By(beta), p)>>, <<Do("COPY", At(1), root)>>})
ThreeStages ==
    [stages : {<<s, t, u>> : s \in Stages({alpha}, {img}, {<<>>, <<Do("ADD", FromNothing, p), Do("ADD", FromNothing, q)>>}),
                             t \in Middle, u \in Final},
     target : {noname, beta}, allStages : {FALSE}, named : {{}, {alpha}}, broken : {{}}, fails : {{}}]

\* Several images resolved at once, some of them broken, some of them needed.
Failing ==
    [stages : {<<s, t>> : s \in Stages({alpha}, {img}, AtMostOne({Do("COPY", By(lib), p), Do("LABEL", FromNothing, p)})),
                          t \in Stages({beta}, {empty, lib, alpha}, AtMostOne({Do("CONVERT", By(img), p), Bad("CAT", FromNothing, p)}))},
     target : {noname, alpha, gamma}, allStages : BOOLEAN, named : {{}, {img}, {alpha, lib}},
     broken : SUBSET {img, lib, alpha}, fails : {{}}]
    \cup [stages : {<<s>> : s \in Stages({alpha}, {img, empty}, {<<Do("CONVERT", By(context), p)>>, <<Do("COPY", At(0), p)>>})},
          target : {noname}, allStages : BOOLEAN, named : {{}}, broken : {{}, {tool}}, fails : SUBSET {"ignore", "lint", "context"}]

\* A CONVERT or QUANTIZE that reads a stage which comes later.
ReadsLater(in) ==
    \E k \in Positions(in) : \E x \in Commands(in, k) :
        IsTool(x) /\ FromStage(in, x.from) >= k /\ ~Replaced(in, in.stages[FromStage(in, x.from)])

\* Named contexts for a stage or an image, read through chains of stages.
Chain(thirds) ==
    [stages : {<<s, t, u>> : s \in Stages({alpha}, {img}, {<<>>}),
                             t \in Stages({beta}, {alpha, img}, {<<>>, <<Do("CAT", FromNothing, p)>>, <<Do("COPY", By(alpha), p)>>}),
                             u \in Stages({gamma}, {empty, alpha, beta}, thirds)},
     target : {noname}, allStages : {FALSE}, named : {{alpha}, {img}, {alpha, img}, {img, lib}}, broken : {{}}, fails : {{}}]
NamedInputs ==
    Chain({<<>>, <<Do("COPY", By(beta), q)>>, <<Do("COPY", By(beta), p), Do("COPY", By(alpha), q)>>, <<Do("COPY", By(lib), p), Do("COPY", By(lib), q)>>,
           <<Do("COPY", By(img), root), Do("COPY", By(img), p)>>})

MCInputs == {in \in TwoStages \cup ThreeStages \cup Failing : ~ReadsLater(in)} \cup NamedInputs

\* What the documentation promises and the code does not do.
ToolReadsLater == Plain({<<s, t>> :
    s \in Stages({alpha}, {empty}, {<<Do("CONVERT", By(beta), p)>>}), t \in Stages({beta}, {empty, alpha}, {<<Do("ADD", FromNothing, p)>>})})
    \cup Plain({<<s, t, u>> : s \in Stages({alpha}, {empty}, {<<Do("QUANTIZE", By(beta), p)>>}),
         t \in Stages({beta}, {img}, {<<Do("CAT", FromNothing, p)>>}), u \in Stages({gamma}, {alpha}, AtMostOne({Do("COPY", By(alpha), p)}))})
CopyFromContext == Plain({<<s>> : s \in Stages({alpha}, {empty, img}, {<<Do("COPY", By(context), p)>>, <<Do("CAT", FromNothing, q), Do("COPY", By(context), root)>>})})
AddThenCopy == Plain({<<s>> : s \in Stages({alpha}, {empty, img}, {<<Do("ADD", FromNothing, p), Do("COPY", FromNothing, q)>>,
                                                                <<Do("ADD", FromNothing, p), Do("CONVERT", By(context), q)>>})})
CopyThenConvert == Chain({<<Do("COPY", By(alpha), p), Do("CONVERT", By(alpha), q)>>})
PlainConvert == Plain({<<s>> : s \in Stages({alpha}, {empty, img}, {<<Do("CONVERT", FromNothing, p)>>, <<Do("ADD", FromNothing, url), Do("CONVERT", FromNothing, p)>>})})
\* What IsClear of ConvertProofs leaves out: a number behind --from that leads past
\* the stages, and a stage named like the image of a tool that cannot be had.
Unclear == Plain({<<s>> : s \in Stages({alpha}, {empty}, {<<Do("COPY", By(lib), p), Do("COPY", At(1), q)>>})})
    \cup [stages : {<<s, t>> : s \in Stages({tool}, {img}, {<<Do("CAT", FromNothing, p)>>}), t \in Stages({beta}, {empty}, {<<Do("CONVERT", By(context), p)>>})},
          target : {noname}, allStages : {FALSE}, named : {{}}, broken : {{tool}}, fails : {{}}]
=============================================================================
