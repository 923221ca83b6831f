----------------------------- MODULE MCBuilder -----------------------------
\* Requests for the model checker, one group of options varied at a time, and
\* the builds of up to three platforms that they lead to.
EXTENDS Builder, TLC

\* The names that Frontend knows, whatever the requests.
Names == INSTANCE Frontend WITH Requests <- {}

NoFiles == [f \in {} |-> "text"]
Recipe == Names!Default :> "text"
Everywhere(files) == [p \in Places |-> files]

Plain ==
    [supported |-> TRUE, bad |-> {}, platforms |-> <<>>, multi |-> "", multiArg |-> "", lint |-> FALSE,
     filename |-> "", forced |-> FALSE, context |-> "local", archive |-> FALSE, inputs |-> "unsupported",
     files |-> Everywhere(Recipe), requestid |-> "", faulty |-> FALSE]

Options ==
    {[Plain EXCEPT !.platforms = p, !.multi = m, !.multiArg = a, !.lint = l] :
        p \in {<<>>, <<"amd64">>, <<"amd64", "arm64">>},
        m \in {"", "true", "false", "bad"}, a \in {"", "true", "false", "bad"}, l \in BOOLEAN}
    \cup {[Plain EXCEPT !.supported = FALSE]}
    \cup {[Plain EXCEPT !.bad = {o}] :
            o \in {"platform", "image-resolve-mode", "add-hosts", "shm-size", "ulimit", "force-network-mode",
                   "cache-imports", "build-arg:SOURCE_DATE_EPOCH", "build-arg:BUILDKIT_GGUFPACKER_CHECK"}}

Found(f) == {f :> "text", Names!Lower :> "text", f :> "text" @@ Names!Lower :> "text", NoFiles}
Ignores(f) == {NoFiles, Names!IgnoreOf(f) :> "text", Names!IgnoreOf(f) :> "nil", Names!IgnoreOf(Names!Lower) :> "text"}

\* Every source of a recipe, with the files there and in the context.
Entries ==
    UNION {{[Plain EXCEPT !.filename = name, !.forced = f, !.context = c[1], !.archive = c[2], !.inputs = c[3], !.faulty = b,
                          !.files = [p \in Places |->
                              files @@ own @@ (IF p = "context" /\ i THEN Names!ContextIgnore :> "text" ELSE NoFiles)]] :
              f \in BOOLEAN, i \in BOOLEAN, b \in BOOLEAN,
              c \in {<<"git", FALSE, "unsupported">>, <<"http", TRUE, "unsupported">>, <<"local", FALSE, "unsupported">>,
                     <<"local", FALSE, "context">>, <<"local", FALSE, "none">>},
              files \in Found(IF name = "" THEN Names!Default ELSE name), own \in Ignores(IF name = "" THEN Names!Default ELSE name)} :
        name \in {"", "My.gguf"}}
    \cup {[Plain EXCEPT !.context = "http", !.forced = f, !.files = Everywhere(Recipe @@ files)] :
            f \in BOOLEAN, files \in {"context" :> "text", NoFiles, "context" :> "text" @@ Names!IgnoreOf("context") :> "text"}}

Asked == {[Plain EXCEPT !.requestid = r] : r \in Names!Known \cup {"frontend.other"}}

MCRequests == Options \cup Entries \cup Asked

Meets(targets, multi, linters, stricts, ignores, faults) ==
    [targets : targets, multi : multi, own : linters, strict : stricts, broken : BOOLEAN, ignore : ignores, faulty : faults]
Ignored == {"set", "file", "none", "remote"}

\* Several platforms that share a linter are not asked to keep its rules.
MCBuilds ==
    Meets({<<"default">>, <<"amd64">>}, BOOLEAN, BOOLEAN, BOOLEAN, Ignored, {{}, {1}})
    \cup Meets({<<"amd64", "arm64">>}, {TRUE}, {TRUE}, BOOLEAN, Ignored, {{}, {1}, {2}})
    \cup Meets({<<"amd64", "arm64">>}, {TRUE}, {FALSE}, {FALSE}, Ignored, {{}, {1}, {2}})
    \cup Meets({<<"arm64", "arm64", "amd64">>}, {TRUE}, BOOLEAN, {FALSE}, {"remote"}, {{}, {3}, {1, 2}})

\* Two platforms that share a linter whose rules are to be kept.
SharedRequests == {[Plain EXCEPT !.platforms = <<"amd64", "arm64">>, !.lint = TRUE]}
SharedBuilds == Meets({<<"amd64", "arm64">>}, {TRUE}, {FALSE}, {TRUE}, {"file", "none"}, {{}})
=============================================================================
