------------------------------ MODULE Frontend ------------------------------
(***************************************************************************)
(* What happens before a build: Build of builder/build.go makes a client   *)
(* from the options of the request (NewClient), finds the context and the  *)
(* recipe (ReadEntrypoint), and answers a subrequest or goes on to build   *)
(* every platform (PlatformBuild).                                         *)
(*                                                                         *)
(* RemoteFirst and AnyIgnoreFile are wrong variants of the definitions     *)
(* that follow them: the checks show that the properties tell them from    *)
(* the code.                                                               *)
(***************************************************************************)
EXTENDS Naturals, Sequences

CONSTANT Requests

(***************************************************************************)
(* A request: whether BuildKit is new enough and no removed option is      *)
(* given (supported); the options that cannot be parsed (bad); the target  *)
(* platforms; multi-platform as an option and as a build argument (multi,  *)
(* multiArg); whether there are options for the linter (lint); the name of *)
(* the recipe, "" if not given; whether there is a local source of its own *)
(* for the recipe (forced); the build context, a git or http address or a  *)
(* local one; whether the http download is an archive; the frontend inputs *)
(* that are there, or that BuildKit has none ("unsupported"); the files of *)
(* every place, as what ReadFile returns of them; the subrequest; whether  *)
(* calls to BuildKit may fail (faulty).                                    *)
(***************************************************************************)
VARIABLES
    request,
    phase,
    config,    \* target platforms, MultiPlatformRequested, and whether there is a LinterConfig
    bctx,      \* the build context
    recipe,    \* the place and the file that the recipe was read from
    ignore     \* bc.ggufpackerignore: the file that it was read from

vars == <<request, phase, config, bctx, recipe, ignore>>

Default == "GGUFPackerfile"
Lower == "ggufpackerfile"
ContextIgnore == ".ggufpackerignore"
IgnoreOf(file) == file \o ContextIgnore
None == [place |-> "none", file |-> ""]

NoConfig == [targets |-> <<>>, multi |-> FALSE, lint |-> FALSE]
NoContext == [context |-> "none", recipe |-> "none", local |-> "context", filename |-> Default, forced |-> FALSE]

Init ==
    /\ request \in Requests
    /\ phase = "client"
    /\ config = NoConfig
    /\ bctx = NoContext
    /\ recipe = None
    /\ ignore = None

Fail == phase' = "failed" /\ UNCHANGED <<request, config, bctx, recipe, ignore>>

CallFails ==
    /\ \/ phase = "context" /\ request.context = "http"
       \/ phase = "context" /\ request.context = "local" /\ request.inputs # "unsupported"
       \/ phase = "entry"
    /\ request.faulty
    /\ Fail

(* NewClient *)

\* The multi-platform option: the build argument takes its place.
Multi == IF request.multiArg # "" THEN request.multiArg ELSE request.multi

\* Several platforms need several keys.
MultiPlatform == IF Multi = "" THEN Len(request.platforms) > 1 ELSE Multi = "true"
Conflict == Multi = "false" /\ Len(request.platforms) > 1

\* The options that a parser of attr.go, or init itself, cannot parse.
Unparsed == request.bad \cup (IF Multi = "bad" THEN {"multi-platform"} ELSE {})

NewClientFails ==
    /\ phase = "client"
    /\ ~request.supported \/ Unparsed # {} \/ Conflict
    /\ Fail

NewClient ==
    /\ phase = "client"
    /\ request.supported /\ Unparsed = {} /\ ~Conflict
    /\ config' = [targets |-> request.platforms, multi |-> MultiPlatform, lint |-> request.lint]
    /\ phase' = "context"
    /\ UNCHANGED <<request, bctx, recipe, ignore>>

(* initContext *)

Named == [NoContext EXCEPT !.filename = IF request.filename = "" THEN @ ELSE request.filename,
                           !.local = IF request.forced THEN "recipes" ELSE @,
                           !.forced = request.forced]

InContext(b) == bctx' = b /\ phase' = "entry" /\ UNCHANGED <<request, config, recipe, ignore>>

DetectGitContext ==
    /\ phase = "context" /\ request.context = "git"
    /\ InContext([Named EXCEPT !.context = "git", !.recipe = "git"])

\* What is no archive is itself the recipe, under the name of the download.
DetectHTTPContext ==
    /\ phase = "context" /\ request.context = "http"
    /\ InContext([Named EXCEPT !.context = "http", !.recipe = "http",
                               !.filename = IF request.archive THEN @ ELSE "context"])

FrontendInputs ==
    /\ phase = "context" /\ request.context = "local"
    /\ InContext(IF request.inputs = "context"
                 THEN [Named EXCEPT !.context = "input", !.recipe = IF request.forced THEN @ ELSE "input"]
                 ELSE Named)

(* ReadEntrypoint *)

\* A wrong source of the recipe: that of the context, whenever it has one.
RemoteFirst == IF bctx.recipe # "none" THEN bctx.recipe ELSE bctx.local
Source == IF ~bctx.forced /\ bctx.recipe # "none" THEN bctx.recipe ELSE bctx.local

\* From a local source only these files come.
Followed == {bctx.filename, IgnoreOf(bctx.filename)} \cup (IF bctx.filename = Default THEN {Lower} ELSE {})

Content(file) ==
    IF file \notin DOMAIN request.files[Source] \/ (Source = bctx.local /\ file \notin Followed)
    THEN "missing" ELSE request.files[Source][file]

\* The default name is tried in lower case as well.
EntryFile ==
    IF Content(bctx.filename) # "missing" \/ bctx.filename # Default THEN bctx.filename ELSE Lower

ReadFails ==
    /\ phase = "entry"
    /\ Content(EntryFile) = "missing"
    /\ Fail

\* A wrong choice: also a file of the context serves.
AnyIgnoreFile ==
    IF Content(IgnoreOf(bctx.filename)) = "text" THEN [place |-> Source, file |-> IgnoreOf(bctx.filename)]
    ELSE [place |-> Source, file |-> ContextIgnore]

\* The ignore file of the recipe; an empty one is read as no bytes at all,
\* which is what there is without one.
OwnIgnore ==
    IF Content(IgnoreOf(bctx.filename)) = "text" THEN [place |-> Source, file |-> IgnoreOf(bctx.filename)] ELSE None

ReadEntrypoint ==
    /\ phase = "entry"
    /\ Content(EntryFile) # "missing"
    /\ recipe' = [place |-> Source, file |-> EntryFile]
    /\ \E read \in {OwnIgnore} \cup (IF request.faulty THEN {None} ELSE {}) : ignore' = read
    /\ phase' = "request"
    /\ UNCHANGED <<request, config, bctx>>

(* HandleSubrequest: an answer of its own, an error, or on to the build *)

Known == {"frontend.subrequests.describe", "frontend.outline", "frontend.targets", "frontend.lint"}

NoSubrequest ==
    /\ phase = "request" /\ request.requestid = ""
    /\ phase' = "build"
    /\ UNCHANGED <<request, config, bctx, recipe, ignore>>

Subrequest ==
    /\ phase = "request" /\ request.requestid \in Known
    /\ phase' = "answered"
    /\ UNCHANGED <<request, config, bctx, recipe, ignore>>

\* Outline and ListTargets fail with the recipe; Lint answers with the error in it.
SubrequestFails ==
    /\ phase = "request"
    /\ \/ request.requestid \in {"frontend.outline", "frontend.targets"}
       \/ request.requestid \notin Known \cup {""}
    /\ Fail

Next ==
    \/ CallFails \/ NewClientFails \/ NewClient
    \/ DetectGitContext \/ DetectHTTPContext \/ FrontendInputs
    \/ ReadFails \/ ReadEntrypoint \/ NoSubrequest \/ Subrequest \/ SubrequestFails

-----------------------------------------------------------------------------
(* What PlatformBuild is given *)

\* Where its ignore patterns come from: a context that is not local has none.
IgnoreKind ==
    IF bctx.context # "none" THEN "remote"
    ELSE IF ignore # None THEN "set"
    ELSE IF ContextIgnore \in DOMAIN request.files["context"] THEN "file" ELSE "none"

\* A build without target platforms is one for the default platform.
Handed == [targets |-> IF config.targets = <<>> THEN <<"default">> ELSE config.targets,
           multi |-> config.multi, own |-> ~config.lint, ignore |-> IgnoreKind]
=============================================================================
