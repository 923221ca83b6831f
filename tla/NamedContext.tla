---------------------------- MODULE NamedContext ----------------------------
(***************************************************************************)
(* Named contexts: NamedContext of ggufpackerui/config.go and              *)
(* namedContextRecursive of ggufpackerui/namedcontext.go.  The stages of a *)
(* recipe and the goroutines that resolve base images ask the client for   *)
(* the context of a name; all of them read, and write, the options of the  *)
(* client without a lock.                                                  *)
(*                                                                         *)
(* An image that a source policy moves elsewhere rewrites the option and   *)
(* the search starts again.  Writing a Go map takes a while, and whoever   *)
(* comes to the map in between may end the program.                        *)
(*                                                                         *)
(* PlainFirst, SameCount and OpenLocalAtOnce are wrong variants of the     *)
(* definitions that follow them: the checks show that the properties of    *)
(* this module tell them from the code.                                    *)
(***************************************************************************)
EXTENDS Naturals, Sequences, FiniteSets

CONSTANTS
    MaxContextRecursion,
    Path,       \* paths of a context that a recipe may read
    Worlds      \* the options and what is behind them

ASSUME LimitAssumption == MaxContextRecursion \in Nat

\* What is before the colon of an option, "malformed" if there is none.
Kind == {"docker-image", "oci-layout", "git", "http", "local", "input", "other", "malformed"}
Option == [kind : Kind, rest : STRING]

\* A registry has finitely many references; a policy moves one to an option again.
ASSUME WorldsAssumption ==
    \A w \in Worlds :
        /\ w.opts \in [DOMAIN w.opts -> Option]
        /\ IsFiniteSet(DOMAIN w.registry)
        /\ \A r \in DOMAIN w.registry : w.registry[r].kind = "moved" => w.registry[r].to \in Option

(***************************************************************************)
(* A world: the callers, each with a name and a platform (calls); the      *)
(* names that are no references (invalid); the options by name and         *)
(* platform, or EveryPlatform (opts); what the registry has under each     *)
(* reference (registry); whether calls may fail (faulty).  An option is a  *)
(* kind and what follows the colon.                                        *)
(***************************************************************************)
EveryPlatform == ""

VARIABLES
    world,
    opts,       \* bc.bopts.Opts
    pc, which,  \* where each caller is, and which of its two keys it looks for
    count,      \* the depth of its recursion
    seen,       \* the option that it works on
    answer,
    recorded,   \* paths that its recipe reads from the context so far
    sent,       \* paths that a local context is narrowed to
    once,       \* whether they are fixed
    crashed

search == <<which, count, seen>>
local == <<recorded, sent, once>>
contextVars == <<world, opts, pc, search, answer, local, crashed>>

Caller == DOMAIN world.calls

NoOption == [kind |-> "none", rest |-> "none"]

NoAnswer == [kind |-> "pending", of |-> NoOption, image |-> FALSE, excludes |-> FALSE]
NoContext == [NoAnswer EXCEPT !.kind = "none"]
Error == [NoAnswer EXCEPT !.kind = "error"]
LimitError == [NoAnswer EXCEPT !.kind = "limit"]
\* A state, with or without the config of an image.
State(v, image) == [NoAnswer EXCEPT !.kind = "state", !.of = v, !.image = image]

\* A wrong NamedContext: the key without a platform comes first.
PlainFirst(c) == <<<<world.calls[c].name, EveryPlatform>>, <<world.calls[c].name, world.calls[c].platform>>>>
\* The keys that are looked for, in turn.
Keys(c) == <<<<world.calls[c].name, world.calls[c].platform>>, <<world.calls[c].name, EveryPlatform>>>>

OptionAt(options, key) == IF key \in DOMAIN options THEN options[key] ELSE NoOption

ContextInit ==
    /\ world \in Worlds
    /\ opts = world.opts
    /\ pc = [c \in Caller |-> "ask"]
    /\ which = [c \in Caller |-> 1]
    /\ count = [c \in Caller |-> 0]
    /\ seen = [c \in Caller |-> NoOption]
    /\ answer = [c \in Caller |-> NoAnswer]
    /\ recorded = [c \in Caller |-> {}]
    /\ sent = [c \in Caller |-> {}]
    /\ once = [c \in Caller |-> FALSE]
    /\ crashed = FALSE

At(c, where) == pc[c] = where /\ ~crashed
Goto(c, where) == pc' = [pc EXCEPT ![c] = where]

Answer(c, a) ==
    /\ answer' = [answer EXCEPT ![c] = a]
    /\ Goto(c, IF a.kind = "state" /\ a.of.kind = "local" THEN "dispatch" ELSE "done")
    /\ UNCHANGED <<world, opts, search, local, crashed>>

\* The names that toDispatchState keeps for itself, and those that cannot be parsed.
Ask(c) ==
    /\ At(c, "ask")
    /\ IF world.calls[c].name \in {"scratch", "context"} THEN Answer(c, NoContext)
       ELSE IF world.calls[c].name \in world.invalid THEN Answer(c, Error)
       ELSE /\ Goto(c, "lookup")
            /\ UNCHANGED <<world, opts, search, answer, local, crashed>>

TooDeep(levels) == levels > MaxContextRecursion

\* Neither a context nor an error under the first key leads to the second.
Lookup(c) ==
    /\ At(c, "lookup")
    /\ LET v == OptionAt(opts, Keys(c)[which[c]])
       IN  \/ /\ v = NoOption /\ which[c] = 1
              /\ which' = [which EXCEPT ![c] = 2] /\ count' = [count EXCEPT ![c] = 0]
              /\ UNCHANGED <<world, opts, pc, seen, answer, local, crashed>>
           \/ v = NoOption /\ which[c] = 2 /\ Answer(c, NoContext)
           \/ v # NoOption /\ TooDeep(count[c]) /\ Answer(c, LimitError)
           \/ /\ v # NoOption /\ ~TooDeep(count[c])
              /\ seen' = [seen EXCEPT ![c] = v]
              /\ Goto(c, "open")
              /\ UNCHANGED <<world, opts, which, count, answer, local, crashed>>

Opens(c, kinds) == At(c, "open") /\ seen[c].kind \in kinds

\* A specifier without a colon, or of a kind that nobody knows.
Unsupported(c) == Opens(c, {"malformed", "other"}) /\ Answer(c, Error)

\* What a call that fails for a reason of its own makes of any kind but those above.
CallFails(c) ==
    /\ Opens(c, {"docker-image", "oci-layout", "local", "input"})
    /\ seen[c].rest # "scratch" /\ world.faulty
    /\ Answer(c, Error)

OpenScratch(c) == Opens(c, {"docker-image"}) /\ seen[c].rest = "scratch" /\ Answer(c, State(seen[c], FALSE))

(***************************************************************************)
(* What is behind a reference: an image, one with a config that cannot be  *)
(* read, nothing, a reference that a policy moves, or one that it moves to *)
(* something without "://".                                                *)
(***************************************************************************)
Behind(v) == IF v.rest \in DOMAIN world.registry THEN world.registry[v.rest] ELSE [kind |-> "nothing"]
Moves(v) == v.kind = "docker-image" /\ v.rest # "scratch" /\ Behind(v).kind = "moved"

ResolveImage(c) ==
    /\ Opens(c, {"docker-image", "oci-layout"}) /\ seen[c].rest # "scratch"
    /\ ~Moves(seen[c])
    /\ Answer(c, IF Behind(seen[c]).kind = "image" THEN State(seen[c], TRUE) ELSE Error)

ResolveToNonImage(c) ==
    /\ Opens(c, {"docker-image"}) /\ Moves(seen[c])
    /\ Goto(c, "write")
    /\ UNCHANGED <<world, opts, search, answer, local, crashed>>

OpenRemote(c) ==
    /\ Opens(c, {"git", "http"})
    /\ Answer(c, IF seen[c].kind = "git" /\ seen[c].rest = "bad" THEN Error ELSE State(seen[c], FALSE))

\* A wrong local context: its paths are those that are known when it is made.
OpenLocalAtOnce(c) ==
    /\ Opens(c, {"local"})
    /\ answer' = [answer EXCEPT ![c] = State(seen[c], FALSE)]
    /\ once' = [once EXCEPT ![c] = TRUE] /\ sent' = [sent EXCEPT ![c] = recorded[c]]
    /\ Goto(c, "dispatch")
    /\ UNCHANGED <<world, opts, search, recorded, crashed>>

\* Without an ignore file, or if the read of it fails, nothing is excluded.
OpenLocal(c) ==
    /\ Opens(c, {"local"})
    /\ \E readable \in {TRUE} \cup IF world.faulty THEN {FALSE} ELSE {} :
           CASE seen[c].rest = "badignore" /\ readable -> Answer(c, Error)
             [] OTHER -> Answer(c, [State(seen[c], FALSE) EXCEPT !.excludes = readable /\ seen[c].rest = "ignoring"])

\* An input of the build, with the config that its metadata may hold.
OpenInput(c) ==
    /\ Opens(c, {"input"})
    /\ Answer(c, IF seen[c].rest \in {"missing", "badmetadata"} THEN Error
                 ELSE State(seen[c], seen[c].rest = "described"))

(* The write to the options *)

BeginWrite(c) ==
    /\ At(c, "write")
    /\ Goto(c, "writing")
    /\ UNCHANGED <<world, opts, search, answer, local, crashed>>

\* A wrong recursion: the depth is not passed on.
SameCount(levels) == levels
Deeper(levels) == levels + 1

EndWrite(c) ==
    /\ At(c, "writing")
    /\ opts' = [opts EXCEPT ![Keys(c)[which[c]]] = Behind(seen[c]).to]
    /\ count' = [count EXCEPT ![c] = Deeper(@)]
    /\ Goto(c, "lookup")
    /\ UNCHANGED <<world, which, seen, answer, local, crashed>>

UsesMap(c) ==
    \/ pc[c] \in {"lookup", "write"}
    \/ pc[c] = "open" /\ seen[c].kind = "input"

\* "fatal error: concurrent map read and map write" of the Go runtime.
RaceDetected(c) ==
    /\ UsesMap(c) /\ ~crashed
    /\ \E d \in Caller \ {c} : pc[d] = "writing"
    /\ crashed' = TRUE
    /\ UNCHANGED <<world, opts, pc, search, answer, local>>

(* The recipe reads from a local context; the client sends it afterwards. *)

Record(c, p) ==
    /\ At(c, "dispatch") /\ p \notin recorded[c]
    /\ recorded' = [recorded EXCEPT ![c] = @ \cup {p}]
    /\ UNCHANGED <<world, opts, pc, search, answer, sent, once, crashed>>

Marshal(c) ==
    /\ At(c, "dispatch")
    /\ Goto(c, "marshal")
    /\ UNCHANGED <<world, opts, search, answer, local, crashed>>

\* asyncLocalOutput: ToInput and Vertex, of which the first one fixes the paths.
UseOutput(c) ==
    /\ At(c, "marshal")
    /\ sent' = [sent EXCEPT ![c] = IF once[c] THEN @ ELSE recorded[c]]
    /\ once' = [once EXCEPT ![c] = TRUE]
    /\ Goto(c, IF once[c] THEN "done" ELSE "marshal")
    /\ UNCHANGED <<world, opts, search, answer, recorded, crashed>>

Step(c) ==
    \/ Ask(c) \/ Lookup(c)
    \/ Unsupported(c) \/ CallFails(c) \/ OpenScratch(c) \/ ResolveImage(c) \/ ResolveToNonImage(c)
    \/ OpenRemote(c) \/ OpenLocal(c) \/ OpenInput(c)
    \/ BeginWrite(c) \/ EndWrite(c)
    \/ Marshal(c) \/ UseOutput(c)

ContextNext == \E c \in Caller : Step(c) \/ RaceDetected(c) \/ \E p \in Path : Record(c, p)

ContextSpec == ContextInit /\ [][ContextNext]_contextVars

\* Every goroutine runs on, and every call returns.
FairContextSpec == ContextSpec /\ \A c \in 1..3 : WF_contextVars(c \in Caller /\ Step(c))

-----------------------------------------------------------------------------
(* Properties *)

\* The option at the end of the policies that move v, and their number: one
\* more than there are references if they go round in a circle.
Many == Cardinality(DOMAIN world.registry) + 1
Followed(v) ==
    LET at[j \in 0..Many] == IF j = 0 THEN v ELSE IF Moves(at[j - 1]) THEN Behind(at[j - 1]).to ELSE at[j - 1]
    IN  at
Length(v) == IF Moves(Followed(v)[Many]) THEN Many + MaxContextRecursion + 1
             ELSE Cardinality({j \in 0..Many : Moves(Followed(v)[j])})

\* The option that the user has given for a caller: that of its platform first.
Given(c) ==
    LET exact == OptionAt(world.opts, <<world.calls[c].name, world.calls[c].platform>>)
    IN  IF exact # NoOption THEN exact ELSE OptionAt(world.opts, <<world.calls[c].name, EveryPlatform>>)

Asks(c) == world.calls[c].name \notin {"scratch", "context"} \cup world.invalid
Answered(c) == answer[c] # NoAnswer

\* The keys that a caller may touch.
Touched(c) == {Keys(c)[1], Keys(c)[2]}
Alone(c) == \A d \in Caller \ {c} : Touched(c) \cap Touched(d) = {}

LimitIsExact ==
    \A c \in Caller : Answered(c) /\ Alone(c) /\ Asks(c) =>
        /\ answer[c].kind = "limit" => Length(Given(c)) > MaxContextRecursion
        /\ Length(Given(c)) > MaxContextRecursion => answer[c].kind \in {"limit", "error"}

\* Whatever the order in which callers read and rewrite the options, each gets
\* the context at the end of the policies that start at the option the user
\* has given for its platform, or else for its name, and none if there is no
\* such option.  A caller that shares no option with another is refused for the
\* depth of the recursion if and only if the policies are more than the limit,
\* or a circle.
FollowsThePolicies ==
    /\ LimitIsExact
    /\ \A c \in Caller : Answered(c) /\ Asks(c) =>
           /\ answer[c].kind = "none" <=> Given(c) = NoOption
           /\ answer[c].kind = "state" =>
                  answer[c].of = Followed(Given(c))[Many] /\ ~Moves(answer[c].of)
           /\ answer[c].kind = "error" /\ ~world.faulty =>
                  LET end == Followed(Given(c))[Many]
                  IN  \/ end.kind \in {"malformed", "other"}
                      \/ end.rest \in {"bad", "badignore", "missing", "badmetadata"}
                      \/ end.kind \in {"docker-image", "oci-layout"} /\ Behind(end).kind # "image" /\ ~Moves(end)

\* A local context that is sent is narrowed to all the paths that its recipe
\* reads, recorded before or after the context was made.
SendsWhatIsRead == \A c \in Caller : pc[c] = "done" /\ once[c] => sent[c] = recorded[c]

\* Every caller comes to an end, also in a circle of policies, unless the race
\* for the options ends the program.
EveryoneIsAnswered == <>(crashed \/ \A c \in Caller : pc[c] = "done")
=============================================================================
