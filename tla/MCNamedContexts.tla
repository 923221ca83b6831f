-------------------------- MODULE MCNamedContexts --------------------------
\* Options, policies and callers for the model checker.
EXTENDS NamedContext, TLC

Value(kind, rest) == [kind |-> kind, rest |-> rest]
Docker(rest) == Value("docker-image", rest)

Image == [kind |-> "image"]
Broken == [kind |-> "broken"]
MovedTo(v) == [kind |-> "moved", to |-> v]

\* Chains of one to four policies, a circle, and the ends of chains.
MCRegistry ==
    "image" :> Image @@ "broken" :> Broken @@ "unparsed" :> [kind |-> "unparsed"]
    @@ "once" :> MovedTo(Docker("image")) @@ "twice" :> MovedTo(Docker("once"))
    @@ "thrice" :> MovedTo(Docker("twice")) @@ "often" :> MovedTo(Docker("thrice"))
    @@ "round" :> MovedTo(Docker("around")) @@ "around" :> MovedTo(Docker("round"))
    @@ "togit" :> MovedTo(Value("git", "repo")) @@ "tolocal" :> MovedTo(Value("local", "ignoring"))

MCOptions ==
    {Docker(rest) : rest \in (DOMAIN MCRegistry) \cup {"nowhere", "scratch"}}
    \cup {Value("git", "repo"), Value("git", "bad"), Value("http", "url"), Value("malformed", ""), Value("other", "x"),
          Value("oci-layout", "image"), Value("oci-layout", "bad"), Value("oci-layout", "once"),
          Value("local", "plain"), Value("local", "ignoring"), Value("local", "badignore"),
          Value("input", "plain"), Value("input", "described"), Value("input", "badmetadata"), Value("input", "missing")}

World(calls, options, faulty) ==
    [calls |-> calls, invalid |-> {"UPPER"}, opts |-> options, registry |-> MCRegistry, faulty |-> faulty]
Call(name, platform) == [name |-> name, platform |-> platform]

NoValues == [key \in {} |-> NoOption]

\* One caller with every option, under either key or both.
Alones ==
    {World(<<Call(name, "amd64")>>, NoValues, FALSE) : name \in {"scratch", "context", "UPPER", "a"}}
    \cup {World(<<Call("a", "amd64")>>, <<"a", platform>> :> v, faulty) :
            v \in MCOptions, platform \in {"amd64", "arm64", EveryPlatform}, faulty \in BOOLEAN}
    \cup {World(<<Call("a", "amd64")>>, <<"a", "amd64">> :> v @@ <<"a", EveryPlatform>> :> Docker("image"), FALSE) : v \in MCOptions}

\* Two and three callers: of one option, of one option by two platforms, and of different ones.
Chained == {Docker("once"), Docker("thrice"), Docker("often"), Docker("round"), Docker("tolocal"), Value("input", "described")}
Together ==
    {World(<<Call("a", "amd64"), Call("a", platform)>>, <<"a", EveryPlatform>> :> v, FALSE) :
        v \in Chained, platform \in {"amd64", "arm64"}}
    \cup {World(<<Call("a", "amd64"), Call("b", "amd64")>>, <<"a", EveryPlatform>> :> v @@ <<"b", "amd64">> :> w, FALSE) :
        v \in Chained, w \in Chained}
    \cup {World(<<Call("a", "amd64"), Call("a", "amd64"), Call("b", "amd64")>>, <<"a", "amd64">> :> v @@ <<"b", EveryPlatform>> :> Docker("togit"), FALSE) :
        v \in {Docker("once"), Docker("thrice")}}

MCWorlds == Alones \cup Together
=============================================================================
