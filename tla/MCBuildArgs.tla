----------------------------- MODULE MCBuildArgs -----------------------------
\* Recipes for the model checker: up to three global arguments over two keys,
\* and one or two stages.
EXTENDS BuildArgs, TLC

MCPlatformArgs == <<[key |-> "ARCH", value |-> "amd64"], [key |-> "VARIANT", value |-> ""]>>
MCKey == {"A", "B", "ARCH", "VARIANT"}

None == [kind |-> "none", of |-> ""]
Text(s) == [kind |-> "text", of |-> s]
Ref(k) == [kind |-> "ref", of |-> k]
Must(k) == [kind |-> "must", of |-> k]
ArgOf(k, d) == [key |-> k, default |-> d]

UpTo(n, S) == UNION {[1..m -> S] : m \in 0..n}

Global == {ArgOf("A", d) : d \in {None, Text("one"), Ref("B"), Ref("A"), Must("B")}}
          \cup {ArgOf("B", d) : d \in {None, Text("b"), Ref("A"), Ref("ARCH")}} \cup {ArgOf("VARIANT", Ref("VARIANT"))}
Globals == UpTo(2, Global) \cup {<<a>> \o s : a \in {ArgOf("ARCH", Text("x"))}, s \in [1..2 -> Global]}

LocalArgs == {ArgOf("A", None), ArgOf("A", Text("l")), ArgOf("B", Ref("A")), ArgOf("B", None), ArgOf("A", Must("B"))}

Single == {<<[name |-> "one", from |-> f, args |-> a]>> :
             f \in {Text("image"), Ref("A"), Ref("VARIANT"), Must("A")}, a \in UpTo(1, LocalArgs)}
Double == {<<[name |-> "one", from |-> Text("image"), args |-> a], [name |-> "two", from |-> f, args |-> b]>> :
             f \in {Text("one"), Ref("A")}, a \in UpTo(1, LocalArgs), b \in UpTo(1, LocalArgs)}

MCRecipes == [globals : Globals, stages : Single \cup Double]
MCGiven == {Empty, "A" :> "g", "B" :> "h", "A" :> "g" @@ "B" :> "h" @@ "ARCH" :> "arm64", "VARIANT" :> "v7"}
=============================================================================
