---------------------------- MODULE MCLineParser ----------------------------
\* Files for the model checker: short ones over all kinds of lines, and longer
\* ones over the lines that continue each other or hold heredocs.
EXTENDS LineParser

Code == [kind |-> "code", text |-> "ARG", key |-> "", value |-> "", cont |-> "", indent |-> FALSE,
         docs |-> <<>>, holds |-> FALSE, fails |-> FALSE]
Blank == [Code EXCEPT !.kind = "blank", !.text = ""]
Comment(text) == [Code EXCEPT !.kind = "comment", !.text = text]
Directed(key, value) == [Code EXCEPT !.kind = "directive", !.text = "", !.key = key, !.value = value]
Slashed(key) == [Code EXCEPT !.text = "//", !.key = key]
Tabbed(line) == [line EXCEPT !.indent = TRUE]
Continued(line, token) == [line EXCEPT !.cont = token]
Cat(docs1) == [Code EXCEPT !.text = "CAT", !.holds = TRUE, !.docs = docs1]
Doc(name, chomp) == [name |-> name, chomp |-> chomp]
Word(text) == [Code EXCEPT !.text = text]

Escape == {Directed("escape", "backtick"), Directed("escape", "x")}
Starts == {Directed("check", "a"), Comment("!"), Comment("x"), Tabbed(Comment("")), Slashed("check")} \cup Escape
Ends == {Continued(Code, "backslash"), Continued(Code, "backtick"), Continued(Word(""), "backslash")}
Docs == {Cat(<<Doc("EOF", FALSE)>>), Cat(<<Doc("EOF", TRUE), Doc("END", FALSE)>>), Continued(Cat(<<Doc("EOF", FALSE)>>), "backslash"),
         [Cat(<<Doc("EOF", FALSE)>>) EXCEPT !.holds = FALSE]}
Names == {Word("EOF"), Tabbed(Word("EOF")), Word("END")}
Others == {Code, Blank, Comment(""), [Code EXCEPT !.fails = TRUE], [Code EXCEPT !.kind = "long"]}

Short == [1..3 -> Starts \cup Ends \cup Docs \cup Names \cup Others]
Long == [1..5 -> {Continued(Code, "backslash"), Code, Blank, Comment("x"), Comment("")}]
WithDocs == {<<d>> \o s : d \in Docs, s \in [1..4 -> Names \cup {Comment("x"), Code, Blank}]}
Headed == {h \o s : h \in [1..2 -> Starts \cup {Tabbed(Directed("check", "a")), Blank}],
                    s \in [1..3 -> Ends \cup {Code, Comment("x"), Directed("escape", "backtick")}]}

\* JSON objects of one line and of two, behind blank lines or a shebang.
Objects == {h \o <<Word("{")>> \o e : h \in {<<>>, <<Blank>>, <<Comment("!")>>, <<Comment("!"), Blank>>},
                                     e \in {<<>>, <<Word("}")>>, <<Blank, Word("}"), Blank>>}}

Plain == {<<>>} \cup Short \cup Long \cup WithDocs \cup Headed
MCFiles == {[bom |-> FALSE, json |-> {}, lines |-> s] : s \in Plain}
           \cup {[bom |-> TRUE, json |-> {}, lines |-> <<l, Code>>] : l \in Starts}
           \cup {[bom |-> FALSE, json |-> j, lines |-> s] : j \in {{}, {"check"}, {"syntax", "escape"}}, s \in Objects}
=============================================================================
