---------------------------- MODULE MCCommands ----------------------------
\* For `remove`: two tags and a tombstone, two models, and arguments of every
\* kind: a name, an ID, the beginning of two IDs, a name that has the form of an
\* ID, and one that is no reference at all.  For `estimate`: every command line
\* of up to four arguments without a flag, and every flag and step with few
\* command lines.
EXTENDS Commands

CONSTANTS latest, mistralnemo12b, tombstone, d1, d2, byName, byId, byBoth, idLike, bad

Refs == [a \in {byName, byId, byBoth, idLike, bad} |->
            CASE a = byName -> latest [] a = idLike -> mistralnemo12b [] OTHER -> None]
Beginnings == [a \in {byName, byId, byBoth, idLike, bad} |->
            CASE a = byId -> {d1} [] a = byBoth -> {d1, d2} [] OTHER -> {}]

\* The flags that Estimate knows, whatever the inputs.
Flags == INSTANCE Estimate WITH Inputs <- {}, at <- argument, pc <- rowpc

Arguments ==
    {[flag |-> f, number |-> Unset] : f \in Flags!Valued \cup {"kv", "none"}}
        \cup {[flag |-> "none", number |-> n] : n \in {-1, 3}}
CommandLines == UNION {[1..n -> Arguments] : n \in 0..4}
NoFlags == [f \in Flags!Valued |-> Unset]

OfLayers == {[NoFlags EXCEPT !["layers"] = n, !["draft"] = d] : n \in {Unset, -1, 0, 1, 3, 4, 5}, d \in {Unset, 2}}
OfBatch == {[NoFlags EXCEPT !["batch"] = n, !["ubatch"] = u, !["ctx"] = c] :
                n \in {Unset, 0, 256}, u \in {Unset, 0, 128}, c \in {Unset, -1, 8}}

SomeLines == {<<>>} \cup {<<[flag |-> f, number |-> Unset], [flag |-> "none", number |-> 3]>> : f \in Flags!Valued}

AllInputs ==
    {[line |-> l, flags |-> NoFlags, step |-> 0] : l \in CommandLines}
        \cup {[line |-> l, flags |-> f, step |-> s] : l \in SomeLines, f \in OfLayers, s \in 0..5}
        \cup {[line |-> l, flags |-> f, step |-> 0] : l \in SomeLines, f \in OfBatch}
FewInputs == {[line |-> l, flags |-> NoFlags, step |-> 0] : l \in SomeLines}
===========================================================================
