------------------------------ MODULE Removal ------------------------------
(***************************************************************************)
(* `remove` with several arguments, over whatever store earlier commands   *)
(* and kills have left, one file-system call a step; and what `list` and   *)
(* `inspect` show of that store (src/cmd/gguf-packer/remove.go, list.go,   *)
(* inspect.go).  An argument that has the form of an ID is taken for an    *)
(* ID.  Names come first, in order; then one walk over the links finds     *)
(* what each ID means, and the IDs follow in the order of a Go map.        *)
(* Store has the commands that overlap; here `remove` runs alone.          *)
(***************************************************************************)
EXTENDS Integers, FiniteSets, Sequences

CONSTANTS
    Path,       \* links of tags, and tombstones
    Digest,     \* the names of configs: the IDs of models
    Arg,        \* what a user may type
    Ref,        \* Ref[a]: the link that `a` names as a reference, or None
    LooksLikeId,\* the arguments of 12 to 64 lower-case letters and digits
    Prefixed,   \* Prefixed[a]: the IDs that begin with `a`
    MaxArgs,
    None

ASSUME RemovalAssumption ==
    /\ IsFiniteSet(Path)
    /\ None \notin Path \cup Digest
    /\ Ref \in [Arg -> Path \cup {None}]
    /\ LooksLikeId \subseteq Arg
    /\ Prefixed \in [Arg -> SUBSET Digest]
    /\ MaxArgs \in Nat \ {0}

VARIABLES
    link, config, layers,   \* the store: configs and layers that are there
    args,       \* of the command
    pc,
    todo,       \* the arguments of this phase that are still to come
    at,         \* the argument whose model is being removed, 0 for none
    doing,      \* the call that is next: "layers", "config", "link"
    target,     \* the link and the ID that are being removed
    found,      \* found[i]: the links that the walk has matched with the ID i
    answer,     \* answer[i]: what is printed in the end
    cut,        \* the walk has ended early
    before      \* the links at the start, and what `list` showed

store == <<link, config, layers>>
vars == <<store, args, pc, todo, at, doing, target, found, answer, cut, before>>

\* `list` shows the links to a config that it can read.
Listed == {q \in Path : link[q] \in config}

Index == DOMAIN args
Ids == {i \in Index : args[i] \in LooksLikeId}
Nothing == [path |-> None, id |-> None]

Init ==
    /\ link \in [Path -> Digest \cup {None}]
    /\ config \in SUBSET Digest
    /\ layers \in SUBSET Digest
    /\ args \in UNION {[1..n -> Arg] : n \in 1..MaxArgs}
    /\ pc = "parse"
    /\ todo = {}
    /\ at = 0
    /\ doing = "none"
    /\ target = Nothing
    /\ found = [i \in Ids |-> {}]
    /\ answer = [i \in Index |-> "none"]
    /\ cut = FALSE
    /\ before = [links |-> link, listed |-> Listed]

\* One bad reference ends the command before it removes anything.
Parse ==
    /\ pc = "parse"
    /\ IF \E i \in Index \ Ids : Ref[args[i]] = None
       THEN pc' = "failed" /\ UNCHANGED todo
       ELSE pc' = "names" /\ todo' = Index \ Ids
    /\ UNCHANGED <<store, args, at, doing, target, found, answer, cut, before>>

Answer(i, a) == answer' = [answer EXCEPT ![i] = a]

Begin(i, q, d) ==
    /\ at' = i
    /\ doing' = "layers"
    /\ target' = [path |-> q, id |-> d]
    /\ UNCHANGED answer

\* A name whose link cannot be read is not found, an earlier argument may
\* have removed it.
NextName ==
    /\ pc = "names" /\ at = 0 /\ todo # {}
    /\ \E i \in todo :
         /\ \A j \in todo : i <= j
         /\ todo' = todo \ {i}
         /\ IF link[Ref[args[i]]] = None
            THEN Answer(i, "not found") /\ UNCHANGED <<at, doing, target>>
            ELSE Begin(i, Ref[args[i]], link[Ref[args[i]]])
    /\ UNCHANGED <<store, args, pc, found, cut, before>>

NamesDone ==
    /\ pc = "names" /\ at = 0 /\ todo = {}
    /\ pc' = IF Ids = {} THEN "done" ELSE "walk"
    /\ UNCHANGED <<store, args, todo, at, doing, target, found, answer, cut, before>>

Matches(i) == {q \in Path : link[q] \in Prefixed[args[i]]}

\* An entry that cannot be read ends the walk, so that all links behind it are
\* missed, and the error is dropped.  Which links those are depends on how the
\* files are called.
Walk ==
    /\ pc = "walk"
    /\ \E seen \in SUBSET Path :
         /\ found' = [i \in Ids |-> Matches(i) \cap seen]
         /\ cut' = (seen # Path)
    /\ todo' = Ids
    /\ pc' = "ids"
    /\ UNCHANGED <<store, args, at, doing, target, answer, before>>

\* What is removed for an ID: the one link that matches.
FirstFound(links) == {q \in links : q = CHOOSE r \in links : TRUE}
OnlyFound(links) == IF Cardinality(links) = 1 THEN links ELSE {}

\* The loop over the map of IDs.  The link is the one of the walk: another ID
\* may have removed it since, and the calls then find nothing and succeed.
NextId ==
    /\ pc = "ids" /\ at = 0
    /\ \E i \in todo :
         /\ todo' = todo \ {i}
         /\ \/ /\ OnlyFound(found[i]) = {}
               /\ Answer(i, IF found[i] = {} THEN "not found" ELSE "not unique")
               /\ UNCHANGED <<at, doing, target>>
            \/ \E q \in OnlyFound(found[i]) : Begin(i, q, before.links[q])
    /\ UNCHANGED <<store, args, pc, found, cut, before>>

IdsDone ==
    /\ pc = "ids" /\ at = 0 /\ todo = {}
    /\ pc' = "done"
    /\ UNCHANGED <<store, args, todo, at, doing, target, found, answer, cut, before>>

-----------------------------------------------------------------------------
\* The three calls that remove a model, the link last.

LinkFirst(step) == CASE step = "layers" -> "link" [] step = "link" -> "config" [] OTHER -> "none"
Following(step) == CASE step = "layers" -> "config" [] step = "config" -> "link" [] OTHER -> "none"

Remove ==
    /\ at # 0
    /\ layers' = IF doing = "layers" THEN layers \ {target.id} ELSE layers
    /\ config' = IF doing = "config" THEN config \ {target.id} ELSE config
    /\ link' = IF doing = "link" THEN [link EXCEPT ![target.path] = None] ELSE link
    /\ doing' = Following(doing)
    /\ IF Following(doing) = "none"
       THEN at' = 0 /\ target' = Nothing /\ Answer(at, "removed")
       ELSE UNCHANGED <<at, target, answer>>
    /\ UNCHANGED <<args, pc, todo, found, cut, before>>

\* A call fails: the rest of this model stays, the other arguments go on.
Overlooked == "removed"
Failure == "failed"
RemoveFails ==
    /\ at # 0
    /\ Answer(at, Failure)
    /\ at' = 0
    /\ target' = Nothing
    /\ doing' = "none"
    /\ UNCHANGED <<store, args, pc, todo, found, cut, before>>

Next ==
    \/ Parse \/ NextName \/ NamesDone \/ Walk \/ NextId \/ IdsDone
    \/ Remove \/ RemoveFails

Spec == Init /\ [][Next]_vars

-----------------------------------------------------------------------------

TypeOK ==
    /\ link \in [Path -> Digest \cup {None}]
    /\ config \in SUBSET Digest
    /\ layers \in SUBSET Digest
    /\ args \in Seq(Arg)
    /\ pc \in {"parse", "names", "walk", "ids", "done", "failed"}
    /\ todo \in SUBSET Index
    /\ at \in Index \cup {0}
    /\ doing \in {"none", "layers", "config", "link"}
    /\ (at # 0) = (doing # "none")
    /\ at # 0 => target \in [path : Path, id : Digest]
    /\ found \in [Ids -> SUBSET Path]
    /\ answer \in [Index -> {"none", "removed", "failed", "not found", "not unique"}]
    /\ before \in [links : [Path -> Digest \cup {None}], listed : SUBSET Path]

\* Nothing that had a link is left without one, wherever `remove` is killed
\* and whichever call fails: what is still on the disk can be removed by
\* running the command again.
NothingIsOrphaned ==
    \A d \in config \cup layers :
        (\E q \in Path : before.links[q] = d) => \E q \in Path : link[q] = d

\* Why: the link goes when nothing is left below it, and it is still the link
\* that it was at the start.
Underway ==
    /\ \A q \in Path : link[q] \in {before.links[q], None}
    /\ pc = "names" => \A i \in todo : Ref[args[i]] \in Path
    /\ pc = "ids" => todo \subseteq Ids
    /\ \A i \in Ids : \A q \in found[i] : before.links[q] # None
    /\ at # 0 => before.links[target.path] = target.id
    /\ doing \in {"config", "link"} => target.id \notin layers
    /\ doing = "link" => target.id \notin config

IInv == TypeOK /\ Underway /\ NothingIsOrphaned

\* What is reported as removed is gone: its link, and with it the model.  It
\* says so for an ID of which the walk has seen every link.
RemovedIsGone ==
    \A i \in Index : answer[i] = "removed" /\ ~cut =>
        IF i \in Ids
        THEN \A q \in Path : link[q] \notin Prefixed[args[i]]
        ELSE link[Ref[args[i]]] = None /\ before.links[Ref[args[i]]] \notin config \cup layers

Taken == {q \in Path : link[q] # before.links[q]} \cup (before.listed \ Listed)
MeantBy(i) == {q \in Path : before.links[q] \in Prefixed[args[i]]}
Named == {Ref[args[i]] : i \in Index \ Ids}

\* A link that `remove` takes away, or a model that `list` no longer shows, is
\* that of a name, which takes the model from every link to it, or the last link
\* of an ID: it means no other that is not itself named.  An ID that means nothing
\* that is named takes no more than it takes alone.
OnlyNamedOrLast ==
    ~cut => \A q \in Taken : \E i \in Index :
        IF i \in Ids THEN MeantBy(i) \ Named = {q}
        ELSE before.links[q] = before.links[Ref[args[i]]]

\* remove.go:116: an ID of several links "is not unique", and takes none of them.
\* So several arguments together take no more than each of them alone.
OnlyWhatIsMeant ==
    ~cut => \A q \in Taken : \E i \in Index :
        IF i \in Ids THEN MeantBy(i) = {q}
        ELSE before.links[q] = before.links[Ref[args[i]]]

\* remove.go:19: a local model can be removed by its name.
RemovesByName ==
    pc = "done" /\ Index = {1} /\ Ref[args[1]] # None /\ answer[1] # "failed" => link[Ref[args[1]]] = None
=============================================================================
