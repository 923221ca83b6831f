--------------------------- MODULE CommandsProofs ---------------------------
(***************************************************************************)
(* However many arguments `remove` has, whatever the store holds and       *)
(* wherever it is killed: it leaves nothing behind that no link leads to.  *)
(* However many layers `estimate` offloads, by whatever step: its rows     *)
(* reach the end.                                                          *)
(***************************************************************************)
EXTENDS Commands, TLAPS, SequenceTheorems, FiniteSetTheorems

LEMMA IndexType ==
    ASSUME TypeOK PROVE /\ Index \subseteq Nat \ {0} /\ Ids \subseteq Index
                        /\ \A i \in Index : args[i] \in Arg
<1>1. args \in Seq(Arg)
  BY DEF TypeOK
<1>2. Index = 1..Len(args) /\ Len(args) \in Nat
  BY <1>1, LenProperties DEF Index
<1>3. \A i \in 1..Len(args) : args[i] \in Arg
  BY <1>1, ElementOfSeq
<1> QED BY <1>2, <1>3 DEF Ids

LEMMA InitHolds == Init => IInv
<1> SUFFICES ASSUME Init PROVE IInv
  OBVIOUS
<1>1. args \in Seq(Arg)
  BY RemovalAssumption DEF Init
<1>2. TypeOK
  BY <1>1, RemovalAssumption DEF Init, TypeOK, Index, Ids, Listed
<1>3. Underway
  BY DEF Init, Underway
<1>4. NothingIsOrphaned
  BY DEF Init, NothingIsOrphaned
<1> QED BY <1>2, <1>3, <1>4 DEF IInv

\* The steps that leave the store and the removal as they are.
LEMMA BookkeepingKeeps ==
    ASSUME IInv, UNCHANGED <<store, args, at, doing, target, found, before>>,
           pc' \in {"parse", "names", "walk", "ids", "done", "failed"},
           todo' \in SUBSET Index,
           pc' = "names" => \A i \in todo' : Ref[args[i]] \in Path,
           answer' \in [Index -> {"none", "removed", "failed", "not found", "not unique"}],
           pc' = "ids" => todo' \subseteq Ids
    PROVE  IInv'
<1>1. TypeOK'
  BY DEF IInv, TypeOK, store, Index, Ids
<1>2. Underway' /\ NothingIsOrphaned'
  BY DEF IInv, Underway, NothingIsOrphaned, store, Ids, Index
<1> QED BY <1>1, <1>2 DEF IInv

\* A removal begins with a link of the start that led to a model.
LEMMA BeginKeeps ==
    ASSUME IInv, NEW i \in Index, NEW q \in Path, NEW d \in Digest, before.links[q] = d,
           Begin(i, q, d), todo' \in SUBSET todo, UNCHANGED <<store, args, pc, found, cut, before>>
    PROVE  IInv'
<1>1. i # 0
  BY IndexType DEF IInv
<1>2. TypeOK'
  BY <1>1 DEF IInv, TypeOK, Begin, store, Index, Ids
<1>3. Underway'
  BY <1>1 DEF IInv, Underway, Begin, store, Ids, Index
<1>4. NothingIsOrphaned'
  BY DEF IInv, NothingIsOrphaned, store
<1> QED BY <1>2, <1>3, <1>4 DEF IInv

LEMMA ParseKeeps == ASSUME IInv, Parse PROVE IInv'
<1>1. CASE \E i \in Index \ Ids : Ref[args[i]] = None
  BY <1>1, BookkeepingKeeps DEF Parse, IInv, TypeOK
<1>2. CASE ~\E i \in Index \ Ids : Ref[args[i]] = None
  <2>1. \A i \in Index : args[i] \in Arg
    BY IndexType DEF IInv
  <2>2. \A i \in Index \ Ids : Ref[args[i]] \in Path
    BY <1>2, <2>1, RemovalAssumption
  <2>3. todo' = Index \ Ids /\ pc' = "names"
    BY <1>2 DEF Parse
  <2> QED BY <2>2, <2>3, BookkeepingKeeps DEF Parse, IInv, TypeOK
<1> QED BY <1>1, <1>2

LEMMA NextNameKeeps == ASSUME IInv, NextName PROVE IInv'
<1>1. PICK i \in todo :
        /\ todo' = todo \ {i}
        /\ IF link[Ref[args[i]]] = None
           THEN Answer(i, "not found") /\ UNCHANGED <<at, doing, target>>
           ELSE Begin(i, Ref[args[i]], link[Ref[args[i]]])
  BY DEF NextName
<1>2. i \in Index /\ todo' \in SUBSET todo /\ Ref[args[i]] \in Path
  BY <1>1 DEF IInv, TypeOK, Underway, NextName
<1>3. CASE link[Ref[args[i]]] = None
  <2>1. answer' \in [Index -> {"none", "removed", "failed", "not found", "not unique"}]
    BY <1>1, <1>2, <1>3 DEF Answer, IInv, TypeOK
  <2>2. todo' \in SUBSET Index /\ \A j \in todo' : Ref[args[j]] \in Path
    BY <1>2 DEF IInv, TypeOK, Underway, NextName
  <2> QED BY <1>1, <1>3, <2>1, <2>2, BookkeepingKeeps DEF NextName, IInv, TypeOK
<1>4. CASE link[Ref[args[i]]] # None
  <2>1. link[Ref[args[i]]] \in Digest /\ before.links[Ref[args[i]]] = link[Ref[args[i]]]
    BY <1>2, <1>4 DEF IInv, TypeOK, Underway
  <2> QED BY <1>1, <1>2, <1>4, <2>1, BeginKeeps DEF NextName
<1> QED BY <1>3, <1>4

LEMMA LoopsEndKeeps == ASSUME IInv, NamesDone \/ IdsDone PROVE IInv'
BY BookkeepingKeeps DEF NamesDone, IdsDone, IInv, TypeOK

\* Only links that lead to a model match an ID.
LEMMA WalkKeeps == ASSUME IInv, Walk PROVE IInv'
<1>1. PICK seen \in SUBSET Path : found' = [i \in Ids |-> Matches(i) \cap seen]
  BY DEF Walk
<1>2. (at = 0 /\ doing = "none") \/ at # 0
  BY DEF IInv, TypeOK
<1>3. TypeOK'
  BY <1>1 DEF Walk, IInv, TypeOK, store, Index, Ids, Matches
<1>4. \A i \in Ids : \A q \in Matches(i) : before.links[q] # None
  <2> SUFFICES ASSUME NEW i \in Ids, NEW q \in Matches(i) PROVE before.links[q] # None
    OBVIOUS
  <2>1. args[i] \in Arg
    BY IndexType DEF IInv
  <2>2. link[q] \in Digest /\ q \in Path
    BY <2>1, RemovalAssumption DEF Matches
  <2> QED BY <2>2, RemovalAssumption DEF IInv, Underway
<1>5. Underway'
  BY <1>1, <1>4 DEF Walk, IInv, Underway, store, Ids, Index
<1>6. NothingIsOrphaned'
  BY DEF Walk, IInv, NothingIsOrphaned, store
<1> QED BY <1>3, <1>5, <1>6 DEF IInv

LEMMA NextIdKeeps == ASSUME IInv, NextId PROVE IInv'
<1>1. PICK i \in todo :
        /\ todo' = todo \ {i}
        /\ \/ /\ Answer(i, IF found[i] = {} THEN "not found" ELSE "not unique")
              /\ UNCHANGED <<at, doing, target>>
           \/ \E q \in OnlyFound(found[i]) : Begin(i, q, before.links[q])
  BY DEF NextId
<1>2. i \in Index /\ todo' \in SUBSET todo /\ todo' \in SUBSET Index /\ todo \subseteq Ids
  BY <1>1 DEF NextId, IInv, TypeOK, Underway
<1>3. CASE Answer(i, IF found[i] = {} THEN "not found" ELSE "not unique") /\ UNCHANGED <<at, doing, target>>
  <2>1. answer' \in [Index -> {"none", "removed", "failed", "not found", "not unique"}]
    BY <1>2, <1>3 DEF Answer, IInv, TypeOK
  <2> QED BY <1>2, <1>3, <2>1, BookkeepingKeeps DEF NextId, IInv, TypeOK
<1>4. CASE \E q \in OnlyFound(found[i]) : Begin(i, q, before.links[q])
  <2>1. PICK q \in OnlyFound(found[i]) : Begin(i, q, before.links[q])
    BY <1>4
  <2>2. q \in found[i]
    BY <2>1 DEF OnlyFound
  <2>3. q \in Path /\ before.links[q] \in Digest
    <3>1. i \in Ids /\ found[i] \in SUBSET Path
      BY <1>1, <1>2 DEF IInv, TypeOK
    <3>2. before.links[q] # None
      BY <2>2, <3>1 DEF IInv, Underway
    <3>3. before.links[q] \in Digest \cup {None}
      BY <2>2, <3>1 DEF IInv, TypeOK
    <3> QED BY <2>2, <3>1, <3>2, <3>3
  <2> QED BY <1>1, <1>2, <2>1, <2>3, BeginKeeps DEF NextId
<1> QED BY <1>1, <1>3, <1>4

\* The link goes when layers and config are gone: what it led to is not orphaned.
LEMMA RemoveKeeps == ASSUME IInv, Remove PROVE IInv'
<1>1. /\ at \in Index /\ target \in [path : Path, id : Digest] /\ before.links[target.path] = target.id
      /\ doing \in {"layers", "config", "link"} /\ pc' = pc /\ todo' = todo
  BY DEF Remove, IInv, TypeOK, Underway
<1>2. answer' \in [Index -> {"none", "removed", "failed", "not found", "not unique"}]
  BY <1>1 DEF Remove, Answer, IInv, TypeOK
<1>3. TypeOK'
  <2>1. /\ link' \in [Path -> Digest \cup {None}] /\ config' \in SUBSET Digest /\ layers' \in SUBSET Digest
    BY <1>1 DEF Remove, IInv, TypeOK
  <2>2. /\ at' \in Index \cup {0} /\ doing' \in {"none", "layers", "config", "link"}
        /\ (at' # 0) = (doing' # "none")
        /\ at' # 0 => target' \in [path : Path, id : Digest]
    BY <1>1 DEF Remove, Following, IInv, TypeOK
  <2>3. UNCHANGED <<args, Index, Ids, pc, todo, found, before>>
    BY DEF Remove, Index, Ids
  <2>4. /\ args' \in Seq(Arg) /\ todo' \in SUBSET Index' /\ found' \in [Ids' -> SUBSET Path]
        /\ pc' \in {"parse", "names", "walk", "ids", "done", "failed"}
        /\ before' \in [links : [Path -> Digest \cup {None}], listed : SUBSET Path]
    BY <2>3 DEF IInv, TypeOK
  <2>5. /\ at' \in Index' \cup {0}
        /\ answer' \in [Index' -> {"none", "removed", "failed", "not found", "not unique"}]
        /\ todo' \in SUBSET Index'
    BY <1>2, <2>2, <2>3, <2>4
  <2> HIDE DEF Index, Ids
  <2> QED BY <2>1, <2>2, <2>4, <2>5 DEF TypeOK
<1>4. Underway'
  BY <1>1 DEF Remove, Following, IInv, TypeOK, Underway, Index, Ids
<1>5. NothingIsOrphaned'
  <2>1. CASE doing # "link"
    BY <1>1, <2>1 DEF Remove, IInv, NothingIsOrphaned
  <2>2. CASE doing = "link"
    <3> SUFFICES ASSUME NEW d \in config \cup layers, NEW q \in Path, before.links[q] = d
                 PROVE  \E r \in Path : link'[r] = d
      BY <2>2 DEF Remove, NothingIsOrphaned
    <3>1. PICK r \in Path : link[r] = d
      BY DEF IInv, NothingIsOrphaned
    <3>2. r # target.path
      <4>1. target.id \notin config \cup layers
        BY <2>2 DEF IInv, Underway
      <4>2. link[target.path] \in {target.id, None}
        BY <1>1 DEF IInv, Underway
      <4>3. d # None
        BY RemovalAssumption DEF IInv, TypeOK
      <4> QED BY <3>1, <4>1, <4>2, <4>3
    <3>3. link'[r] = d
      BY <1>1, <2>2, <3>1, <3>2 DEF Remove, IInv, TypeOK
    <3> QED BY <3>3
  <2> QED BY <2>1, <2>2
<1> QED BY <1>3, <1>4, <1>5 DEF IInv

LEMMA RemoveFailsKeeps == ASSUME IInv, RemoveFails PROVE IInv'
<1>1. answer' \in [Index -> {"none", "removed", "failed", "not found", "not unique"}]
  BY DEF RemoveFails, Answer, Failure, IInv, TypeOK
<1>2. TypeOK'
  BY <1>1 DEF RemoveFails, IInv, TypeOK, store, Index, Ids
<1>3. Underway' /\ NothingIsOrphaned'
  BY DEF RemoveFails, IInv, Underway, NothingIsOrphaned, store, Index, Ids
<1> QED BY <1>2, <1>3 DEF IInv

LEMMA NextKeeps == ASSUME IInv, [Next]_vars PROVE IInv'
<1>1. CASE UNCHANGED vars
  BY <1>1 DEF vars, store, IInv, TypeOK, Underway, NothingIsOrphaned, Index, Ids
<1>2. CASE Next
  BY <1>2, ParseKeeps, NextNameKeeps, LoopsEndKeeps, WalkKeeps, NextIdKeeps, RemoveKeeps, RemoveFailsKeeps
  DEF Next
<1> QED BY <1>1, <1>2

\* Types hold, and a removal only takes a link that is still as it was at the
\* start, when the config and the layers below it are gone.
THEOREM RemovalInvariant == Spec => []IInv
BY InitHolds, NextKeeps, PTL DEF Spec

\* What had a link and is still on the disk has one, at every step of a removal of
\* any number of arguments, and whichever of its calls fail (remove.go:52-137).
THEOREM NothingLeftBehind == Spec => []NothingIsOrphaned
<1>1. IInv => NothingIsOrphaned
  BY DEF IInv
<1> QED BY <1>1, RemovalInvariant, PTL

(***************************************************************************)
(* What is removed                                                         *)
(***************************************************************************)

\* What the names leave to an ID.
LeftTo(i) == MeantBy(i) \ Named

\* A link that shares its model with a name, or the last that is left to an ID.
Covered(q) ==
    \E i \in Index : IF i \in Ids THEN LeftTo(i) = {q} ELSE before.links[q] = before.links[Ref[args[i]]]

\* Names come before IDs, and only what has a name has gone by then.
NamesFirst ==
    /\ pc \in {"parse", "names", "walk", "failed"} =>
           /\ ~cut
           /\ \A i \in Ids : answer[i] # "removed"
           /\ \A r \in Path : link[r] # before.links[r] => r \in Named
    /\ pc = "names" => todo \subseteq Index \ Ids

\* The model that is being removed is the one that its argument stands for.
RightTarget ==
    at # 0 =>
        /\ IF at \in Ids THEN pc = "ids" /\ found[at] = {target.path} ELSE pc = "names" /\ target.path = Ref[args[at]]
        /\ ~cut => \A q \in Path : before.links[q] = target.id => Covered(q)

\* A walk that was not cut has found every link that can have the ID, and no other.
AllFound ==
    pc \in {"ids", "done"} /\ ~cut => \A i \in Ids :
        /\ \A r \in Path : link[r] \in Prefixed[args[i]] => r \in found[i]
        /\ LeftTo(i) \subseteq found[i]
        /\ \A r \in found[i] : before.links[r] \in Prefixed[args[i]]

\* What a name or an ID stood for when it was reported as removed.
Reported ==
    \A i \in Index : answer[i] = "removed" =>
        IF i \in Ids
        THEN \E q \in Path : found[i] = {q} /\ link[q] = None
        ELSE Ref[args[i]] \in Path /\ link[Ref[args[i]]] = None /\ before.links[Ref[args[i]]] \notin config \cup layers

OnlyCovered ==
    ~cut => \A q \in Path : link[q] # before.links[q] \/ q \in before.listed \ Listed => Covered(q)

Sure == NamesFirst /\ RightTarget /\ AllFound /\ Reported /\ OnlyCovered

LEMMA SureInit == Init => Sure
<1> SUFFICES ASSUME Init PROVE Sure
  OBVIOUS
<1>1. NamesFirst /\ RightTarget /\ AllFound
  BY DEF Init, NamesFirst, RightTarget, AllFound, Ids
<1>2. Reported
  BY DEF Init, Reported
<1>3. OnlyCovered
  BY DEF Init, OnlyCovered, Listed
<1> QED BY <1>1, <1>2, <1>3 DEF Sure

\* The arguments and the start do not change, nor what is read from them.
LEMMA StartStays ==
    ASSUME UNCHANGED <<args, before>>
    PROVE  /\ Index' = Index /\ Ids' = Ids /\ Named' = Named
           /\ \A i : LeftTo(i)' = LeftTo(i)
           /\ \A q : Covered(q)' = Covered(q)
BY DEF Index, Ids, Named, MeantBy, LeftTo, Covered

\* While the store, the removal and the walk are as they were, little can go wrong.
LEMMA SureBookkeeping ==
    ASSUME IInv, Sure, UNCHANGED <<store, args, at, target, found, cut, before>>,
           pc' \in {"parse", "names", "walk", "failed"} => pc \in {"parse", "names", "walk", "failed"} /\ (\A i \in Ids : answer'[i] # "removed"),
           pc' = "names" => todo' \subseteq Index \ Ids,
           at # 0 => pc' = pc,
           pc' \in {"ids", "done"} => pc \in {"ids", "done"} \/ Ids = {},
           \A i \in Index : answer'[i] = "removed" => answer[i] = "removed"
    PROVE  Sure'
<1>1. /\ Index' = Index /\ Ids' = Ids /\ Named' = Named
      /\ \A i : LeftTo(i)' = LeftTo(i)
      /\ \A q : Covered(q)' = Covered(q)
  BY StartStays
<1>2. UNCHANGED <<link, config, layers, Listed>>
  BY DEF store, Listed
<1>3. NamesFirst'
  BY <1>1, <1>2 DEF Sure, NamesFirst
<1>4. RightTarget'
  BY <1>1, <1>2 DEF Sure, RightTarget
<1>5. AllFound'
  BY <1>1, <1>2 DEF Sure, AllFound
<1>6. Reported'
  BY <1>1, <1>2 DEF Sure, Reported
<1>7. OnlyCovered'
  BY <1>1, <1>2 DEF Sure, OnlyCovered
<1> QED BY <1>3, <1>4, <1>5, <1>6, <1>7 DEF Sure

LEMMA SureParse == ASSUME IInv, Sure, Parse PROVE Sure'
<1>1. at = 0 /\ pc = "parse"
  BY DEF Parse, Sure, RightTarget
<1>2. pc' \in {"failed", "names"} /\ (pc' = "names" => todo' = Index \ Ids)
  BY DEF Parse
<1>3. UNCHANGED <<store, args, at, target, found, cut, before, answer>>
  BY DEF Parse
<1> QED BY <1>1, <1>2, <1>3, SureBookkeeping DEF Sure, NamesFirst

\* A removal begins for an argument that stands for its target.
LEMMA SureBegins ==
    ASSUME IInv, Sure, NEW i \in Index, NEW q \in Path, NEW d \in Digest, at = 0, Begin(i, q, d),
           UNCHANGED <<store, args, pc, found, cut, before>>, todo' \subseteq todo,
           IF i \in Ids THEN pc = "ids" /\ found[i] = {q} ELSE pc = "names" /\ q = Ref[args[i]],
           ~cut => \A r \in Path : before.links[r] = d => Covered(r)
    PROVE  Sure'
<1>1. /\ Index' = Index /\ Ids' = Ids /\ Named' = Named
      /\ \A j : LeftTo(j)' = LeftTo(j)
      /\ \A r : Covered(r)' = Covered(r)
  BY StartStays
<1>2. UNCHANGED <<link, config, layers, Listed, answer>> /\ at' = i /\ target' = [path |-> q, id |-> d]
  BY DEF store, Listed, Begin
<1>3. NamesFirst'
  BY <1>1, <1>2 DEF Sure, NamesFirst
<1>4. RightTarget'
  BY <1>1, <1>2 DEF RightTarget
<1>5. AllFound'
  BY <1>1, <1>2 DEF Sure, AllFound
<1>6. Reported'
  BY <1>1, <1>2 DEF Sure, Reported
<1>7. OnlyCovered'
  BY <1>1, <1>2 DEF Sure, OnlyCovered
<1> QED BY <1>3, <1>4, <1>5, <1>6, <1>7 DEF Sure

LEMMA SureNextName == ASSUME IInv, Sure, NextName PROVE Sure'
<1>1. PICK i \in todo :
        /\ todo' = todo \ {i}
        /\ IF link[Ref[args[i]]] = None
           THEN Answer(i, "not found") /\ UNCHANGED <<at, doing, target>>
           ELSE Begin(i, Ref[args[i]], link[Ref[args[i]]])
  BY DEF NextName
<1>2. pc = "names" /\ at = 0 /\ UNCHANGED <<store, args, pc, found, cut, before>>
  BY DEF NextName
<1>3. i \in Index \ Ids /\ todo' \subseteq todo /\ todo' \subseteq Index \ Ids /\ Ref[args[i]] \in Path
  BY <1>1, <1>2 DEF IInv, Underway, Sure, NamesFirst
<1>4. CASE link[Ref[args[i]]] = None
  <2>1. answer' = [answer EXCEPT ![i] = "not found"] /\ UNCHANGED <<at, target>>
    BY <1>1, <1>4 DEF Answer
  <2>2. \A j \in Index : answer'[j] = "removed" => answer[j] = "removed"
    BY <2>1 DEF IInv, TypeOK
  <2>3. \A j \in Ids : answer'[j] # "removed"
    BY <1>2, <2>2, IndexType DEF IInv, Sure, NamesFirst
  <2> QED BY <1>2, <1>3, <2>1, <2>2, <2>3, SureBookkeeping
<1>5. CASE link[Ref[args[i]]] # None
  <2>1. link[Ref[args[i]]] \in Digest /\ before.links[Ref[args[i]]] = link[Ref[args[i]]]
    BY <1>3, <1>5 DEF IInv, TypeOK, Underway
  <2>2. \A r \in Path : before.links[r] = link[Ref[args[i]]] => Covered(r)
    BY <1>3, <2>1 DEF Covered
  <2> QED BY <1>1, <1>2, <1>3, <1>5, <2>1, <2>2, SureBegins
<1> QED BY <1>4, <1>5

LEMMA SureLoopsEnd == ASSUME IInv, Sure, NamesDone \/ IdsDone PROVE Sure'
BY SureBookkeeping DEF NamesDone, IdsDone, Sure, NamesFirst

\* What the names have left of an ID's links is what the walk finds.
LEMMA SureWalk == ASSUME IInv, Sure, Walk PROVE Sure'
<1>1. PICK seen \in SUBSET Path : found' = [i \in Ids |-> Matches(i) \cap seen] /\ cut' = (seen # Path)
  BY DEF Walk
<1>2. /\ Index' = Index /\ Ids' = Ids /\ Named' = Named
      /\ \A j : LeftTo(j)' = LeftTo(j)
      /\ \A r : Covered(r)' = Covered(r)
  BY StartStays DEF Walk
<1>3. UNCHANGED <<link, config, layers, Listed, answer, at>> /\ pc = "walk" /\ pc' = "ids" /\ before' = before /\ args' = args
  BY DEF Walk, store, Listed
<1>4. at = 0 /\ ~cut
  BY <1>3 DEF Sure, RightTarget, NamesFirst
<1>5. NamesFirst' /\ RightTarget'
  BY <1>3, <1>4 DEF NamesFirst, RightTarget
<1>6. AllFound'
  <2> SUFFICES ASSUME seen = Path, NEW i \in Ids
               PROVE  /\ \A r \in Path : link[r] \in Prefixed[args[i]] => r \in found'[i]
                      /\ LeftTo(i) \subseteq found'[i]
                      /\ \A r \in found'[i] : before.links[r] \in Prefixed[args[i]]
    BY <1>1, <1>2, <1>3 DEF AllFound
  <2>1. found'[i] = {q \in Path : link[q] \in Prefixed[args[i]]}
    BY <1>1 DEF Matches
  <2>2. None \notin Prefixed[args[i]]
    <3>1. args[i] \in Arg
      BY IndexType DEF IInv
    <3> QED BY <3>1, RemovalAssumption
  <2>3. \A r \in Path : link[r] \in {before.links[r], None}
    BY DEF IInv, Underway
  <2>4. \A r \in Path : r \notin Named => link[r] = before.links[r]
    BY <1>3 DEF Sure, NamesFirst
  <2>5. LeftTo(i) \subseteq found'[i]
    BY <2>1, <2>4 DEF LeftTo, MeantBy
  <2>6. \A r \in found'[i] : before.links[r] \in Prefixed[args[i]]
    BY <2>1, <2>2, <2>3
  <2> QED BY <2>1, <2>5, <2>6
<1>7. Reported'
  BY <1>2, <1>3 DEF Sure, Reported, NamesFirst
<1>8. OnlyCovered'
  BY <1>2, <1>3, <1>4 DEF Sure, OnlyCovered
<1> QED BY <1>5, <1>6, <1>7, <1>8 DEF Sure

LEMMA OnlyOne ==
    ASSUME NEW S \in SUBSET Path, NEW q \in OnlyFound(S) PROVE S = {q}
<1>1. q \in S /\ Cardinality(S) = 1
  BY DEF OnlyFound
<1>2. IsFiniteSet(S)
  BY RemovalAssumption, FS_Subset
<1> QED BY <1>1, <1>2, FS_Singleton

\* The one link of an ID has its model to itself, but for links that are named.
LEMMA SureNextId == ASSUME IInv, Sure, NextId PROVE Sure'
<1>1. PICK i \in todo :
        /\ todo' = todo \ {i}
        /\ \/ /\ Answer(i, IF found[i] = {} THEN "not found" ELSE "not unique")
              /\ UNCHANGED <<at, doing, target>>
           \/ \E q \in OnlyFound(found[i]) : Begin(i, q, before.links[q])
  BY DEF NextId
<1>2. pc = "ids" /\ at = 0 /\ UNCHANGED <<store, args, pc, found, cut, before>>
  BY DEF NextId
<1>3. i \in Ids /\ i \in Index /\ todo' \subseteq todo /\ found[i] \in SUBSET Path
  BY <1>1, <1>2 DEF IInv, TypeOK, Underway
<1>4. CASE Answer(i, IF found[i] = {} THEN "not found" ELSE "not unique") /\ UNCHANGED <<at, doing, target>>
  <2>1. answer' = [answer EXCEPT ![i] = IF found[i] = {} THEN "not found" ELSE "not unique"] /\ UNCHANGED <<at, target>>
    BY <1>4 DEF Answer
  <2>2. \A j \in Index : answer'[j] = "removed" => answer[j] = "removed"
    BY <2>1 DEF IInv, TypeOK
  <2> QED BY <1>2, <2>1, <2>2, SureBookkeeping
<1>5. CASE \E q \in OnlyFound(found[i]) : Begin(i, q, before.links[q])
  <2>1. PICK q \in OnlyFound(found[i]) : Begin(i, q, before.links[q])
    BY <1>5
  <2>2. found[i] = {q} /\ q \in Path
    BY <1>3, OnlyOne
  <2>3. before.links[q] \in Digest
    BY <1>3, <2>2 DEF IInv, TypeOK, Underway
  <2>4. ASSUME ~cut, NEW r \in Path, before.links[r] = before.links[q] PROVE Covered(r)
    <3>1. before.links[r] \in Prefixed[args[i]] /\ LeftTo(i) \subseteq {q}
      BY <1>2, <1>3, <2>2, <2>4 DEF Sure, AllFound
    <3>2. CASE r \in Named
      BY <3>2 DEF Named, Covered
    <3>3. CASE r \notin Named
      <4>1. LeftTo(i) = {r}
        BY <3>1, <3>3 DEF LeftTo, MeantBy
      <4> QED BY <1>3, <4>1 DEF Covered
    <3> QED BY <3>2, <3>3
  <2> QED BY <1>1, <1>2, <1>3, <2>1, <2>2, <2>3, <2>4, SureBegins
<1> QED BY <1>1, <1>4, <1>5

\* The last call has taken the link, the calls before it the model.
LEMMA SureRemove == ASSUME IInv, Sure, Remove PROVE Sure'
<1>1. /\ Index' = Index /\ Ids' = Ids /\ Named' = Named
      /\ \A j : LeftTo(j)' = LeftTo(j)
      /\ \A r : Covered(r)' = Covered(r)
  BY StartStays DEF Remove
<1>2. /\ at \in Index /\ target \in [path : Path, id : Digest] /\ before.links[target.path] = target.id
      /\ doing \in {"layers", "config", "link"}
      /\ UNCHANGED <<args, pc, todo, found, cut, before>>
  BY DEF Remove, IInv, TypeOK, Underway
<1>3. /\ config' \subseteq config /\ layers' \subseteq layers /\ config \ config' \subseteq {target.id}
      /\ \A q \in Path : link'[q] = link[q] \/ (q = target.path /\ link'[q] = None)
  <2>1. config' \subseteq config /\ layers' \subseteq layers /\ config \ config' \subseteq {target.id}
    BY DEF Remove
  <2>2. link' = [link EXCEPT ![target.path] = None] \/ link' = link
    BY DEF Remove
  <2>3. \A q \in Path : link'[q] = link[q] \/ (q = target.path /\ link'[q] = None)
    BY <1>2, <2>2 DEF IInv, TypeOK
  <2> QED BY <2>1, <2>3
<1>4. \A i \in Index : answer'[i] = "removed" => answer[i] = "removed" \/ (i = at /\ doing = "link")
  BY <1>2 DEF Remove, Answer, Following, IInv, TypeOK
<1>5. (at' = at /\ target' = target) \/ at' = 0
  BY DEF Remove
<1>6. /\ IF at \in Ids THEN pc = "ids" /\ found[at] = {target.path} ELSE pc = "names" /\ target.path = Ref[args[at]]
      /\ ~cut => \A q \in Path : before.links[q] = target.id => Covered(q)
  BY <1>2, IndexType DEF Sure, RightTarget, IInv
<1>7. NamesFirst'
  <2> SUFFICES ASSUME pc \in {"parse", "names", "walk", "failed"}
               PROVE  /\ \A i \in Ids : answer'[i] # "removed"
                      /\ \A r \in Path : link'[r] # before.links[r] => r \in Named
    BY <1>1, <1>2 DEF Sure, NamesFirst
  <2>1. at \in Index \ Ids /\ target.path \in Named
    BY <1>2, <1>6 DEF Named
  <2>2. \A i \in Ids : answer'[i] # "removed"
    BY <1>4, <2>1, IndexType DEF Sure, NamesFirst, IInv
  <2>3. \A r \in Path : link'[r] # before.links[r] => r \in Named
    BY <1>3, <2>1 DEF Sure, NamesFirst
  <2> QED BY <2>2, <2>3
<1>8. RightTarget'
  BY <1>1, <1>2, <1>5, <1>6 DEF RightTarget
<1>9. AllFound'
  <2> SUFFICES ASSUME pc \in {"ids", "done"}, ~cut, NEW i \in Ids, NEW r \in Path, link'[r] \in Prefixed[args[i]]
               PROVE  r \in found[i]
    BY <1>1, <1>2 DEF Sure, AllFound
  <2>1. args[i] \in Arg
    BY IndexType DEF IInv
  <2>2. link'[r] # None
    BY <2>1, RemovalAssumption
  <2>3. link[r] \in Prefixed[args[i]]
    BY <1>3, <2>2
  <2> QED BY <2>3 DEF Sure, AllFound
<1>10. Reported'
  <2> SUFFICES ASSUME NEW i \in Index, answer'[i] = "removed"
               PROVE  IF i \in Ids
                      THEN \E q \in Path : found[i] = {q} /\ link'[q] = None
                      ELSE Ref[args[i]] \in Path /\ link'[Ref[args[i]]] = None
                           /\ before.links[Ref[args[i]]] \notin config' \cup layers'
    BY <1>1, <1>2 DEF Reported
  <2>1. CASE answer[i] = "removed"
    <3>1. CASE i \in Ids
      BY <1>3, <2>1, <3>1 DEF Sure, Reported
    <3>2. CASE i \notin Ids
      <4>1. Ref[args[i]] \in Path /\ link[Ref[args[i]]] = None /\ before.links[Ref[args[i]]] \notin config \cup layers
        BY <2>1, <3>2 DEF Sure, Reported
      <4>2. link'[Ref[args[i]]] = None
        BY <1>3, <4>1
      <4> QED BY <1>3, <3>2, <4>1, <4>2
    <3> QED BY <3>1, <3>2
  <2>2. CASE i = at /\ doing = "link"
    <3>1. link'[target.path] = None /\ config' = config /\ layers' = layers
      BY <1>2, <2>2 DEF Remove, IInv, TypeOK
    <3>2. target.id \notin config \cup layers
      BY <2>2 DEF IInv, Underway
    <3> QED BY <1>2, <1>6, <2>2, <3>1, <3>2
  <2> QED BY <1>4, <2>1, <2>2
<1>11. OnlyCovered'
  <2> SUFFICES ASSUME ~cut, NEW q \in Path, link'[q] # before.links[q] \/ q \in before.listed \ Listed'
               PROVE  Covered(q)
    BY <1>1, <1>2 DEF OnlyCovered
  <2>1. CASE link[q] # before.links[q] \/ q \in before.listed \ Listed
    BY <2>1 DEF Sure, OnlyCovered
  <2>2. CASE link[q] = before.links[q] /\ (link'[q] # before.links[q] \/ q \in Listed \ Listed')
    <3>1. before.links[q] = target.id
      BY <1>2, <1>3, <2>2 DEF Listed
    <3> QED BY <1>6, <3>1
  <2> QED BY <2>1, <2>2
<1> QED BY <1>7, <1>8, <1>9, <1>10, <1>11 DEF Sure

LEMMA SureRemoveFails == ASSUME IInv, Sure, RemoveFails PROVE Sure'
<1>1. /\ Index' = Index /\ Ids' = Ids /\ Named' = Named
      /\ \A j : LeftTo(j)' = LeftTo(j)
      /\ \A r : Covered(r)' = Covered(r)
  BY StartStays DEF RemoveFails
<1>2. UNCHANGED <<link, config, layers, Listed, args, pc, todo, found, cut, before>> /\ at' = 0
  BY DEF RemoveFails, store, Listed
<1>3. \A i \in Index : answer'[i] = "removed" => answer[i] = "removed"
  BY DEF RemoveFails, Answer, Failure, IInv, TypeOK
<1>4. NamesFirst'
  BY <1>1, <1>2, <1>3, IndexType DEF Sure, NamesFirst, IInv
<1>5. RightTarget' /\ AllFound'
  BY <1>1, <1>2 DEF Sure, RightTarget, AllFound
<1>6. Reported'
  BY <1>1, <1>2, <1>3 DEF Sure, Reported
<1>7. OnlyCovered'
  BY <1>1, <1>2 DEF Sure, OnlyCovered
<1> QED BY <1>4, <1>5, <1>6, <1>7 DEF Sure

LEMMA SureKeeps == ASSUME IInv, Sure, [Next]_vars PROVE Sure'
<1>1. CASE UNCHANGED vars
  <2>1. UNCHANGED <<store, args, pc, todo, at, target, found, answer, cut, before>>
    BY <1>1 DEF vars
  <2> QED BY <2>1, SureBookkeeping DEF Sure, NamesFirst
<1>2. CASE Next
  BY <1>2, SureParse, SureNextName, SureLoopsEnd, SureWalk, SureNextId, SureRemove, SureRemoveFails DEF Next
<1> QED BY <1>1, <1>2

LEMMA RemovalIsSure == Spec => [](IInv /\ Sure)
BY InitHolds, NextKeeps, SureInit, SureKeeps, PTL DEF Spec

LEMMA SureMeans == IInv /\ Sure => RemovedIsGone /\ OnlyNamedOrLast
<1>1. IInv /\ Sure => RemovedIsGone
  <2> SUFFICES ASSUME IInv, Sure, NEW i \in Index, answer[i] = "removed", ~cut
               PROVE  IF i \in Ids
                      THEN \A q \in Path : link[q] \notin Prefixed[args[i]]
                      ELSE link[Ref[args[i]]] = None /\ before.links[Ref[args[i]]] \notin config \cup layers
    BY DEF RemovedIsGone
  <2>1. CASE i \in Ids
    <3> SUFFICES ASSUME NEW q \in Path, link[q] \in Prefixed[args[i]] PROVE FALSE
      BY <2>1
    <3>1. \E r \in Path : found[i] = {r} /\ link[r] = None
      BY <2>1 DEF Sure, Reported
    <3>2. pc \in {"ids", "done"}
      BY <2>1 DEF Sure, NamesFirst, IInv, TypeOK
    <3>3. q \in found[i] /\ link[q] # None
      <4>1. args[i] \in Arg
        BY IndexType DEF IInv
      <4> QED BY <2>1, <3>2, <4>1, RemovalAssumption DEF Sure, AllFound
    <3> QED BY <3>1, <3>3
  <2>2. CASE i \notin Ids
    BY <2>2 DEF Sure, Reported
  <2> QED BY <2>1, <2>2
<1>2. IInv /\ Sure => OnlyNamedOrLast
  <2> SUFFICES ASSUME IInv, Sure, ~cut, NEW q \in Path, link[q] # before.links[q] \/ q \in before.listed \ Listed
               PROVE  Covered(q)
    BY DEF OnlyNamedOrLast, Taken, Covered, LeftTo, IInv, TypeOK
  <2> QED BY DEF Sure, OnlyCovered
<1> QED BY <1>1, <1>2

\* "removed" is said of what is gone: the link that was named with its model, and
\* every link to the models of an ID, unless the walk was cut short (remove.go).
THEOREM RemovedIsGoneHolds == Spec => []RemovedIsGone
BY SureMeans, RemovalIsSure, PTL

\* What is taken away, or no longer listed, shares its model with what a name
\* means, or is the only link of an ID that no name of the command means (remove.go).
THEOREM OnlyNamedOrLastHolds == Spec => []OnlyNamedOrLast
BY SureMeans, RemovalIsSure, PTL

(***************************************************************************)
(* `estimate`: however many layers the model has, and by whatever step     *)
(***************************************************************************)

Number == Int \cup {Unset}
Row == [layers : 0..Blocks, full : BOOLEAN]

\* The layers that the row i asks for, unless it is the last.
Asks(i) == (i - 1) * Estimator!Step

\* What the goroutines have done, each in its own place.
RowsFilled ==
    /\ Estimator!Step < Estimator!Whole.layers
    /\ rows \in [1..Estimator!Count -> Row]
    /\ own \in [1..Estimator!Count -> Number \cup {Asks(i) : i \in 1..Estimator!Count}]
    /\ rowpc \in [1..Estimator!Count -> {"append", "estimate", "done"}]
    /\ \A i \in 1..Estimator!Count :
           /\ rowpc[i] # "append" => own[i] = Asks(i)
           /\ rowpc[i] = "done" => rows[i] = Estimator!Estimated(Asks(i))

EstimateInv ==
    /\ line \in Seq([flag : STRING, number : Number])
    /\ flags \in [Estimator!Valued -> Number] /\ step \in Nat
    /\ argument \in Nat \ {0}
    /\ recorded \in [Estimator!Offload -> Number]
    /\ options \in [Estimator!Valued -> Number]
    /\ phase = "rows" => RowsFilled
    /\ StepsReachTheEnd

LEMMA Division ==
    ASSUME NEW W \in Nat, NEW n \in Nat \ {0}
    PROVE  W \div n \in Nat /\ W = ((W \div n) * n) + (W % n) /\ W % n \in 0..(n - 1)
OBVIOUS

LEMMA Product ==
    ASSUME NEW a \in Nat, NEW n \in Nat
    PROVE  a * n \in Nat /\ (a + 1) * n = (a * n) + n /\ \A b \in Nat : a <= b => a * n <= b * n
OBVIOUS

\* What the estimator answers.
LEMMA EstimatedType ==
    ASSUME NEW n \in Number
    PROVE  /\ Estimator!Estimated(n) \in Row
           /\ Estimator!Estimated(n).full => Estimator!Estimated(n).layers = Blocks
           /\ n \in 0..Blocks => Estimator!Estimated(n) = [layers |-> n, full |-> FALSE]
<1>1. Blocks \in Nat /\ Unset \notin Int
  BY EstimateAssumption
<1>2. Estimator!Estimated(n) = [layers |-> IF Estimator!Full(n) THEN Blocks ELSE n, full |-> Estimator!Full(n)]
  BY DEF Estimator!Estimated
<1>3. Estimator!Full(n) <=> n = Unset \/ n < 0 \/ n > Blocks
  BY DEF Estimator!Full
<1>4. Estimator!Full(n) \in BOOLEAN
  BY Zenon DEF Estimator!Full
<1>5. PICK f \in BOOLEAN : f = Estimator!Full(n)
  BY <1>4
<1>6. CASE f
  BY <1>1, <1>2, <1>3, <1>5, <1>6 DEF Row
<1>7. CASE ~f
  <2>1. n \in 0..Blocks
    BY <1>1, <1>3, <1>5, <1>7 DEF Number
  <2>2. ~Estimator!Full(n)
    BY <1>5, <1>7
  <2>3. Estimator!Full(n) = FALSE
    BY <1>4, <2>2
  <2>4. Estimator!Estimated(n) = [layers |-> n, full |-> FALSE]
    BY <1>2, <2>3
  <2>5. [layers |-> n, full |-> FALSE] \in Row /\ ~[layers |-> n, full |-> FALSE].full
    BY <2>1 DEF Row
  <2> QED BY <2>4, <2>5
<1> QED BY <1>6, <1>7

\* The steps and the rows, when there is more than one.
LEMMA StepsAre ==
    ASSUME EstimateInv, NEW W, W = Estimator!Whole.layers, NEW d, d = Estimator!Step, NEW c, c = Estimator!Count
    PROVE  /\ Estimator!Whole \in Row /\ W \in 0..Blocks /\ Blocks \in Nat
           /\ Estimator!Whole.full => W = Blocks
           /\ d < W =>
                /\ d = step /\ d \in Nat \ {0}
                /\ c \in Nat \ {0, 1}
                /\ (c - 2) * d <= W
                /\ (c - 2) * d < W + (IF Estimator!Whole.full THEN 1 ELSE 0)
                /\ W + (IF Estimator!Whole.full THEN 1 ELSE 0) <= ((c - 2) * d) + d
                /\ \A i \in 1..(c - 1) : Asks(i) \in 0..W /\ (i + 1 < c => Asks(i + 1) = Asks(i) + d)
                /\ Asks(c - 1) = (c - 2) * d /\ Asks(1) = 0
<1>1. Blocks \in Nat /\ options["layers"] \in Number /\ step \in Nat
  BY EstimateAssumption DEF EstimateInv, Estimator!Valued, Estimator!Offload
<1>2. /\ Estimator!Whole \in Row
      /\ Estimator!Whole.full => Estimator!Whole.layers = Blocks
  BY <1>1, EstimatedType DEF Estimator!Whole
<1>3. W \in 0..Blocks /\ Estimator!Whole.full \in BOOLEAN
  BY <1>2 DEF Row
<1>4. PICK full \in BOOLEAN : full = Estimator!Whole.full
  BY <1>3
<1>5. d = IF step > W \/ step = 0 THEN W ELSE step
  BY DEF Estimator!Step
<1>6. ASSUME d < W
      PROVE  /\ d = step /\ d \in Nat \ {0}
             /\ c \in Nat \ {0, 1}
             /\ (c - 2) * d <= W
             /\ (c - 2) * d < W + (IF full THEN 1 ELSE 0)
             /\ W + (IF full THEN 1 ELSE 0) <= ((c - 2) * d) + d
             /\ \A i \in 1..(c - 1) : Asks(i) \in 0..W /\ (i + 1 < c => Asks(i + 1) = Asks(i) + d)
             /\ Asks(c - 1) = (c - 2) * d /\ Asks(1) = 0
  <2>1. d = step /\ d \in Nat \ {0} /\ W \in Nat
    BY <1>1, <1>3, <1>5, <1>6
  <2>2. PICK q, r : q = W \div d /\ r = W % d
    OBVIOUS
  <2>3. q \in Nat /\ W = (q * d) + r /\ r \in 0..(d - 1)
    BY <2>1, <2>2, Division
  <2>4. c = q + 1 + IF r # 0 \/ full THEN 1 ELSE 0
    BY <1>4, <2>2 DEF Estimator!Count
  <2>5. q >= 1
    <3>1. q = 0 => q * d = 0
      BY <2>1
    <3> QED BY <1>6, <2>1, <2>3, <3>1
  <2>6. c \in Nat \ {0, 1} /\ c - 2 \in Nat
    BY <2>3, <2>4, <2>5
  <2>7. (c - 2) * d = IF r # 0 \/ full THEN q * d ELSE (q * d) - d
    <3>1. CASE r # 0 \/ full
      <4>1. c - 2 = q
        BY <2>3, <2>4, <3>1
      <4> QED BY <3>1, <4>1
    <3>2. CASE ~(r # 0 \/ full)
      <4>1. PICK p \in Nat : p = q - 1
        BY <2>3, <2>5
      <4>2. c - 2 = p /\ p + 1 = q
        BY <2>3, <2>4, <3>2, <4>1
      <4>3. q * d = (p * d) + d /\ p * d \in Nat
        BY <2>1, <4>2, Product
      <4>4. p * d = (q * d) - d
        <5>1. PICK x, y \in Nat : x = p * d /\ y = q * d
          BY <2>1, <2>3, <4>3, Product
        <5> QED BY <2>1, <4>3, <5>1
      <4>5. (c - 2) * d = p * d
        BY <4>2
      <4> QED BY <3>2, <4>4, <4>5
    <3> QED BY <3>1, <3>2
  <2>8. PICK x : x = q * d
    OBVIOUS
  <2>9. x \in Nat
    BY <2>1, <2>3, <2>8, Product
  <2>10. /\ (c - 2) * d <= W
         /\ (c - 2) * d < W + (IF full THEN 1 ELSE 0)
         /\ W + (IF full THEN 1 ELSE 0) <= ((c - 2) * d) + d
    BY <2>1, <2>3, <2>7, <2>8, <2>9
  <2>11. ASSUME NEW i \in 1..(c - 1) PROVE Asks(i) \in 0..W /\ (i + 1 < c => Asks(i + 1) = Asks(i) + d)
    <3>1. i - 1 \in Nat /\ i - 1 <= c - 2 /\ i \in Nat /\ (i + 1) - 1 = (i - 1) + 1
      BY <2>6
    <3>2. (i - 1) * d \in Nat /\ (i - 1) * d <= (c - 2) * d /\ ((i - 1) + 1) * d = ((i - 1) * d) + d
      BY <2>1, <2>6, <3>1, Product
    <3>3. (c - 2) * d \in Nat
      BY <2>1, <2>6, Product
    <3>4. (i - 1) * d \in 0..W
      BY <2>1, <2>10, <3>2, <3>3
    <3>5. Asks(i + 1) = ((i - 1) * d) + d /\ Asks(i) = (i - 1) * d
      BY <3>1, <3>2 DEF Asks
    <3> QED BY <3>4, <3>5
  <2>12. Asks(c - 1) = (c - 2) * d /\ Asks(1) = 0
    <3>1. (c - 1) - 1 = c - 2 /\ 1 - 1 = 0 /\ 0 * d = 0
      BY <2>1, <2>6
    <3> QED BY <3>1 DEF Asks
  <2> QED BY <2>1, <2>6, <2>10, <2>11, <2>12
<1> QED BY <1>1, <1>2, <1>3, <1>4, <1>6

\* A table is asked for only once.
LEMMA NotDone ==
    ASSUME phase # "done" PROVE StepsReachTheEnd
BY DEF StepsReachTheEnd, Estimator!StepsReachTheEnd

LEMMA EstimateStarts ==
    ASSUME NEW l \in Seq([flag : STRING, number : Number]), NEW f \in [Estimator!Valued -> Number],
           NEW n \in Nat, NEW room, Estimator!Start(l, f, n, room)
    PROVE  EstimateInv
<1>1. phase = "args"
  BY DEF Estimator!Start
<1>2. line = l /\ flags = f /\ step = n /\ argument = 1
  BY DEF Estimator!Start
<1>3. recorded \in [Estimator!Offload -> Number] /\ options \in [Estimator!Valued -> Number]
  BY DEF Estimator!Start, Number
<1> QED BY <1>1, <1>2, <1>3, NotDone DEF EstimateInv

LEMMA EstimateInitially == CommandInit => EstimateInv
<1>1. ASSUME NothingToEstimate PROVE EstimateInv
  <2>1. <<>> \in Seq([flag : STRING, number : Number]) /\ [f \in Estimator!Valued |-> Unset] \in [Estimator!Valued -> Number]
    BY DEF Number
  <2> QED BY <1>1, <2>1, EstimateStarts DEF NothingToEstimate
<1>2. ASSUME Estimator!Init PROVE EstimateInv
  <2>1. PICK i \in Inputs : \E room \in BOOLEAN : Estimator!Start(i.line, i.flags, i.step, room)
    BY <1>2 DEF Estimator!Init
  <2>2. i.line \in Seq([flag : STRING, number : Number]) /\ i.flags \in [Estimator!Valued -> Number] /\ i.step \in Nat
    BY EstimateAssumption DEF Number
  <2> QED BY <2>1, <2>2, EstimateStarts
<1> QED BY <1>1, <1>2 DEF CommandInit

\* The steps are those of the options, which a goroutine only adds to.
LEMMA SameSteps ==
    ASSUME options' = options, step' = step
    PROVE  /\ Estimator!Whole' = Estimator!Whole /\ Estimator!Step' = Estimator!Step /\ Estimator!Count' = Estimator!Count
           /\ \A i : Asks(i)' = Asks(i)
BY DEF Estimator!Whole, Estimator!Step, Estimator!Count, Asks, Estimator!Estimated, Estimator!Full

LEMMA ReadArgKeeps == EstimateInv /\ Estimator!ReadArg => EstimateInv'
<1> SUFFICES ASSUME EstimateInv, Estimator!ReadArg PROVE EstimateInv'
  OBVIOUS
<1>1. phase' = "args" /\ line' = line /\ flags' = flags /\ step' = step
  BY DEF Estimator!ReadArg, Estimator!input
<1>2. StepsReachTheEnd'
  BY <1>1 DEF StepsReachTheEnd, Estimator!StepsReachTheEnd
<1>3. argument' \in Nat \ {0}
  BY DEF Estimator!ReadArg, EstimateInv
<1> DEFINE f == line[argument].flag
           valued == f \in Estimator!Valued /\ argument < Len(line)
           v == IF valued THEN line[argument + 1].number ELSE Unset
<1>4. /\ options' = IF v # Unset /\ f \in Estimator!Option THEN [options EXCEPT ![f] = v] ELSE options
      /\ recorded' = IF v # Unset /\ f \in Estimator!Offload THEN [recorded EXCEPT ![f] = v] ELSE recorded
  BY DEF Estimator!ReadArg
<1>5. v \in Number
  <2>1. CASE valued
    <3>1. argument + 1 \in 1..Len(line) /\ line \in Seq([flag : STRING, number : Number])
      <4>1. Len(line) \in Nat
        BY LenProperties DEF EstimateInv
      <4> QED BY <2>1, <4>1 DEF EstimateInv
    <3>2. line[argument + 1] \in [flag : STRING, number : Number]
      BY <3>1, ElementOfSeq
    <3> QED BY <2>1, <3>2
  <2>2. CASE ~valued
    BY <2>2 DEF Number
  <2> QED BY <2>1, <2>2
<1> HIDE DEF v, f
<1>6. options' \in [Estimator!Valued -> Number] /\ recorded' \in [Estimator!Offload -> Number]
  BY <1>4, <1>5 DEF EstimateInv
<1> QED BY <1>1, <1>2, <1>3, <1>6 DEF EstimateInv

LEMMA OverrideKeeps == EstimateInv /\ Estimator!Override => EstimateInv'
<1> SUFFICES ASSUME EstimateInv, Estimator!Override PROVE EstimateInv'
  OBVIOUS
<1>1. /\ phase' = "estimate" /\ line' = line /\ flags' = flags /\ step' = step
      /\ argument' = argument /\ recorded' = recorded
  BY DEF Estimator!Override, Estimator!input
<1>2. StepsReachTheEnd'
  BY <1>1 DEF StepsReachTheEnd, Estimator!StepsReachTheEnd
<1>3. \A f \in Estimator!Offload : Estimator!FlagFirst(f) \in Number
  BY DEF Estimator!FlagFirst, EstimateInv, Estimator!Valued
<1>4. \A f \in Estimator!Option : Estimator!Flag(f) \in Number
  <2>1. Estimator!Default \in [Estimator!Option -> Int]
    BY DEF Estimator!Default, Estimator!Option
  <2> QED BY <2>1 DEF Estimator!Flag, EstimateInv, Estimator!Valued, Number
<1>5. options' = [f \in Estimator!Valued |->
          IF f \in Estimator!Offload THEN Estimator!FlagFirst(f)
          ELSE IF Estimator!Flag(f) > 0 THEN Estimator!Flag(f) ELSE options[f]]
  BY DEF Estimator!Override
<1>6. options' \in [Estimator!Valued -> Number]
  BY <1>3, <1>4, <1>5 DEF EstimateInv, Estimator!Valued
<1> QED BY <1>1, <1>2, <1>6 DEF EstimateInv

\* The phase alone changes, or the rows with it: what is left is the rows.
LEMMA RowsKeep ==
    ASSUME EstimateInv, line' = line, flags' = flags, step' = step, argument' = argument,
           recorded' = recorded, options' = options,
           phase' = "rows" => RowsFilled', StepsReachTheEnd'
    PROVE  EstimateInv'
BY DEF EstimateInv

LEMMA OverrideFailsKeeps == EstimateInv /\ Estimator!OverrideFails => EstimateInv'
<1> SUFFICES ASSUME EstimateInv, Estimator!OverrideFails PROVE EstimateInv'
  OBVIOUS
<1>1. phase' = "failed"
  BY DEF Estimator!OverrideFails
<1>2. StepsReachTheEnd'
  BY <1>1 DEF StepsReachTheEnd, Estimator!StepsReachTheEnd
<1> QED BY <1>1, <1>2, RowsKeep DEF Estimator!OverrideFails, Estimator!input

LEMMA WithoutStepsKeeps == EstimateInv /\ Estimator!WithoutSteps => EstimateInv'
<1> SUFFICES ASSUME EstimateInv, Estimator!WithoutSteps PROVE EstimateInv'
  OBVIOUS
<1>1. phase' = "done" /\ Len(rows') = 1
  BY DEF Estimator!WithoutSteps
<1>2. StepsReachTheEnd'
  BY <1>1 DEF StepsReachTheEnd, Estimator!StepsReachTheEnd
<1> QED BY <1>1, <1>2, RowsKeep DEF Estimator!WithoutSteps, Estimator!input

LEMMA SpawnKeeps == EstimateInv /\ Estimator!Spawn => EstimateInv'
<1> SUFFICES ASSUME EstimateInv, Estimator!Spawn PROVE EstimateInv'
  OBVIOUS
<1>1. phase' = "rows" /\ options' = options /\ step' = step
  BY DEF Estimator!Spawn, Estimator!input
<1>2. StepsReachTheEnd'
  BY <1>1 DEF StepsReachTheEnd, Estimator!StepsReachTheEnd
<1>3. /\ Estimator!Whole' = Estimator!Whole /\ Estimator!Step' = Estimator!Step /\ Estimator!Count' = Estimator!Count
      /\ \A i : Asks(i)' = Asks(i)
  BY <1>1, SameSteps
<1>4. Estimator!Whole \in Row
  BY StepsAre
<1>5. /\ rows' = [i \in 1..Estimator!Count |-> Estimator!Whole]
      /\ own' = [i \in 1..Estimator!Count |-> Unset]
      /\ rowpc' = [i \in 1..Estimator!Count |-> "append"]
      /\ Estimator!Step < Estimator!Whole.layers
  BY DEF Estimator!Spawn
<1>6. RowsFilled'
  BY <1>3, <1>4, <1>5 DEF RowsFilled, Number
<1> QED BY <1>2, <1>6, RowsKeep DEF Estimator!Spawn, Estimator!input

LEMMA AppendLayersKeeps == ASSUME NEW i \in DOMAIN rowpc, EstimateInv, Estimator!AppendLayers(i) PROVE EstimateInv'
<1>1. phase = "rows" /\ phase' = "rows" /\ options' = options /\ step' = step /\ rows' = rows
  BY DEF Estimator!AppendLayers, Estimator!input
<1>2. StepsReachTheEnd'
  BY <1>1 DEF StepsReachTheEnd, Estimator!StepsReachTheEnd
<1>3. /\ Estimator!Whole' = Estimator!Whole /\ Estimator!Step' = Estimator!Step /\ Estimator!Count' = Estimator!Count
      /\ \A j : Asks(j)' = Asks(j)
  BY <1>1, SameSteps
<1>4. own' = [own EXCEPT ![i] = Asks(i)] /\ rowpc' = [rowpc EXCEPT ![i] = "estimate"] /\ rowpc[i] = "append"
  BY DEF Estimator!AppendLayers, Asks, Estimator!InPlace
<1>5. RowsFilled
  BY <1>1 DEF EstimateInv
<1>6. RowsFilled'
  BY <1>1, <1>3, <1>4, <1>5 DEF RowsFilled
<1> QED BY <1>2, <1>6, RowsKeep DEF Estimator!AppendLayers, Estimator!input

LEMMA FillRowKeeps == ASSUME NEW i \in DOMAIN rowpc, EstimateInv, Estimator!FillRow(i) PROVE EstimateInv'
<1>1. phase = "rows" /\ phase' = "rows" /\ options' = options /\ step' = step /\ own' = own
  BY DEF Estimator!FillRow, Estimator!input
<1>2. StepsReachTheEnd'
  BY <1>1 DEF StepsReachTheEnd, Estimator!StepsReachTheEnd
<1>3. /\ Estimator!Whole' = Estimator!Whole /\ Estimator!Step' = Estimator!Step /\ Estimator!Count' = Estimator!Count
      /\ \A j : Asks(j)' = Asks(j)
  BY <1>1, SameSteps
<1>4. RowsFilled
  BY <1>1 DEF EstimateInv
<1>5. /\ rows' = [rows EXCEPT ![i] = Estimator!Estimated(own[i])]
      /\ rowpc' = [rowpc EXCEPT ![i] = "done"] /\ rowpc[i] = "estimate"
  BY DEF Estimator!FillRow, Estimator!InPlace
<1>6. i \in 1..Estimator!Count /\ own[i] = Asks(i)
  BY <1>4, <1>5 DEF RowsFilled
<1>7. Asks(i) \in Number
  BY <1>4, <1>6, StepsAre DEF RowsFilled, Number, Asks
<1>8. Estimator!Estimated(Asks(i)) \in Row
  BY <1>7, EstimatedType
<1>9. \A n : Estimator!Estimated(n)' = Estimator!Estimated(n)
  BY DEF Estimator!Estimated, Estimator!Full
<1>10. RowsFilled'
  BY <1>1, <1>3, <1>4, <1>5, <1>6, <1>8, <1>9 DEF RowsFilled
<1> QED BY <1>2, <1>10, RowsKeep DEF Estimator!FillRow, Estimator!input

\* When every goroutine has ended, the rows go up by the step.
LEMMA WaitKeeps == EstimateInv /\ Estimator!Wait => EstimateInv'
<1> SUFFICES ASSUME EstimateInv, Estimator!Wait PROVE EstimateInv'
  OBVIOUS
<1>1. phase = "rows" /\ phase' = "done" /\ options' = options /\ step' = step
  BY DEF Estimator!Wait, Estimator!input
<1>2. RowsFilled
  BY <1>1 DEF EstimateInv
<1>3. Estimator!Whole' = Estimator!Whole
  BY <1>1, SameSteps
<1>4. PICK W, d, c, more : /\ W = Estimator!Whole.layers /\ d = Estimator!Step /\ c = Estimator!Count
                           /\ more = IF Estimator!Whole.full THEN 1 ELSE 0
  OBVIOUS
<1>5. /\ Estimator!Whole \in Row /\ W \in 0..Blocks /\ Blocks \in Nat /\ d = step /\ d \in Nat \ {0}
      /\ c \in Nat \ {0, 1} /\ (c - 2) * d < W + more /\ W + more <= ((c - 2) * d) + d
      /\ \A i \in 1..(c - 1) : Asks(i) \in 0..W /\ (i + 1 < c => Asks(i + 1) = Asks(i) + d)
      /\ Asks(c - 1) = (c - 2) * d /\ Asks(1) = 0
  BY <1>2, <1>4, StepsAre DEF RowsFilled
<1>6. rows \in [1..c -> Row] /\ Len(rows) = c
  BY <1>2, <1>4, <1>5 DEF RowsFilled
<1>7. rows' = [rows EXCEPT ![c] = Estimator!Whole]
  BY <1>6 DEF Estimator!Wait
<1>8. Len(rows') = c /\ rows'[c] = Estimator!Whole /\ \A i \in 1..(c - 1) : rows'[i] = rows[i]
  BY <1>5, <1>6, <1>7
<1>9. ASSUME NEW i \in 1..(c - 1) PROVE Estimator!Shown(rows'[i]) = Asks(i)
  <2>1. i \in 1..c /\ Asks(i) \in 0..Blocks
    BY <1>5
  <2>2. rows[i] = Estimator!Estimated(Asks(i))
    BY <1>2, <1>4, <2>1 DEF RowsFilled, Estimator!Wait
  <2>3. rows'[i] = [layers |-> Asks(i), full |-> FALSE]
    BY <1>8, <2>1, <2>2, EstimatedType DEF Number
  <2> QED BY <2>3 DEF Estimator!Shown
<1>10. Estimator!Shown(rows'[c]) = W + more
  BY <1>4, <1>5, <1>8 DEF Estimator!Shown, Row
<1>11. StepsReachTheEnd'
  <2>1. \A row : Estimator!Shown(row)' = Estimator!Shown(row)
    BY DEF Estimator!Shown
  <2>2. Estimator!Shown(rows'[1]) = 0
    BY <1>5, <1>9
  <2>3. W + more \in Int
    BY <1>4, <1>5
  <2>4. ASSUME NEW i \in 1..(c - 1)
        PROVE  /\ Estimator!Shown(rows'[i]) < Estimator!Shown(rows'[i + 1])
               /\ Estimator!Shown(rows'[i + 1]) - Estimator!Shown(rows'[i]) <= step
               /\ i + 1 < c => Estimator!Shown(rows'[i + 1]) - Estimator!Shown(rows'[i]) = step
    <3>1. Asks(i) \in Nat
      BY <1>5
    <3>2. CASE i + 1 < c
      <4>1. i + 1 \in 1..(c - 1)
        BY <1>5, <3>2
      <4>2. Estimator!Shown(rows'[i + 1]) = Asks(i) + d
        BY <1>5, <1>9, <3>2, <4>1
      <4> QED BY <1>5, <1>9, <3>1, <4>2
    <3>3. CASE ~(i + 1 < c)
      <4>1. i = c - 1 /\ i + 1 = c
        BY <1>5, <3>3
      <4>2. Estimator!Shown(rows'[i]) = (c - 2) * d
        BY <1>5, <1>9, <4>1
      <4>3. Estimator!Shown(rows'[i + 1]) = W + more
        BY <1>10, <4>1
      <4>4. PICK x \in Nat : x = (c - 2) * d
        BY <1>5, <1>9, <3>1, <4>2
      <4> QED BY <1>5, <2>3, <4>1, <4>2, <4>3, <4>4
    <3> QED BY <3>2, <3>3
  <2> QED BY <1>1, <1>3, <1>8, <2>1, <2>2, <2>4 DEF StepsReachTheEnd, Estimator!StepsReachTheEnd
<1> QED BY <1>1, <1>11, RowsKeep DEF Estimator!Wait, Estimator!input

LEMMA EstimateKeeps == EstimateInv /\ [CommandNext]_<<vars, estimating, command>> => EstimateInv'
<1> SUFFICES ASSUME EstimateInv, [CommandNext]_<<vars, estimating, command>> PROVE EstimateInv'
  OBVIOUS
<1>1. ASSUME UNCHANGED estimating PROVE EstimateInv'
  <2>1. phase' = phase /\ options' = options /\ step' = step /\ rows' = rows /\ own' = own /\ rowpc' = rowpc
    BY <1>1 DEF estimating
  <2>2. /\ Estimator!Whole' = Estimator!Whole /\ Estimator!Step' = Estimator!Step /\ Estimator!Count' = Estimator!Count
        /\ \A i : Asks(i)' = Asks(i)
    BY <2>1, SameSteps
  <2>3. \A n : Estimator!Estimated(n)' = Estimator!Estimated(n) /\ Estimator!Shown(n)' = Estimator!Shown(n)
    BY DEF Estimator!Estimated, Estimator!Full, Estimator!Shown
  <2>4. phase' = "rows" => RowsFilled'
    BY <2>1, <2>2, <2>3 DEF EstimateInv, RowsFilled
  <2>5. StepsReachTheEnd'
    BY <2>1, <2>2, <2>3 DEF EstimateInv, StepsReachTheEnd, Estimator!StepsReachTheEnd
  <2> QED BY <1>1, <2>4, <2>5, RowsKeep DEF estimating
<1>2. ASSUME Estimator!Next PROVE EstimateInv'
  BY <1>2, ReadArgKeeps, OverrideKeeps, OverrideFailsKeeps, WithoutStepsKeeps, SpawnKeeps, WaitKeeps,
     AppendLayersKeeps, FillRowKeeps DEF Estimator!Next
<1> QED BY <1>1, <1>2 DEF CommandNext

\* The table of `estimate` goes from nothing to everything, by the step, whatever the
\* order of its goroutines, the layers of the model and the step (estimate.go).
THEOREM StepsReachTheEndHolds == CommandSpec => []StepsReachTheEnd
<1>1. EstimateInv => StepsReachTheEnd
  BY DEF EstimateInv
<1> QED BY <1>1, EstimateInitially, EstimateKeeps, PTL DEF CommandSpec

(***************************************************************************)
(* A process that runs either command                                      *)
(***************************************************************************)

LEMMA NothingToRemoveHolds == NothingToRemove => IInv /\ Sure
<1> SUFFICES ASSUME NothingToRemove PROVE IInv /\ Sure
  OBVIOUS
<1>1. args = <<>> /\ Index = {} /\ Ids = {}
  BY DEF NothingToRemove, Index, Ids
<1>2. Listed = {}
  BY DEF NothingToRemove, Listed
<1>3. TypeOK
  <2>1. <<>> \in Seq(Arg)
    OBVIOUS
  <2>2. link \in [Path -> Digest \cup {None}] /\ before \in [links : [Path -> Digest \cup {None}], listed : SUBSET Path]
    BY DEF NothingToRemove
  <2>3. found \in [Ids -> SUBSET Path] /\ answer \in [Index -> {"none", "removed", "failed", "not found", "not unique"}]
    BY <1>1 DEF NothingToRemove
  <2> QED BY <1>1, <2>1, <2>2, <2>3 DEF NothingToRemove, TypeOK
<1>4. Underway /\ NothingIsOrphaned
  <2>1. /\ config \cup layers = {} /\ before.links = link /\ at = 0
        /\ doing = "none" /\ pc = "parse"
    BY DEF NothingToRemove
  <2> QED BY <1>1, <2>1 DEF Underway, NothingIsOrphaned
<1>5. NamesFirst /\ RightTarget /\ AllFound /\ Reported
  BY <1>1 DEF NothingToRemove, NamesFirst, RightTarget, AllFound, Reported
<1>6. OnlyCovered
  BY <1>2 DEF NothingToRemove, OnlyCovered
<1> QED BY <1>3, <1>4, <1>5, <1>6 DEF IInv, Sure

\* Whichever command the process runs, `remove` orphans nothing, and reports and
\* removes what is meant (remove.go).
THEOREM CommandsRemoveSafely == CommandSpec => [](NothingIsOrphaned /\ RemovedIsGone /\ OnlyNamedOrLast)
<1>1. CommandInit => IInv /\ Sure
  BY InitHolds, SureInit, NothingToRemoveHolds DEF CommandInit
<1>2. CommandSpec => [](IInv /\ Sure)
  <2>1. ASSUME IInv, Sure, [CommandNext]_<<vars, estimating, command>> PROVE IInv' /\ Sure'
    <3>1. [Next]_vars
      BY <2>1 DEF CommandNext
    <3> QED BY <2>1, <3>1, NextKeeps, SureKeeps
  <2> QED BY <1>1, <2>1, PTL DEF CommandSpec
<1>3. IInv /\ Sure => NothingIsOrphaned /\ RemovedIsGone /\ OnlyNamedOrLast
  BY SureMeans DEF IInv
<1> QED BY <1>2, <1>3, PTL
=============================================================================
