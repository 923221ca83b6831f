---------------------------- MODULE StoreProofs ----------------------------
(***************************************************************************)
(* A cached layer that lacks a part is being written or was abandoned, for *)
(* any number of commands, tags, models, layers and parts, with or without *)
(* failures.                                                               *)
(* With commands that do not overlap, a link is made to whole models only, *)
(* and a removal by ID takes the model of no other tag.                    *)
(***************************************************************************)
EXTENDS Store, FiniteSetTheorems, TLAPS

USE DEF Part, Path, File, NoFile

\* AtLayer, for one process.
Mine(p) ==
    /\ pc[p] \notin {"idle", "walk"} => path[p] \in Path
    /\ pc[p] \notin {"idle", "look", "get", "load", "readlink"} => got[p] \in Digest
    /\ pc[p] = "bury" => was[p] \in Digest
    /\ pc[p] \in {"create", "apply", "complete"} => at[p] <= Ends(got[p])
    /\ pc[p] = "create" => part[p] = 1 /\ ~cached[p]
    /\ pc[p] = "apply" => part[p] <= PartCount

\* What a step of p leaves alone.
OthersSame(p) ==
    \A q \in Process \ {p} :
        /\ pc'[q] = pc[q] /\ path'[q] = path[q] /\ got'[q] = got[q] /\ was'[q] = was[q]
        /\ at'[q] = at[q] /\ part'[q] = part[q] /\ cached'[q] = cached[q]

LEMMA MineIsEnough ==
    ASSUME AtLayer, NEW p \in Process, OthersSame(p), Mine(p)' PROVE AtLayer'
<1> SUFFICES ASSUME NEW q \in Process PROVE Mine(q)'
  BY DEF AtLayer, Mine
<1>1. CASE q = p
  BY <1>1
<1>2. CASE q # p
  <2>1. Mine(q)
    BY DEF AtLayer, Mine
  <2> QED BY <1>2, <2>1 DEF OthersSame, Mine, Ends
<1> QED BY <1>1, <1>2

\* A process that writes to no blob, at a step that changes none.
LEMMA QuietStep ==
    ASSUME TypeOK, Owed, NEW p \in Process, OthersSame(p), pc[p] # "apply" \/ cached[p],
           UNCHANGED <<blob, tmp, abandoned>>
    PROVE  Owed'
<1> SUFFICES ASSUME NEW x \in Layer \ abandoned, NEW file \in {blob[x], tmp[x]},
                    NEW n \in Part \ file.parts, file.there
             PROVE  \E q \in file.writers : Writing(q, x)' /\ part'[q] <= n
  BY DEF Owed
<1>1. PICK q \in file.writers : Writing(q, x) /\ part[q] <= n
  BY DEF Owed
<1>2. q \in Process /\ q # p
  BY <1>1 DEF TypeOK, Writing
<1>3. pc'[q] = pc[q] /\ got'[q] = got[q] /\ at'[q] = at[q] /\ part'[q] = part[q] /\ cached'[q] = cached[q]
  BY <1>2 DEF OthersSame
<1> QED BY <1>1, <1>3 DEF Writing, Current

LEMMA CurrentType ==
    ASSUME TypeOK, AtLayer, NEW p \in Process,
           pc[p] \in {"create", "apply", "complete"} \/ (pc[p] = "open" /\ at[p] <= Ends(got[p]))
    PROVE  got[p] \in Digest /\ Current(p) \in Layer
<1>1. got[p] \in Digest /\ at[p] \in Nat \ {0} /\ at[p] <= Ends(got[p])
  BY DEF AtLayer, TypeOK
<1>2. Layers[got[p]] \in Seq(Layer)
  BY <1>1, StoreAssumption
<1>3. at[p] \in 1..Len(Layers[got[p]])
  BY <1>1, <1>2 DEF Ends
<1> QED BY <1>1, <1>2, <1>3 DEF Current

\* Where a process goes is a label, however it gets there.
LEMMA Moves ==
    ASSUME TypeOK, NEW p \in Process, NEW l \in Label, NEW how \in Outcome
    PROVE  /\ Goto(p, l) => pc' \in [Process -> Label] /\ outcome' \in [Process -> Outcome]
           /\ Return(p, how) => pc' \in [Process -> Label] /\ outcome' \in [Process -> Outcome]
           /\ Pulled(p, how) => pc' \in [Process -> Label] /\ outcome' \in [Process -> Outcome]
<1>1. "idle" \in Label /\ "load" \in Label
  BY DEF Label
<1>2. pc \in [Process -> Label] /\ outcome \in [Process -> Outcome]
  BY DEF TypeOK
<1>3. Goto(p, l) => pc' \in [Process -> Label] /\ outcome' \in [Process -> Outcome]
  BY <1>2 DEF Goto
<1>4. Return(p, how) => pc' \in [Process -> Label] /\ outcome' \in [Process -> Outcome]
  BY <1>1, <1>2 DEF Return
<1>5. Pulled(p, how) => pc' \in [Process -> Label] /\ outcome' \in [Process -> Outcome]
  BY <1>1, <1>2, <1>4 DEF Pulled, Goto
<1> QED BY <1>3, <1>4, <1>5

Turn(p) == TypeOK' /\ OthersSame(p) /\ Mine(p)'

LEMMA PullTurn ==
    ASSUME IInv, NEW p \in Process,
           Start(p) \/ Look(p) \/ GetRemote(p) \/ Relink(p) \/ WriteConfig(p) \/ Load(p)
    PROVE  Turn(p)
<1> USE DEF IInv, Turn, local, store, blobs, Label, Outcome
<1>1. CASE Start(p)
  BY <1>1, StoreAssumption DEF Start, TypeOK, AtLayer, OthersSame, Mine
<1>2. CASE Look(p)
  <2>1. TypeOK'
    <3>1. pc' \in [Process -> Label] /\ outcome' \in [Process -> Outcome]
      BY <1>2, Moves DEF Look
    <3> QED BY <1>2, <3>1 DEF Look, TypeOK
  <2>2. OthersSame(p)
    BY <1>2 DEF Look, Pulled, Goto, Return, TypeOK, OthersSame
  <2>3. Mine(p)'
    BY <1>2 DEF Look, Pulled, Goto, Return, TypeOK, AtLayer, Mine, Ends
  <2> QED BY <2>1, <2>2, <2>3
<1>3. CASE GetRemote(p)
  <2>1. TypeOK'
    <3>1. pc' \in [Process -> Label] /\ outcome' \in [Process -> Outcome]
      BY <1>3, Moves DEF GetRemote
    <3>2. got' \in [Process -> Digest \cup {None}]
      BY <1>3 DEF GetRemote, TypeOK
    <3> QED BY <1>3, <3>1, <3>2 DEF GetRemote, TypeOK
  <2>2. OthersSame(p)
    BY <1>3 DEF GetRemote, Goto, TypeOK, OthersSame
  <2>3. Mine(p)'
    BY <1>3 DEF GetRemote, Goto, TypeOK, AtLayer, Mine
  <2> QED BY <2>1, <2>2, <2>3
<1>4. CASE Relink(p)
  <2>0. path[p] \in Path /\ link[path[p]] \in Digest \cup {None}
    BY <1>4 DEF Relink, TypeOK, AtLayer
  <2>1. TypeOK'
    <3>1. pc' \in [Process -> Label] /\ outcome' \in [Process -> Outcome]
      BY <1>4, Moves DEF Relink
    <3>2. was' \in [Process -> Digest \cup {None}]
      BY <1>4, <2>0 DEF Relink, TypeOK
    <3> QED BY <1>4, <3>1, <3>2 DEF Relink, TypeOK
  <2>2. OthersSame(p)
    BY <1>4, <2>0 DEF Relink, Pulled, Goto, Return, TypeOK, OthersSame
  <2>3. Mine(p)'
    <3>1. CASE link[path[p]] = None
      <4>1. got[p] \in Digest /\ link[path[p]] # got[p]
        BY <1>4, <3>1, StoreAssumption DEF Relink, AtLayer
      <4>2. Goto(p, "config")
        BY <1>4, <3>1, <4>1 DEF Relink
      <4>3. pc'[p] = "config" /\ path' = path /\ got' = got
        BY <1>4, <4>2 DEF Relink, Goto, TypeOK
      <4> QED BY <2>0, <4>1, <4>3 DEF Mine
    <3>2. CASE link[path[p]] # None /\ link[path[p]] = got[p]
      BY <1>4, <2>0, <3>2 DEF Relink, Pulled, Goto, Return, TypeOK, AtLayer, Mine
    <3>3. CASE link[path[p]] # None /\ link[path[p]] # got[p]
      BY <1>4, <2>0, <3>3 DEF Relink, Goto, TypeOK, AtLayer, Mine
    <3> QED BY <3>1, <3>2, <3>3
  <2> QED BY <2>1, <2>2, <2>3
<1>5. CASE WriteConfig(p)
  <2>0. got[p] \in Digest
    BY <1>5 DEF WriteConfig, TypeOK, AtLayer
  <2>1. TypeOK'
    BY <1>5, <2>0 DEF WriteConfig, Goto, TypeOK
  <2>2. OthersSame(p)
    BY <1>5, <2>0 DEF WriteConfig, Goto, TypeOK, OthersSame
  <2>3. Mine(p)'
    BY <1>5, <2>0 DEF WriteConfig, Goto, TypeOK, AtLayer, Mine, Ends
  <2> QED BY <2>1, <2>2, <2>3
<1>6. CASE Load(p)
  BY <1>6 DEF Load, Return, TypeOK, AtLayer, OthersSame, Mine
<1> QED BY <1>1, <1>2, <1>3, <1>4, <1>5, <1>6

LEMMA LinkTurn ==
    ASSUME IInv, NEW p \in Process,
           Bury(p) \/ Restore(p) \/ RemoveOldLink(p) \/ Symlink(p) \/ RestoreFails(p) \/ RemoveLink(p)
    PROVE  Turn(p)
<1> USE DEF IInv, Turn, local, store, blobs, Label, Outcome
<1>1. CASE Bury(p)
  <2>0. path[p] \in Path /\ was[p] \in Digest /\ link[path[p]] \in Digest \cup {None}
    BY <1>1 DEF Bury, TypeOK, AtLayer
  <2>1. TypeOK'
    <3>1. pc' \in [Process -> Label] /\ outcome' \in [Process -> Outcome]
      BY <1>1, Moves DEF Bury
    <3>2. link' \in [Path -> Digest \cup {None}]
      <4> DEFINE moved == [link EXCEPT ![was[p]] = link[path[p]]]
      <4>1. link \in [Path -> Digest \cup {None}]
        BY DEF TypeOK
      <4>2. moved \in [Path -> Digest \cup {None}]
        BY <2>0, <4>1
      <4>3. link' = link \/ link' = [moved EXCEPT ![path[p]] = None]
        BY <1>1 DEF Bury
      <4> HIDE DEF moved
      <4> QED BY <2>0, <4>1, <4>2, <4>3
    <3> QED BY <1>1, <3>1, <3>2 DEF Bury, TypeOK
  <2>2. OthersSame(p)
    BY <1>1, <2>0 DEF Bury, Goto, Return, TypeOK, OthersSame
  <2>3. Mine(p)'
    <3>1. path' = path /\ got' = got /\ pc'[p] \in {"idle", "restore"}
      BY <1>1 DEF Bury, Goto, Return, TypeOK
    <3>2. got[p] \in Digest
      BY <1>1 DEF Bury, AtLayer
    <3> QED BY <2>0, <3>1, <3>2 DEF Mine
  <2> QED BY <2>1, <2>2, <2>3
<1>2. CASE Restore(p)
  <2>0. path[p] \in Path /\ got[p] \in Digest /\ link[got[p]] \in Digest \cup {None}
    BY <1>2 DEF Restore, TypeOK, AtLayer
  <2>1. TypeOK'
    <3>1. pc' \in [Process -> Label] /\ outcome' \in [Process -> Outcome]
      BY <1>2, Moves DEF Restore
    <3>2. link' \in [Path -> Digest \cup {None}]
      <4> DEFINE moved == [link EXCEPT ![path[p]] = link[got[p]]]
      <4>1. link \in [Path -> Digest \cup {None}]
        BY DEF TypeOK
      <4>2. moved \in [Path -> Digest \cup {None}]
        BY <2>0, <4>1
      <4>3. link' = link \/ link' = [moved EXCEPT ![got[p]] = None]
        BY <1>2 DEF Restore
      <4> HIDE DEF moved
      <4> QED BY <2>0, <4>1, <4>2, <4>3
    <3> QED BY <1>2, <3>1, <3>2 DEF Restore, TypeOK
  <2>2. OthersSame(p)
    BY <1>2, <2>0 DEF Restore, Pulled, Goto, Return, TypeOK, OthersSame
  <2>3. Mine(p)'
    BY <1>2, <2>0 DEF Restore, Pulled, Goto, Return, TypeOK, AtLayer, Mine, Ends
  <2> QED BY <2>1, <2>2, <2>3
<1>3. CASE RemoveOldLink(p)
  BY <1>3 DEF RemoveOldLink, Goto, TypeOK, AtLayer, OthersSame, Mine
<1>4. CASE Symlink(p)
  <2>0. path[p] \in Path /\ got[p] \in Digest
    BY <1>4 DEF Symlink, TypeOK, AtLayer
  <2>1. TypeOK'
    <3>1. pc' \in [Process -> Label] /\ outcome' \in [Process -> Outcome]
      BY <1>4, Moves DEF Symlink
    <3>2. link' \in [Path -> Digest \cup {None}]
      BY <1>4, <2>0 DEF Symlink, TypeOK
    <3> QED BY <1>4, <3>1, <3>2 DEF Symlink, TypeOK
  <2>2. OthersSame(p)
    BY <1>4, <2>0 DEF Symlink, Pulled, Goto, Return, TypeOK, OthersSame
  <2>3. Mine(p)'
    BY <1>4, <2>0 DEF Symlink, Pulled, Goto, Return, TypeOK, AtLayer, Mine, Ends
  <2> QED BY <2>1, <2>2, <2>3
<1>5. CASE RestoreFails(p)
  BY <1>5 DEF RestoreFails, Goto, TypeOK, AtLayer, OthersSame, Mine
<1>6. CASE RemoveLink(p)
  BY <1>6 DEF RemoveLink, Return, TypeOK, AtLayer, OthersSame, Mine
<1> QED BY <1>1, <1>2, <1>3, <1>4, <1>5, <1>6

LEMMA RemoveTurn ==
    ASSUME IInv, NEW p \in Process,
           ReadLink(p) \/ Walk(p) \/ RemoveLayers(p) \/ RemoveConfig(p)
    PROVE  Turn(p)
<1> USE DEF IInv, Turn, local, store, blobs, Label, Outcome
<1>1. CASE ReadLink(p)
  <2>0. path[p] \in Path /\ link[path[p]] \in Digest \cup {None}
    BY <1>1 DEF ReadLink, TypeOK, AtLayer
  <2>1. TypeOK'
    <3>1. pc' \in [Process -> Label] /\ outcome' \in [Process -> Outcome]
      BY <1>1, Moves DEF ReadLink
    <3>2. got' \in [Process -> Digest \cup {None}]
      BY <1>1, <2>0 DEF ReadLink, TypeOK
    <3> QED BY <1>1, <3>1, <3>2 DEF ReadLink, TypeOK
  <2>2. OthersSame(p)
    BY <1>1, <2>0 DEF ReadLink, Goto, Return, TypeOK, OthersSame
  <2>3. Mine(p)'
    BY <1>1, <2>0 DEF ReadLink, Goto, Return, TypeOK, AtLayer, Mine, Ends
  <2> QED BY <2>1, <2>2, <2>3
<1>2. CASE Walk(p)
  <2>0. Unique(got[p]) \subseteq Path
    BY <1>2 DEF Walk, Unique, Matches, TypeOK, AtLayer
  <2>1. TypeOK'
    <3>1. pc' \in [Process -> Label] /\ outcome' \in [Process -> Outcome]
      BY <1>2, Moves DEF Walk
    <3>2. path' \in [Process -> Path \cup {None}]
      BY <1>2, <2>0 DEF Walk, TypeOK
    <3> QED BY <1>2, <3>1, <3>2 DEF Walk, TypeOK
  <2>2. OthersSame(p)
    BY <1>2, <2>0 DEF Walk, Goto, Return, TypeOK, OthersSame
  <2>3. Mine(p)'
    <3>1. CASE Unique(got[p]) = {}
      BY <1>2, <3>1 DEF Walk, Return, TypeOK, Mine
    <3>2. CASE Unique(got[p]) # {}
      <4>1. PICK q \in Path : path' = [path EXCEPT ![p] = q]
        BY <1>2, <2>0, <3>2 DEF Walk
      <4>2. path'[p] \in Path /\ pc'[p] = "rmlayers" /\ got'[p] = got[p] /\ got[p] \in Digest
        BY <1>2, <3>2, <4>1 DEF Walk, Goto, TypeOK, AtLayer
      <4> QED BY <4>2 DEF Mine
    <3> QED BY <3>1, <3>2
  <2> QED BY <2>1, <2>2, <2>3
<1>3. CASE RemoveLayers(p)
  BY <1>3 DEF RemoveLayers, Goto, TypeOK, AtLayer, OthersSame, Mine
<1>4. CASE RemoveConfig(p)
  BY <1>4 DEF RemoveConfig, Goto, TypeOK, AtLayer, OthersSame, Mine
<1> QED BY <1>1, <1>2, <1>3, <1>4

-----------------------------------------------------------------------------
\* The steps on a layer.

LEMMA WriteType ==
    ASSUME NEW p \in Process, NEW file \in File, part[p] \in Part
    PROVE  /\ Write(file, p) \in File
           /\ Write(file, p).there = file.there /\ Write(file, p).writers = file.writers
           /\ file.parts \subseteq Write(file, p).parts
           /\ p \in file.writers => part[p] \in Write(file, p).parts
BY DEF Write

LEMMA CloseType ==
    ASSUME NEW p \in Process, NEW file \in File
    PROVE  /\ Close(file, p) \in File
           /\ Close(file, p).there = file.there /\ Close(file, p).parts = file.parts
           /\ Close(file, p).writers = file.writers \ {p}
BY DEF Close

LEMMA ExtractType ==
    ASSUME TypeOK, NEW p \in Process, got[p] \in Digest, Current(p) \in Layer, part[p] \in Part, Extract(p)
    PROVE  extracted' \in [Digest -> [Layer -> [by : Process \cup {None}, parts : SUBSET Part]]]
<1> DEFINE X == [by : Process \cup {None}, parts : SUBSET Part]
<1>1. extracted \in [Digest -> [Layer -> X]]
  BY DEF TypeOK
<1>2. ASSUME NEW file \in X PROVE Entry(file, p) \in X
  <2>1. CASE part[p] = 1
    BY <2>1 DEF Entry
  <2>2. CASE part[p] # 1
    BY <2>2 DEF Entry
  <2> QED BY <2>1, <2>2
<1> HIDE DEF X
<1>3. extracted[got[p]] \in [Layer -> X] /\ extracted[got[p]][Current(p)] \in X
  BY <1>1
<1>4. [extracted[got[p]] EXCEPT ![Current(p)] = Entry(@, p)] \in [Layer -> X]
  BY <1>2, <1>3
<1>5. extracted' \in [Digest -> [Layer -> X]]
  BY <1>1, <1>4 DEF Extract
<1> QED BY <1>5 DEF X

LEMMA NextLayerType ==
    ASSUME TypeOK, NEW p \in Process
    PROVE  /\ NextLayer(p) => at' \in [Process -> Nat \ {0}] /\ pc'[p] = "open"
           /\ part' = [part EXCEPT ![p] = @ + 1] =>
                part' \in [Process -> Nat \ {0}] /\ part'[p] = part[p] + 1
<1>1. \A n \in Nat \ {0} : n + 1 \in Nat \ {0}
  OBVIOUS
<1>2. at \in [Process -> Nat \ {0}] /\ part \in [Process -> Nat \ {0}] /\ pc \in [Process -> Label]
  BY DEF TypeOK
<1>3. NextLayer(p) => at' \in [Process -> Nat \ {0}] /\ pc'[p] = "open"
  BY <1>1, <1>2 DEF NextLayer, Goto
<1>4. part' = [part EXCEPT ![p] = @ + 1] =>
        part' \in [Process -> Nat \ {0}] /\ part'[p] = part[p] + 1
  BY <1>1, <1>2
<1> QED BY <1>3, <1>4

LEMMA LayerTurn ==
    ASSUME IInv, NEW p \in Process,
           Open(p) \/ Create(p) \/ Download(p) \/ Complete(p) \/ ReadBlob(p) \/ BlobEnds(p) \/ Stop(p)
    PROVE  Turn(p)
<1> USE DEF IInv, Turn, local, store, blobs, Label, Outcome
<1>1. CASE Open(p)
  <2>0. got[p] \in Digest /\ Current(p) \in Layer /\ PartCount \in Nat \ {0}
    BY <1>1, CurrentType, StoreAssumption DEF Open
  <2>1. TypeOK'
    <3>1. pc' \in [Process -> Label] /\ outcome' \in [Process -> Outcome]
      BY <1>1, Moves DEF Open
    <3>2. cached' \in [Process -> BOOLEAN]
      BY <1>1, <2>0 DEF Open, TypeOK
    <3> QED BY <1>1, <3>1, <3>2 DEF Open, TypeOK
  <2>2. OthersSame(p)
    BY <1>1, <2>0 DEF Open, Goto, TypeOK, OthersSame
  <2>3. Mine(p)'
    <3>1. pc'[p] \in {"apply", "create"} /\ (pc'[p] = "create" => ~cached'[p]) /\ part'[p] = 1
      BY <1>1, <2>0 DEF Open, Goto, TypeOK
    <3>2. path'[p] \in Path /\ got'[p] \in Digest /\ at'[p] <= Ends(got'[p])
      BY <1>1, <2>0 DEF Open, AtLayer
    <3> QED BY <2>0, <3>1, <3>2 DEF Mine, Ends
  <2> QED BY <2>1, <2>2, <2>3
<1>2. CASE Create(p)
  <2>0. got[p] \in Digest /\ Current(p) \in Layer /\ PartCount \in Nat \ {0}
    BY <1>2, CurrentType, StoreAssumption DEF Create
  <2>1. TypeOK'
    BY <1>2, <2>0 DEF Create, Goto, TypeOK
  <2>2. OthersSame(p)
    BY <1>2, <2>0 DEF Create, Goto, TypeOK, OthersSame
  <2>3. Mine(p)'
    <3>1. pc'[p] = "apply" /\ part'[p] = 1
      BY <1>2, <2>0 DEF Create, Goto, TypeOK, AtLayer
    <3>2. path'[p] \in Path /\ got'[p] \in Digest /\ at'[p] <= Ends(got'[p])
      BY <1>2, <2>0 DEF Create, AtLayer
    <3> QED BY <2>0, <3>1, <3>2 DEF Mine, Ends
  <2> QED BY <2>1, <2>2, <2>3
<1>3. CASE Download(p)
  <2>0. got[p] \in Digest /\ Current(p) \in Layer /\ part[p] \in Part
    BY <1>3, CurrentType DEF Download, TypeOK, AtLayer
  <2>1. TypeOK'
    <3>1. pc' \in [Process -> Label] /\ outcome' \in [Process -> Outcome]
      BY <1>3, Moves DEF Download
    <3>2. extracted' \in [Digest -> [Layer -> [by : Process \cup {None}, parts : SUBSET Part]]]
      BY <1>3, <2>0, ExtractType DEF Download
    <3>3. blob' \in [Layer -> File] /\ tmp' \in [Layer -> File]
      BY <1>3, <2>0, WriteType DEF Download, TypeOK
    <3>4. part' \in [Process -> Nat \ {0}]
      BY <1>3, NextLayerType DEF Download
    <3> QED BY <1>3, <3>1, <3>2, <3>3, <3>4 DEF Download, TypeOK
  <2>2. OthersSame(p)
    BY <1>3, <2>0 DEF Download, Goto, TypeOK, OthersSame
  <2>3. Mine(p)'
    <3>1. pc'[p] = IF LastPart(p) THEN "complete" ELSE "apply"
      BY <1>3 DEF Download, Goto, TypeOK
    <3>2. path'[p] \in Path /\ got'[p] \in Digest /\ at'[p] <= Ends(got'[p])
      BY <1>3, <2>0 DEF Download, AtLayer
    <3>3. part'[p] = part[p] + 1
      BY <1>3, NextLayerType DEF Download
    <3>4. ~LastPart(p) => part'[p] <= PartCount
      BY <2>0, <3>3, StoreAssumption DEF LastPart
    <3> QED BY <3>1, <3>2, <3>4 DEF Mine, Ends
  <2> QED BY <2>1, <2>2, <2>3
<1>4. CASE Complete(p)
  <2>0. got[p] \in Digest /\ Current(p) \in Layer
    BY <1>4, CurrentType DEF Complete
  <2>1. TypeOK'
    <3>1. pc' \in [Process -> Label] /\ outcome' \in [Process -> Outcome]
      BY <1>4, Moves DEF Complete, NextLayer
    <3>2. blob' \in [Layer -> File] /\ tmp' \in [Layer -> File]
      <4>1. blob \in [Layer -> File] /\ tmp \in [Layer -> File] /\ NoFile \in File
        BY DEF TypeOK
      <4>2. Close(blob[Current(p)], p) \in File /\ Close(tmp[Current(p)], p) \in File
        BY <2>0, <4>1, CloseType
      <4> HIDE DEF File, NoFile
      <4> QED BY <1>4, <2>0, <4>1, <4>2 DEF Complete
    <3>3. at' \in [Process -> Nat \ {0}]
      BY <1>4, NextLayerType DEF Complete, TypeOK
    <3> QED BY <1>4, <3>1, <3>2, <3>3 DEF Complete, TypeOK
  <2>2. OthersSame(p)
    BY <1>4, <2>0 DEF Complete, NextLayer, Goto, Return, TypeOK, OthersSame
  <2>3. Mine(p)'
    <3>1. path' = path /\ got' = got
      BY <1>4 DEF Complete
    <3>2. path[p] \in Path
      BY <1>4 DEF Complete, AtLayer
    <3>3. CASE tmp[Current(p)].there
      <4>1. pc'[p] = "open"
        BY <1>4, <3>3, NextLayerType DEF Complete
      <4> QED BY <2>0, <3>1, <3>2, <4>1 DEF Mine
    <3>4. CASE ~tmp[Current(p)].there
      <4>1. pc'[p] = "idle"
        BY <1>4, <3>4 DEF Complete, Return, TypeOK
      <4> QED BY <4>1 DEF Mine
    <3> QED BY <3>3, <3>4
  <2> QED BY <2>1, <2>2, <2>3
<1>5. CASE ReadBlob(p)
  <2>0. got[p] \in Digest /\ Current(p) \in Layer /\ part[p] \in Part
    BY <1>5, CurrentType DEF ReadBlob, TypeOK, AtLayer
  <2>1. TypeOK'
    <3>1. pc' \in [Process -> Label] /\ outcome' \in [Process -> Outcome]
      BY <1>5, Moves DEF ReadBlob, NextLayer
    <3>2. extracted' \in [Digest -> [Layer -> [by : Process \cup {None}, parts : SUBSET Part]]]
      BY <1>5, <2>0, ExtractType DEF ReadBlob
    <3>3. at' \in [Process -> Nat \ {0}]
      BY <1>5, NextLayerType DEF ReadBlob, TypeOK
    <3>4. part' \in [Process -> Nat \ {0}]
      BY <1>5, NextLayerType DEF ReadBlob
    <3> QED BY <1>5, <3>1, <3>2, <3>3, <3>4 DEF ReadBlob, TypeOK
  <2>2. OthersSame(p)
    BY <1>5, <2>0 DEF ReadBlob, NextLayer, Goto, TypeOK, OthersSame
  <2>3. Mine(p)'
    <3>1. path'[p] \in Path /\ got'[p] = got[p]
      BY <1>5 DEF ReadBlob, AtLayer
    <3>2. CASE part[p] = PartCount
      BY <1>5, <2>0, <3>1, <3>2, NextLayerType DEF ReadBlob, Mine
    <3>3. CASE part[p] # PartCount
      <4>1. pc'[p] = "apply" /\ at'[p] <= Ends(got'[p])
        BY <1>5, <3>1, <3>3 DEF ReadBlob, Goto, TypeOK, AtLayer
      <4>2. part'[p] = part[p] + 1
        BY <1>5, NextLayerType DEF ReadBlob
      <4>3. part'[p] <= PartCount
        BY <2>0, <3>3, <4>2, StoreAssumption
      <4> QED BY <2>0, <3>1, <4>1, <4>3 DEF Mine, Ends
    <3> QED BY <3>2, <3>3
  <2> QED BY <2>1, <2>2, <2>3
<1>6. CASE BlobEnds(p)
  <2>0. got[p] \in Digest
    BY <1>6 DEF BlobEnds, AtLayer
  <2>1. TypeOK'
    <3>1. pc' \in [Process -> Label] /\ outcome' \in [Process -> Outcome]
      BY <1>6, Moves DEF BlobEnds, NextLayer
    <3>2. at' \in [Process -> Nat \ {0}]
      BY <1>6, NextLayerType DEF BlobEnds, TypeOK
    <3> QED BY <1>6, <3>1, <3>2 DEF BlobEnds, TypeOK
  <2>2. OthersSame(p)
    BY <1>6, <2>0 DEF BlobEnds, NextLayer, Goto, Return, TypeOK, OthersSame
  <2>3. Mine(p)'
    <3>1. path' = path /\ got' = got /\ path[p] \in Path
      BY <1>6 DEF BlobEnds, AtLayer
    <3>2. pc'[p] \in {"idle", "open"}
      BY <1>6, NextLayerType DEF BlobEnds, Return, TypeOK
    <3> QED BY <2>0, <3>1, <3>2 DEF Mine
  <2> QED BY <2>1, <2>2, <2>3
<1>7. CASE Stop(p)
  <2>1. TypeOK'
    <3>1. pc' \in [Process -> Label] /\ outcome' \in [Process -> Outcome]
      BY <1>7, Moves DEF Stop
    <3>2. blob' \in [Layer -> File] /\ tmp' \in [Layer -> File]
      BY <1>7, CloseType DEF Stop, TypeOK
    <3>3. config' \in [Digest -> {"none", "torn", "whole"}]
      BY <1>7 DEF Stop, TypeOK, AtLayer
    <3> QED BY <1>7, <3>1, <3>2, <3>3 DEF Stop, TypeOK
  <2>2. OthersSame(p)
    BY <1>7 DEF Stop, Return, TypeOK, OthersSame
  <2>3. Mine(p)'
    BY <1>7 DEF Stop, Return, TypeOK, Mine
  <2> QED BY <2>1, <2>2, <2>3
<1> QED BY <1>1, <1>2, <1>3, <1>4, <1>5, <1>6, <1>7

-----------------------------------------------------------------------------
\* Owed, at the steps that change a blob.

LEMMA OtherWriter ==
    ASSUME NEW p \in Process, OthersSame(p), NEW q \in Process \ {p}, NEW x, Writing(q, x)
    PROVE  Writing(q, x)' /\ part'[q] = part[q]
BY DEF OthersSame, Writing, Current

\* A file of layer x before the step: who owes part n to it.
LEMMA Creditor ==
    ASSUME TypeOK, Owed, NEW x \in Layer \ abandoned, NEW file \in {blob[x], tmp[x]}, file.there,
           NEW n \in Part \ file.parts
    PROVE  \E q \in Process : q \in file.writers /\ Writing(q, x) /\ part[q] <= n
BY DEF Owed, TypeOK

LEMMA CreateOwes ==
    ASSUME IInv, NEW p \in Process, Create(p), OthersSame(p)
    PROVE  Owed'
<1> USE DEF IInv
<1>1. pc[p] = "create" /\ part[p] = 1 /\ ~cached[p] /\ Current(p) \in Layer
  BY CurrentType DEF Create, AtLayer
<1>2. pc'[p] = "apply" /\ part' = part /\ cached' = cached /\ got' = got /\ at' = at
      /\ blob' = blob /\ abandoned' = abandoned
  BY DEF Create, Goto, local, TypeOK
<1>3. \A x \in Layer : tmp'[x] = IF x = Current(p)
        THEN [there |-> TRUE, parts |-> {}, writers |-> tmp[x].writers \cup {p}] ELSE tmp[x]
  BY DEF Create, TypeOK
<1> SUFFICES ASSUME NEW x \in Layer \ abandoned, NEW file \in {blob'[x], tmp'[x]},
                    NEW n \in Part \ file.parts, file.there
             PROVE  \E q \in file.writers : Writing(q, x)' /\ part'[q] <= n
  BY <1>2 DEF Owed
<1>4. CASE file \in {blob[x], tmp[x]}
  <2>1. PICK q \in Process : q \in file.writers /\ Writing(q, x) /\ part[q] <= n
    BY <1>4, Creditor
  <2>2. q # p
    BY <1>1, <2>1 DEF Writing
  <2> QED BY <2>1, <2>2, OtherWriter
<1>5. CASE file \notin {blob[x], tmp[x]}
  <2>1. x = Current(p) /\ p \in file.writers
    <3>1. file = tmp'[x] /\ tmp'[x] # tmp[x]
      BY <1>2, <1>5
    <3>2. x = Current(p)
      BY <1>3, <3>1
    <3>3. file = [there |-> TRUE, parts |-> {}, writers |-> tmp[x].writers \cup {p}]
      BY <1>3, <3>1, <3>2
    <3> QED BY <3>2, <3>3
  <2>2. Writing(p, x)' /\ part'[p] <= n
    BY <1>1, <1>2, <2>1 DEF Writing, Current
  <2> QED BY <2>1, <2>2
<1> QED BY <1>4, <1>5

LEMMA DownloadOwes ==
    ASSUME IInv, NEW p \in Process, Download(p), OthersSame(p)
    PROVE  Owed'
<1> USE DEF IInv
<1>1. Current(p) \in Layer /\ part[p] \in Part /\ ~cached[p]
  BY CurrentType DEF Download, TypeOK, AtLayer
<1>2. pc'[p] = (IF LastPart(p) THEN "complete" ELSE "apply") /\ cached' = cached /\ got' = got /\ at' = at
      /\ abandoned' = abandoned
  BY DEF Download, Goto, TypeOK
<1>3. part'[p] = part[p] + 1
  BY NextLayerType DEF Download
<1>4. \A x \in Layer : /\ blob'[x] = IF x = Current(p) THEN Write(blob[x], p) ELSE blob[x]
                       /\ tmp'[x] = IF x = Current(p) THEN Write(tmp[x], p) ELSE tmp[x]
  BY DEF Download, TypeOK
<1> SUFFICES ASSUME NEW x \in Layer \ abandoned, NEW file \in {blob'[x], tmp'[x]},
                    NEW n \in Part \ file.parts, file.there
             PROVE  \E q \in file.writers : Writing(q, x)' /\ part'[q] <= n
  BY <1>2 DEF Owed
<1>5. PICK old \in {blob[x], tmp[x]} : file = IF x = Current(p) THEN Write(old, p) ELSE old
  BY <1>4
<1>6. old \in File
  BY DEF TypeOK
<1>7. /\ old.there /\ n \notin old.parts /\ file.writers = old.writers
      /\ x = Current(p) /\ p \in old.writers => n # part[p]
  BY <1>1, <1>5, <1>6, WriteType
<1>8. PICK q \in Process : q \in old.writers /\ Writing(q, x) /\ part[q] <= n
  BY <1>7, Creditor
<1>9. CASE q # p
  BY <1>7, <1>8, <1>9, OtherWriter
<1>10. CASE q = p
  <2>1. x = Current(p) /\ n # part[p]
    BY <1>7, <1>8, <1>10 DEF Writing
  <2>2. part[p] < n /\ n <= PartCount
    BY <1>1, <1>8, <1>10, <2>1, StoreAssumption
  <2>3. ~LastPart(p) /\ part'[p] <= n
    BY <1>1, <1>3, <2>2, StoreAssumption DEF LastPart
  <2>4. Writing(p, x)'
    BY <1>1, <1>2, <2>1, <2>3 DEF Writing, Current
  <2> QED BY <1>7, <1>8, <1>10, <2>3, <2>4
<1> QED BY <1>9, <1>10

LEMMA CompleteOwes ==
    ASSUME IInv, NEW p \in Process, Complete(p), OthersSame(p)
    PROVE  Owed'
<1> USE DEF IInv
<1>1. Current(p) \in Layer /\ pc[p] = "complete" /\ abandoned' = abandoned
  BY CurrentType DEF Complete
<1>2. \A x \in Layer :
        /\ blob'[x] \in {blob[x], Close(blob[x], p), Close(tmp[x], p)}
        /\ tmp'[x] \in {tmp[x], NoFile}
  BY <1>1 DEF Complete, TypeOK
<1> SUFFICES ASSUME NEW x \in Layer \ abandoned, NEW file \in {blob'[x], tmp'[x]},
                    NEW n \in Part \ file.parts, file.there
             PROVE  \E q \in file.writers : Writing(q, x)' /\ part'[q] <= n
  BY <1>1 DEF Owed
<1>3. PICK old \in {blob[x], tmp[x]} : file = old \/ file = Close(old, p)
  BY <1>2
<1>4. old \in File
  BY DEF TypeOK
<1>5. old.there /\ n \notin old.parts /\ old.writers \ {p} \subseteq file.writers
  BY <1>3, <1>4, CloseType
<1>6. PICK q \in Process : q \in old.writers /\ Writing(q, x) /\ part[q] <= n
  BY <1>5, Creditor
<1>7. q # p
  BY <1>1, <1>6 DEF Writing
<1> QED BY <1>5, <1>6, <1>7, OtherWriter

LEMMA StopOwes ==
    ASSUME IInv, NEW p \in Process, Stop(p), OthersSame(p)
    PROVE  Owed'
<1> USE DEF IInv
<1>1. \A x \in Layer : blob'[x] = Close(blob[x], p) /\ tmp'[x] = Close(tmp[x], p)
  BY DEF Stop
<1>2. abandoned' = abandoned \cup {x \in Layer : Writing(p, x)}
  BY DEF Stop
<1> SUFFICES ASSUME NEW x \in Layer \ abandoned', NEW file \in {blob'[x], tmp'[x]},
                    NEW n \in Part \ file.parts, file.there
             PROVE  \E q \in file.writers : Writing(q, x)' /\ part'[q] <= n
  BY DEF Owed
<1>3. PICK old \in {blob[x], tmp[x]} : file = Close(old, p)
  BY <1>1
<1>4. old \in File
  BY DEF TypeOK
<1>5. old.there /\ n \notin old.parts /\ file.writers = old.writers \ {p}
  BY <1>3, <1>4, CloseType
<1>6. x \in Layer \ abandoned /\ ~Writing(p, x)
  BY <1>2
<1>7. PICK q \in Process : q \in old.writers /\ Writing(q, x) /\ part[q] <= n
  BY <1>5, <1>6, Creditor
<1>8. q # p
  BY <1>6, <1>7
<1> QED BY <1>5, <1>7, <1>8, OtherWriter

-----------------------------------------------------------------------------

LEMMA InitIInv == Init => IInv
<1> SUFFICES ASSUME Init PROVE IInv
  OBVIOUS
<1>1. TypeOK
  BY StoreAssumption DEF Init, TypeOK, Label, Outcome
<1>2. AtLayer
  BY DEF Init, AtLayer
<1>3. Owed
  BY DEF Init, Owed
<1> QED BY <1>1, <1>2, <1>3 DEF IInv

LEMMA NextIInv == IInv /\ [Next]_vars => IInv'
<1> SUFFICES ASSUME IInv, [Next]_vars PROVE IInv'
  OBVIOUS
<1>1. ASSUME NEW p \in Process, Step(p) PROVE IInv'
  <2>1. Turn(p)
    BY <1>1, PullTurn, LinkTurn, RemoveTurn, LayerTurn DEF Step
  <2>2. AtLayer'
    BY <2>1, MineIsEnough DEF Turn, IInv
  <2>3. Owed'
    <3>1. CASE Create(p)
      BY <2>1, <3>1, CreateOwes DEF Turn
    <3>2. CASE Download(p)
      BY <2>1, <3>2, DownloadOwes DEF Turn
    <3>3. CASE Complete(p)
      BY <2>1, <3>3, CompleteOwes DEF Turn
    <3>4. CASE Stop(p)
      BY <2>1, <3>4, StopOwes DEF Turn
    <3>5. CASE ~(Create(p) \/ Download(p) \/ Complete(p) \/ Stop(p))
      <4>1. (pc[p] # "apply" \/ cached[p]) /\ UNCHANGED <<blob, tmp, abandoned>>
        BY <1>1, <3>5 DEF Step, Start, Look, GetRemote, Relink, Bury, Restore, WriteConfig, Open,
             ReadBlob, BlobEnds, RemoveOldLink, Symlink, Load, ReadLink, Walk, RemoveLayers,
             RemoveConfig, RemoveLink, RestoreFails, store, blobs
      <4> QED BY <2>1, <4>1, QuietStep DEF Turn, IInv
    <3> QED BY <3>1, <3>2, <3>3, <3>4, <3>5
  <2> QED BY <2>1, <2>2, <2>3 DEF Turn, IInv
<1>2. CASE UNCHANGED vars
  BY <1>2 DEF vars, store, blobs, local, IInv, TypeOK, AtLayer, Owed, Ends, Writing, Current
<1> QED BY <1>1, <1>2 DEF Next

\* For any number of commands, tags, models, layers and parts, with or without
\* failures: the state of the store and of its commands is sound, and every
\* missing part of a cached layer has a writer that will still come to it.
THEOREM StoreInvariant == Spec => []IInv
<1>1. Init => IInv
  BY InitIInv
<1>2. IInv /\ [Next]_vars => IInv'
  BY NextIInv
<1> QED BY <1>1, <1>2, PTL DEF Spec

\* The layer cache of pull.go: a blob that lacks a part is still being written,
\* unless a download of its layer was cut short, although pulls that overlap
\* share and truncate one `.tmp` file.
THEOREM TornBlobsAreWritten == Spec => []TornIsBeingWritten
<1>1. IInv => TornIsBeingWritten
  <2> SUFFICES ASSUME IInv, NEW x \in Layer \ abandoned, NEW file \in {blob[x], tmp[x]},
                      file.there, file.parts # Part
               PROVE  \E p \in file.writers : Writing(p, x)
    BY DEF TornIsBeingWritten
  <2>1. file \in File
    BY DEF IInv, TypeOK
  <2>2. PICK n \in Part : n \notin file.parts
    BY <2>1
  <2>3. n \in Part \ file.parts
    BY <2>2
  <2> QED BY <2>3, Creditor DEF IInv
<1> QED BY <1>1, StoreInvariant, PTL

-----------------------------------------------------------------------------
\* One command after another.

IsSequential == \A p, q \in Process : p = q

\* Nobody has a cached blob open, and it lacks nothing.
Cache(x) == blob[x].writers = {} /\ (blob[x].there => blob[x].parts = Part)

\* What of its layer a pull has copied so far.
Source(p, x) ==
    IF cached[p] THEN blob[x].there
    ELSE tmp[x].there /\ p \in tmp[x].writers /\ tmp[x].parts = 1..(part[p] - 1)
Copied(p, x) ==
    /\ pc[p] = "apply" => Source(p, x)
    /\ pc[p] = "apply" /\ part[p] > 1 => extracted[got[p]][x] = [by |-> p, parts |-> 1..(part[p] - 1)]
    /\ pc[p] = "complete" => tmp[x].there /\ tmp[x].parts = Part /\ extracted[got[p]][x].parts = Part

\* The layers before the one that is being copied are whole, but for an earlier
\* occurrence of that one.
Behind(p) ==
    /\ config[got[p]] = "whole"
    /\ \A i \in 1..Ends(got[p]) : i < at[p] =>
         \/ pc[p] # "open" /\ Layers[got[p]][i] = Current(p)
         \/ extracted[got[p]][Layers[got[p]][i]].parts = Part

\* A pull finds no link in its way, nor makes a tombstone of one.
Unhindered(p) ==
    /\ pc[p] \in {"get", "relink"} /\ kind[p] # "force" => link[path[p]] = None
    /\ pc[p] = "relink" => kind[p] # "force"
    /\ pc[p] \notin {"bury", "restore"}

\* A removal by ID goes on with the only link to its model.
ById(p) ==
    kind[p] = "removeid" =>
        /\ pc[p] \in {"idle", "walk", "rmlayers", "rmconfig", "rmlink"}
        /\ pc[p] \notin {"idle", "walk"} => \A q \in Path : link[q] = got[p] => q = path[p]

Solo(p) ==
    /\ \A x \in Layer : Cache(x)
    /\ pc[p] \in {"apply", "complete"} => Copied(p, Current(p))
    /\ pc[p] \in {"open", "create", "apply", "complete"} => Behind(p)
    /\ pc[p] = "symlink" => got[p] \in Whole
    /\ Unhindered(p)
    /\ ById(p)

LEMMA Alone ==
    ASSUME IsSequential, NEW p \in Process PROVE \A q \in Process : q = p
BY DEF IsSequential

\* A label at which a pull has nothing to lose.
Resting == {"idle", "look", "load", "readlink", "config"}

\* A step to such a label that changes no blob.
LEMMA Rests ==
    ASSUME NEW p \in Process, Solo(p), UNCHANGED blob, pc'[p] \in Resting,
           kind'[p] = "removeid" => pc'[p] = "idle"
    PROVE  Solo(p)'
BY DEF Solo, Resting, Unhindered, ById, Cache

LEMMA SoloPulls ==
    ASSUME IInv, NEW p \in Process, Solo(p),
           Start(p) \/ Look(p) \/ GetRemote(p) \/ Relink(p) \/ Bury(p) \/ Restore(p) \/ RestoreFails(p) \/ Load(p)
    PROVE  Solo(p)'
<1> USE DEF IInv, local, store, blobs
<1>1. CASE Start(p)
  <2>1. UNCHANGED blob
    BY <1>1 DEF Start
  <2>2. CASE kind'[p] = "removeid"
    <3>1. pc'[p] = "walk"
      BY <1>1, <2>2 DEF Start, TypeOK
    <3> QED BY <2>1, <2>2, <3>1 DEF Solo, Unhindered, ById, Cache
  <2>3. CASE kind'[p] # "removeid"
    <3>1. pc'[p] \in {"look", "readlink"}
      BY <1>1, <2>3 DEF Start, TypeOK
    <3> QED BY <2>1, <2>3, <3>1, Rests DEF Resting
  <2> QED BY <2>2, <2>3
<1>2. CASE Look(p)
  <2>1. kind[p] # "removeid" /\ UNCHANGED <<blob, link, kind, path>>
    BY <1>2 DEF Look, Solo, ById
  <2>2. CASE link[path[p]] # None /\ kind[p] # "force"
    <3>1. pc'[p] \in {"idle", "load"}
      BY <1>2, <2>2 DEF Look, Pulled, Goto, Return, TypeOK
    <3> QED BY <2>1, <3>1, Rests DEF Resting
  <2>3. CASE ~(link[path[p]] # None /\ kind[p] # "force")
    <3>1. pc'[p] = "get"
      BY <1>2, <2>3 DEF Look, Goto, TypeOK
    <3> QED BY <2>1, <2>3, <3>1 DEF Solo, Unhindered, ById, Cache
  <2> QED BY <2>2, <2>3
<1>3. CASE GetRemote(p)
  <2>1. kind[p] # "removeid" /\ UNCHANGED <<blob, link, kind, path>> /\ pc[p] = "get"
    BY <1>3 DEF GetRemote, Solo, ById
  <2>2. pc'[p] = IF kind[p] = "force" THEN "config" ELSE "relink"
    BY <1>3 DEF GetRemote, Goto, TypeOK
  <2>3. CASE kind[p] = "force"
    BY <2>1, <2>2, <2>3, Rests DEF Resting
  <2>4. CASE kind[p] # "force"
    BY <2>1, <2>2, <2>4 DEF Solo, Unhindered, ById, Cache
  <2> QED BY <2>3, <2>4
<1>4. CASE Relink(p)
  <2>1. kind[p] # "removeid" /\ link[path[p]] = None /\ UNCHANGED <<blob, kind>>
    BY <1>4 DEF Relink, Solo, ById, Unhindered
  <2>2. got[p] \in Digest /\ link[path[p]] # got[p]
    BY <1>4, <2>1, StoreAssumption DEF Relink, AtLayer
  <2>3. pc'[p] = "config"
    BY <1>4, <2>1, <2>2 DEF Relink, Goto, TypeOK
  <2> QED BY <2>1, <2>3, Rests DEF Resting
<1>5. CASE Bury(p) \/ Restore(p) \/ RestoreFails(p)
  BY <1>5 DEF Bury, Restore, RestoreFails, Solo, Unhindered
<1>6. CASE Load(p)
  <2>1. UNCHANGED blob /\ pc'[p] = "idle"
    BY <1>6 DEF Load, Return, TypeOK
  <2> QED BY <2>1, Rests DEF Resting
<1> QED BY <1>1, <1>2, <1>3, <1>4, <1>5, <1>6

LEMMA SoloRemoves ==
    ASSUME IsFiniteSet(Path), IInv, NEW p \in Process, Solo(p),
           ReadLink(p) \/ Walk(p) \/ RemoveLayers(p) \/ RemoveConfig(p) \/ RemoveLink(p)
    PROVE  Solo(p)'
<1> USE DEF IInv, local, store, blobs
<1>1. CASE ReadLink(p)
  <2>1. kind'[p] # "removeid" /\ UNCHANGED blob
    BY <1>1 DEF ReadLink, Solo, ById
  <2>2. pc'[p] \in {"idle", "rmlayers"}
    BY <1>1 DEF ReadLink, Goto, Return, TypeOK
  <2> QED BY <2>1, <2>2 DEF Solo, Unhindered, ById, Cache
<1>2. CASE Walk(p)
  <2>1. UNCHANGED <<blob, link, got, kind>> /\ pc[p] = "walk"
    BY <1>2 DEF Walk
  <2>2. CASE Unique(got[p]) = {}
    <3>1. pc'[p] = "idle"
      BY <1>2, <2>2 DEF Walk, Return, TypeOK
    <3> QED BY <2>1, <3>1, Rests DEF Resting
  <2>3. CASE Unique(got[p]) # {}
    <3>1. pc'[p] = "rmlayers" /\ path'[p] \in Unique(got[p])
      <4>1. pc'[p] = "rmlayers"
        BY <1>2, <2>3 DEF Walk, Goto, TypeOK
      <4>2. PICK q \in Unique(got[p]) : path' = [path EXCEPT ![p] = q]
        BY <1>2, <2>3 DEF Walk
      <4> QED BY <4>1, <4>2 DEF TypeOK
    <3>2. \A q \in Path : link[q] = got[p] => q = path'[p]
      <4>1. path'[p] \in Matches(got[p]) /\ Cardinality(Matches(got[p])) = 1
        BY <3>1 DEF Unique
      <4>2. Matches(got[p]) \subseteq Path
        BY DEF Matches
      <4>3. IsFiniteSet(Matches(got[p]))
        BY <4>2, FS_Subset
      <4>4. PICK r : Matches(got[p]) = {r}
        BY <4>1, <4>3, FS_Singleton
      <4> QED BY <4>1, <4>4 DEF Matches
    <3> QED BY <2>1, <3>1, <3>2 DEF Solo, Unhindered, ById, Cache
  <2> QED BY <2>2, <2>3
<1>3. CASE RemoveLayers(p) \/ RemoveConfig(p)
  <2>1. UNCHANGED <<blob, link, got, kind, path>> /\ pc[p] \in {"rmlayers", "rmconfig"}
    BY <1>3 DEF RemoveLayers, RemoveConfig
  <2>2. pc'[p] \in {"rmconfig", "rmlink"}
    BY <1>3 DEF RemoveLayers, RemoveConfig, Goto, TypeOK
  <2> QED BY <2>1, <2>2 DEF Solo, Unhindered, ById, Cache
<1>4. CASE RemoveLink(p)
  <2>1. UNCHANGED blob /\ pc'[p] = "idle"
    BY <1>4 DEF RemoveLink, Return, TypeOK
  <2> QED BY <2>1, Rests DEF Resting
<1> QED BY <1>1, <1>2, <1>3, <1>4

\* The layers of a model are layers.
LEMMA LayerOf ==
    ASSUME NEW d \in Digest, NEW i \in 1..Ends(d) PROVE Layers[d][i] \in Layer
<1>1. Layers[d] \in Seq(Layer)
  BY StoreAssumption
<1> QED BY <1>1 DEF Ends

LEMMA SoloBegins ==
    ASSUME IInv, NEW p \in Process, Solo(p),
           WriteConfig(p) \/ Open(p) \/ RemoveOldLink(p) \/ Symlink(p)
    PROVE  Solo(p)'
<1> USE DEF IInv, local, store, blobs
<1>0. kind[p] # "removeid" /\ UNCHANGED <<blob, kind, got>>
  BY DEF WriteConfig, Open, RemoveOldLink, Symlink, Solo, ById
<1>1. CASE WriteConfig(p)
  <2>1. got[p] \in Digest /\ at'[p] = 1 /\ pc'[p] = "open" /\ config'[got[p]] = "whole"
    BY <1>1 DEF WriteConfig, Goto, TypeOK, AtLayer
  <2>2. Behind(p)'
    BY <1>0, <2>1 DEF Behind
  <2> QED BY <1>0, <2>1, <2>2 DEF Solo, Unhindered, ById, Cache
<1>2. CASE Open(p)
  <2>1. UNCHANGED <<at, config, extracted>> /\ part'[p] = 1 /\ cached'[p] = blob[Current(p)].there
    BY <1>2 DEF Open, TypeOK
  <2>2. pc[p] = "open" /\ pc'[p] = IF cached'[p] THEN "apply" ELSE "create"
    BY <1>2 DEF Open, Goto, TypeOK
  <2>3. Behind(p)'
    BY <1>0, <2>1, <2>2 DEF Solo, Behind, Ends
  <2>4. pc'[p] = "apply" => Copied(p, Current(p))'
    <3>1. Current(p)' = Current(p)
      BY <1>0, <2>1 DEF Current
    <3> QED BY <1>0, <2>1, <2>2, <3>1 DEF Copied, Source
  <2>5. pc'[p] \in {"apply", "create"}
    BY <2>2
  <2> QED BY <1>0, <2>3, <2>4, <2>5 DEF Solo, Unhindered, ById, Cache
<1>3. CASE RemoveOldLink(p)
  <2>1. pc'[p] = "symlink" /\ pc[p] = "open" /\ at[p] > Ends(got[p]) /\ UNCHANGED <<config, extracted>>
    BY <1>3 DEF RemoveOldLink, Goto, TypeOK
  <2>2. got[p] \in Whole'
    <3>1. got[p] \in Digest /\ config'[got[p]] = "whole"
      BY <2>1 DEF Solo, Behind, AtLayer
    <3>2. DOMAIN Layers[got[p]] = 1..Ends(got[p]) /\ Ends(got[p]) \in Nat /\ at[p] \in Nat
      BY <3>1, StoreAssumption DEF Ends, TypeOK
    <3>3. ASSUME NEW i \in DOMAIN Layers[got[p]]
          PROVE  extracted'[got[p]][Layers[got[p]][i]].parts = Part
      BY <2>1, <3>2 DEF Solo, Behind
    <3> QED BY <3>1, <3>3 DEF Whole
  <2> QED BY <1>0, <2>1, <2>2 DEF Solo, Unhindered, ById, Cache
<1>4. CASE Symlink(p)
  <2>1. pc'[p] \in {"idle", "load"}
    BY <1>4 DEF Symlink, Pulled, Goto, Return, TypeOK
  <2> QED BY <1>0, <2>1, Rests DEF Resting
<1> QED BY <1>1, <1>2, <1>3, <1>4

\* The layers behind a pull stay whole when it extracts the current one.
LEMMA StaysBehind ==
    ASSUME IInv, NEW p \in Process, Behind(p), pc[p] # "open", got[p] \in Digest,
           UNCHANGED <<config, got, at>>, Current(p) \in Layer,
           \A x \in Layer \ {Current(p)} : extracted'[got[p]][x] = extracted[got[p]][x],
           pc'[p] # "open"
    PROVE  Behind(p)'
<1>1. config'[got'[p]] = "whole"
  BY DEF Behind
<1>2. ASSUME NEW i \in 1..Ends(got[p]), i < at[p], Layers[got[p]][i] # Current(p)
      PROVE  extracted'[got[p]][Layers[got[p]][i]].parts = Part
  <2>1. Layers[got[p]][i] \in Layer
    BY LayerOf
  <2> QED BY <1>2, <2>1 DEF Behind
<1>3. Current(p)' = Current(p) /\ Ends(got'[p]) = Ends(got[p])
  BY DEF Current, Ends
<1> QED BY <1>1, <1>2, <1>3 DEF Behind

\* The current layer is whole too, so that the pull goes on to the next one.
LEMMA MovesOn ==
    ASSUME IInv, NEW p \in Process, Behind(p), pc[p] # "open", got[p] \in Digest, Current(p) \in Layer,
           UNCHANGED <<config, got>>, at'[p] = at[p] + 1, pc'[p] = "open",
           \A x \in Layer \ {Current(p)} : extracted'[got[p]][x] = extracted[got[p]][x],
           extracted'[got[p]][Current(p)].parts = Part
    PROVE  Behind(p)'
<1>1. at[p] \in Nat /\ Ends(got[p]) \in Nat
  BY StoreAssumption DEF IInv, TypeOK, Ends
<1>2. config'[got'[p]] = "whole"
  BY DEF Behind
<1>3. ASSUME NEW i \in 1..Ends(got[p]), i < at[p] + 1
      PROVE  extracted'[got[p]][Layers[got[p]][i]].parts = Part
  <2>1. Layers[got[p]][i] \in Layer
    BY LayerOf
  <2>2. CASE Layers[got[p]][i] = Current(p)
    BY <2>2
  <2>3. CASE Layers[got[p]][i] # Current(p)
    <3>1. i < at[p]
      BY <1>1, <1>3, <2>3 DEF Current
    <3> QED BY <2>1, <2>3, <3>1 DEF Behind
  <2> QED BY <2>2, <2>3
<1>4. Ends(got'[p]) = Ends(got[p])
  BY DEF Ends
<1> QED BY <1>2, <1>3, <1>4 DEF Behind

\* A part that is extracted continues the file of the pull.
LEMMA Extracts ==
    ASSUME IInv, NEW p \in Process, pc[p] = "apply", Copied(p, Current(p)), Extract(p)
    PROVE  /\ got[p] \in Digest /\ Current(p) \in Layer /\ part[p] \in Part
           /\ extracted'[got[p]][Current(p)] = [by |-> p, parts |-> 1..part[p]]
           /\ \A x \in Layer \ {Current(p)} : extracted'[got[p]][x] = extracted[got[p]][x]
<1> DEFINE file == extracted[got[p]][Current(p)]
<1>1. got[p] \in Digest /\ Current(p) \in Layer
  BY CurrentType DEF IInv
<1>2. part[p] \in Part
  BY StoreAssumption DEF IInv, TypeOK, AtLayer
<1>3. Entry(file, p) = [by |-> p, parts |-> 1..part[p]]
  <2>1. CASE part[p] = 1
    <3>1. 1..part[p] = {1}
      BY <2>1
    <3> QED BY <2>1, <3>1 DEF Entry
  <2>2. CASE part[p] # 1
    <3>1. part[p] > 1
      BY <1>2, <2>2
    <3>2. file = [by |-> p, parts |-> 1..(part[p] - 1)]
      BY <3>1 DEF Copied
    <3>3. 1..part[p] = (1..(part[p] - 1)) \cup {part[p]}
      BY <1>2
    <3> HIDE DEF file
    <3>4. Entry(file, p) = [file EXCEPT !.parts = @ \cup {part[p]}]
      BY <2>2, <3>2 DEF Entry
    <3> QED BY <3>2, <3>3, <3>4
  <2> QED BY <2>1, <2>2
<1>4. extracted'[got[p]] = [extracted[got[p]] EXCEPT ![Current(p)] = Entry(file, p)]
  BY <1>1 DEF Extract, IInv, TypeOK
<1>5. DOMAIN extracted[got[p]] = Layer
  BY <1>1 DEF IInv, TypeOK
<1> HIDE DEF file
<1> QED BY <1>1, <1>2, <1>3, <1>4, <1>5

LEMMA SoloCreates ==
    ASSUME IInv, NEW p \in Process, Solo(p), Create(p) PROVE Solo(p)'
<1> USE DEF IInv, local
<1>1. kind[p] # "removeid" /\ UNCHANGED <<blob, kind, got, at, part, cached, config, extracted>>
  BY DEF Create, Solo, ById
<1>2. got[p] \in Digest /\ Current(p) \in Layer /\ part[p] = 1 /\ ~cached[p]
  BY CurrentType DEF Create, AtLayer
<1>3. pc[p] = "create" /\ pc'[p] = "apply"
  BY DEF Create, Goto, TypeOK
<1>4. Current(p)' = Current(p)
  BY <1>1 DEF Current
<1>5. tmp'[Current(p)] = [there |-> TRUE, parts |-> {}, writers |-> tmp[Current(p)].writers \cup {p}]
  BY <1>2 DEF Create, TypeOK
<1>6. Copied(p, Current(p))'
  BY <1>1, <1>2, <1>3, <1>4, <1>5 DEF Copied, Source
<1>7. Behind(p)'
  BY <1>1, <1>2, <1>3, StaysBehind DEF Solo
<1> QED BY <1>1, <1>3, <1>6, <1>7 DEF Solo, Unhindered, ById, Cache

LEMMA SoloDownloads ==
    ASSUME IInv, NEW p \in Process, Solo(p), Download(p) PROVE Solo(p)'
<1>1. kind[p] # "removeid" /\ UNCHANGED <<kind, got, at, cached, config>>
  BY DEF Download, Solo, ById
<1>2. pc[p] = "apply" /\ ~cached[p] /\ Copied(p, Current(p)) /\ Extract(p)
  BY DEF Download, Solo
<1>3. /\ got[p] \in Digest /\ Current(p) \in Layer /\ part[p] \in Part
      /\ extracted'[got[p]][Current(p)] = [by |-> p, parts |-> 1..part[p]]
      /\ \A x \in Layer \ {Current(p)} : extracted'[got[p]][x] = extracted[got[p]][x]
  BY <1>2, Extracts
<1>4. Current(p)' = Current(p)
  BY <1>1 DEF Current
<1>5. pc'[p] = IF part[p] = PartCount THEN "complete" ELSE "apply"
  BY DEF Download, Goto, LastPart, IInv, TypeOK
<1>6. part'[p] = part[p] + 1
  BY NextLayerType DEF Download, IInv
<1>7. \A x \in Layer : Cache(x)'
  <2> SUFFICES ASSUME NEW x \in Layer PROVE blob'[x] = blob[x]
    BY DEF Solo, Cache
  <2> QED BY DEF Download, Write, Solo, Cache, IInv, TypeOK
<1>8. Copied(p, Current(p))'
  <2>1. tmp[Current(p)] \in File /\ tmp[Current(p)].there
        /\ p \in tmp[Current(p)].writers /\ tmp[Current(p)].parts = 1..(part[p] - 1)
    BY <1>2, <1>3 DEF Copied, Source, IInv, TypeOK
  <2>2. tmp'[Current(p)] = [tmp[Current(p)] EXCEPT !.parts = @ \cup {part[p]}]
    BY <1>3, <2>1 DEF Download, Write, IInv, TypeOK
  <2>3. 1..part[p] = (1..(part[p] - 1)) \cup {part[p]}
    BY <1>3
  <2>4. tmp'[Current(p)].there /\ p \in tmp'[Current(p)].writers /\ tmp'[Current(p)].parts = 1..part[p]
    BY <2>1, <2>2, <2>3
  <2>5. part'[p] - 1 = part[p]
    BY <1>3, <1>6
  <2> QED BY <1>1, <1>2, <1>3, <1>4, <1>5, <2>4, <2>5 DEF Copied, Source
<1>9. Behind(p)'
  BY <1>1, <1>2, <1>3, <1>5, StaysBehind DEF Solo
<1> QED BY <1>1, <1>4, <1>5, <1>7, <1>8, <1>9 DEF Solo, Unhindered, ById

LEMMA SoloCompletes ==
    ASSUME IsSequential, IInv, NEW p \in Process, Solo(p), Complete(p) PROVE Solo(p)'
<1>1. kind[p] # "removeid" /\ UNCHANGED <<kind, got, config, extracted>>
  BY DEF Complete, Solo, ById
<1>2. pc[p] = "complete" /\ tmp[Current(p)].there /\ tmp[Current(p)].parts = Part
      /\ extracted[got[p]][Current(p)].parts = Part
  BY DEF Complete, Solo, Copied
<1>3. got[p] \in Digest /\ Current(p) \in Layer
  BY <1>2, CurrentType DEF IInv
<1>4. at'[p] = at[p] + 1 /\ pc'[p] = "open"
  BY <1>2 DEF Complete, NextLayer, Goto, IInv, TypeOK
<1>5. \A x \in Layer : Cache(x)'
  <2>1. tmp[Current(p)] \in File
    BY <1>3 DEF IInv, TypeOK
  <2>2. tmp[Current(p)].writers \subseteq {p}
    BY <2>1, Alone
  <2>3. Close(tmp[Current(p)], p).writers = {} /\ Close(tmp[Current(p)], p).parts = Part
    BY <1>2, <2>1, <2>2, CloseType
  <2>4. \A x \in Layer : blob'[x] = IF x = Current(p) THEN Close(tmp[x], p) ELSE blob[x]
    BY <1>2, <1>3 DEF Complete, IInv, TypeOK
  <2> QED BY <2>3, <2>4 DEF Solo, Cache
<1>6. Behind(p)'
  BY <1>1, <1>2, <1>3, <1>4, MovesOn DEF Solo
<1> QED BY <1>1, <1>4, <1>5, <1>6 DEF Solo, Unhindered, ById

LEMMA SoloReads ==
    ASSUME IInv, NEW p \in Process, Solo(p), ReadBlob(p) PROVE Solo(p)'
<1>1. kind[p] # "removeid" /\ UNCHANGED <<blob, tmp, kind, got, cached, config>>
  BY DEF ReadBlob, Solo, ById, blobs
<1>2. pc[p] = "apply" /\ cached[p] /\ Copied(p, Current(p)) /\ Extract(p)
  BY DEF ReadBlob, Solo
<1>3. /\ got[p] \in Digest /\ Current(p) \in Layer /\ part[p] \in Part
      /\ extracted'[got[p]][Current(p)] = [by |-> p, parts |-> 1..part[p]]
      /\ \A x \in Layer \ {Current(p)} : extracted'[got[p]][x] = extracted[got[p]][x]
  BY <1>2, Extracts
<1>4. part'[p] = part[p] + 1
  BY NextLayerType DEF ReadBlob, IInv
<1>5. CASE part[p] = PartCount
  <2>1. at'[p] = at[p] + 1 /\ pc'[p] = "open"
    BY <1>5 DEF ReadBlob, NextLayer, Goto, IInv, TypeOK
  <2>2. extracted'[got[p]][Current(p)].parts = Part
    BY <1>3, <1>5
  <2>3. Behind(p)'
    BY <1>1, <1>2, <1>3, <2>1, <2>2, MovesOn DEF Solo
  <2> QED BY <1>1, <2>1, <2>3 DEF Solo, Unhindered, ById, Cache
<1>6. CASE part[p] # PartCount
  <2>1. UNCHANGED at /\ pc'[p] = "apply"
    BY <1>6 DEF ReadBlob, Goto, IInv, TypeOK
  <2>2. Current(p)' = Current(p)
    BY <1>1, <2>1 DEF Current
  <2>3. part'[p] - 1 = part[p]
    BY <1>3, <1>4
  <2>4. Copied(p, Current(p))'
    BY <1>1, <1>2, <1>3, <2>1, <2>2, <2>3 DEF Copied, Source
  <2>5. Behind(p)'
    BY <1>1, <1>2, <1>3, <2>1, StaysBehind DEF Solo
  <2> QED BY <1>1, <2>1, <2>2, <2>4, <2>5 DEF Solo, Unhindered, ById, Cache
<1> QED BY <1>5, <1>6

\* A blob that is there lacks nothing, so that no read meets its end too early.
LEMMA SoloReadsAll ==
    ASSUME IInv, NEW p \in Process, Solo(p), BlobEnds(p) PROVE FALSE
<1>1. pc[p] = "apply" /\ cached[p] /\ part[p] \notin blob[Current(p)].parts
  BY DEF BlobEnds
<1>2. Current(p) \in Layer
  BY <1>1, CurrentType DEF IInv
<1>3. part[p] \in Part
  BY <1>1, StoreAssumption DEF IInv, TypeOK, AtLayer
<1>4. blob[Current(p)].parts = Part
  BY <1>1, <1>2 DEF Solo, Copied, Source, Cache
<1> QED BY <1>1, <1>3, <1>4

LEMMA SoloStops ==
    ASSUME IInv, NEW p \in Process, Solo(p), Stop(p) PROVE Solo(p)'
<1>1. pc'[p] = "idle"
  BY DEF Stop, Return, IInv, TypeOK
<1>2. \A x \in Layer : Cache(x)'
  <2> SUFFICES ASSUME NEW x \in Layer PROVE Cache(x)'
    OBVIOUS
  <2>1. blob[x] \in File /\ Cache(x)
    BY DEF IInv, TypeOK, Solo
  <2>2. blob'[x] = Close(blob[x], p)
    BY DEF Stop
  <2> QED BY <2>1, <2>2, CloseType DEF Cache
<1> QED BY <1>1, <1>2 DEF Solo, Unhindered, ById

SeqInv == IInv /\ \A p \in Process : Solo(p)

LEMMA InitSeqInv == Init => SeqInv
<1> SUFFICES ASSUME Init, NEW p \in Process PROVE Solo(p)
  BY InitIInv DEF SeqInv
<1>1. pc[p] = "idle" /\ \A x \in Layer : Cache(x)
  BY DEF Init, Cache
<1> QED BY <1>1 DEF Solo, Unhindered, ById

LEMMA NextSeqInv ==
    ASSUME IsSequential, IsFiniteSet(Path), SeqInv, [Next]_vars PROVE SeqInv'
<1>1. IInv'
  BY NextIInv DEF SeqInv
<1>2. ASSUME NEW p \in Process, Step(p) PROVE Solo(p)'
  BY <1>2, SoloPulls, SoloRemoves, SoloBegins, SoloCreates, SoloDownloads, SoloCompletes,
     SoloReads, SoloReadsAll, SoloStops DEF Step, SeqInv
<1>3. ASSUME UNCHANGED vars, NEW p \in Process PROVE Solo(p)'
  <2>1. UNCHANGED <<link, config, extracted, blob, tmp, pc, kind, path, got, at, part, cached>> /\ Solo(p)
    BY <1>3 DEF vars, store, blobs, local, SeqInv
  <2>2. Current(p)' = Current(p) /\ Behind(p)' = Behind(p) /\ Whole' = Whole
    BY <2>1 DEF Current, Behind, Ends, Whole
  <2>3. Copied(p, Current(p))' = Copied(p, Current(p))
    BY <2>1, <2>2 DEF Copied, Source
  <2> QED BY <2>1, <2>2, <2>3 DEF Solo, Cache, Unhindered, ById
<1> QED BY <1>1, <1>2, <1>3, Alone DEF Next, SeqInv

LEMMA SequentialInvariant ==
    ASSUME IsSequential, IsFiniteSet(Path) PROVE Spec => []SeqInv
<1>1. Init => SeqInv
  BY InitSeqInv
<1>2. SeqInv /\ [Next]_vars => SeqInv'
  BY NextSeqInv
<1> QED BY <1>1, <1>2, PTL DEF Spec

\* ForceSymlink at the end of a pull, while commands do not overlap: a tag is
\* given a new link only by a pull that has every layer of the model in place,
\* however the commands before it ended.
THEOREM LinkedWhenWholeHolds ==
    ASSUME IsSequential, IsFiniteSet(Path) PROVE Spec => LinkedWhenWhole
<1>1. ASSUME SeqInv, [Next]_vars, NEW t \in Tag, link'[t] \notin {link[t], None}
      PROVE  link'[t] \in Whole'
  <2>1. PICK p \in Process : Step(p)
    BY <1>1 DEF Next, vars, store
  <2>2. Symlink(p)
    BY <1>1, <2>1 DEF Step, Start, Look, GetRemote, Relink, Bury, Restore, WriteConfig, Open, Create,
       Download, Complete, ReadBlob, BlobEnds, RemoveOldLink, Load, ReadLink, Walk, RemoveLayers,
       RemoveConfig, RemoveLink, Stop, RestoreFails, store, SeqInv, IInv, TypeOK, Solo, Unhindered
  <2>3. link'[t] = got[p]
    BY <1>1, <2>2 DEF Symlink, SeqInv, IInv, TypeOK
  <2>4. got[p] \in Whole /\ UNCHANGED <<config, extracted>>
    <3>1. pc[p] = "symlink" /\ UNCHANGED <<config, extracted>>
      BY <2>2 DEF Symlink
    <3> QED BY <1>1, <3>1 DEF SeqInv, Solo
  <2> QED BY <2>3, <2>4 DEF Whole
<1>2. SeqInv /\ [Next]_vars => [\A t \in Tag : link'[t] \notin {link[t], None} => link'[t] \in Whole']_vars
  BY <1>1
<1> QED BY <1>2, SequentialInvariant, PTL DEF Spec, LinkedWhenWhole

\* remove.go's removal by ID, while commands do not overlap: it takes the model
\* of no tag but the one that alone has that ID.
THEOREM RemovalByIdSparesOthersHolds ==
    ASSUME IsSequential, IsFiniteSet(Path) PROVE Spec => RemovalByIdSparesOthers
<1> DEFINE Spares(p) == kind[p] = "removeid" /\ pc'[p] # pc[p] =>
             \A q \in Tag : link[q] \in Whole =>
                q = path[p] \/ (link'[q] = link[q] /\ link'[q] \in Whole')
<1>1. ASSUME SeqInv, [Next]_vars, NEW p \in Process PROVE Spares(p)
  <2> SUFFICES ASSUME kind[p] = "removeid", pc'[p] # pc[p],
                      NEW q \in Tag, link[q] \in Whole, q # path[p]
               PROVE  link'[q] = link[q] /\ link'[q] \in Whole'
    OBVIOUS
  <2>1. Step(p)
    BY <1>1, Alone DEF Next, vars
  <2>2. Start(p) \/ Walk(p) \/ RemoveLayers(p) \/ RemoveConfig(p) \/ RemoveLink(p) \/ Stop(p)
    BY <1>1, <2>1 DEF Step, Look, GetRemote, Relink, Bury, Restore, WriteConfig, Open, Create,
       Download, Complete, ReadBlob, BlobEnds, RemoveOldLink, Symlink, Load, ReadLink,
       RestoreFails, SeqInv, Solo, ById
  <2>3. pc[p] \in {"idle", "walk", "rmlayers", "rmconfig", "rmlink"}
    BY <1>1 DEF SeqInv, Solo, ById
  <2>4. link[q] \in Digest /\ q \in Path
    BY DEF Whole
  <2>5. link'[q] = link[q]
    BY <1>1, <2>2, <2>4 DEF Start, Walk, RemoveLayers, RemoveConfig, RemoveLink, Stop, store,
       SeqInv, IInv, TypeOK
  <2>6. config'[link[q]] = config[link[q]] /\ extracted'[link[q]] = extracted[link[q]]
    <3>1. pc[p] \in {"rmlayers", "rmconfig"} => link[q] # got[p]
      BY <1>1, <2>4 DEF SeqInv, Solo, ById
    <3>2. CASE Start(p) \/ Walk(p) \/ RemoveLink(p)
      BY <3>2 DEF Start, Walk, RemoveLink, store
    <3>3. CASE RemoveLayers(p)
      BY <1>1, <2>4, <3>1, <3>3 DEF RemoveLayers, SeqInv, IInv, TypeOK
    <3>4. CASE RemoveConfig(p)
      BY <1>1, <2>4, <3>1, <3>4 DEF RemoveConfig, SeqInv, IInv, TypeOK
    <3>5. CASE Stop(p)
      BY <2>3, <3>5 DEF Stop
    <3> QED BY <2>2, <3>2, <3>3, <3>4, <3>5
  <2> QED BY <2>4, <2>5, <2>6 DEF Whole
<1>2. SeqInv /\ [Next]_vars => [\A p \in Process : Spares(p)]_vars
  BY <1>1
<1> QED BY <1>2, SequentialInvariant, PTL DEF Spec, RemovalByIdSparesOthers
=============================================================================
