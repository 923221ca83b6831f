------------------------------- MODULE Store -------------------------------
(***************************************************************************)
(* The local model store of cmd/gguf-packer (pull.go, remove.go, run.go):  *)
(* links from tags to configs, config files, extracted layers and cached   *)
(* blobs, and the commands that change them, one file-system call a step.  *)
(* Commands take no lock: several of them work on the store at once.       *)
(*                                                                         *)
(* The tags are those of one repository, whose directory holds their       *)
(* tombstones too; a layer is copied in parts, in order.  A file that is   *)
(* open for writing knows its writers: they go on with the file when it is *)
(* renamed, and write to nowhere when another one has taken its place.     *)
(*                                                                         *)
(* TrustConfig, LastButOne and FirstMatch are wrong variants of the        *)
(* definitions that follow them, for the checks.                           *)
(***************************************************************************)
EXTENDS Naturals, Sequences, FiniteSets

CONSTANTS
    Process,    \* commands that may run at the same time
    Tag,        \* tags of a repository
    Digest,     \* config digests of its models
    Layer,      \* layers, by diffID
    Layers,     \* Layers[d]: the layers of a model
    PartCount,  \* bound: the parts of a layer
    Kinds,      \* which commands are given
    Faults,     \* whether a command may fail or be killed at any step
    None

Part == 1..PartCount
Path == Tag \cup Digest    \* a digest stands for its tombstone, `.old.<digest>`

ASSUME StoreAssumption ==
    /\ PartCount \in Nat \ {0}
    /\ Layers \in [Digest -> Seq(Layer)]
    /\ Kinds \subseteq {"pull", "force", "run", "remove", "removeid"}
    /\ Faults \in BOOLEAN
    /\ Tag \cap Digest = {}
    /\ None \notin Path \cup Process

\* A file of the blob directory: what it holds, and who is writing to it.
File == [there : BOOLEAN, parts : SUBSET Part, writers : SUBSET Process]
NoFile == [there |-> FALSE, parts |-> {}, writers |-> {}]

VARIABLES
    link,       \* what the link at a path points to, which may be gone
    config,     \* config files
    extracted,  \* extracted[d][x]: the file of layer x below the layers of d
    blob,       \* blob[x]: the cached layer at its DiffIDPath
    tmp,        \* tmp[x]: the file `<DigestPath>.tmp` that it is downloaded to
    pc, kind, path, got, was, at, part, cached, outcome,   \* of each process
    alone,      \* forced pulls that no other command has overlapped with
    abandoned   \* layers of which a download was cut short

local == <<kind, path, got, was, at, part, cached>>
blobs == <<blob, tmp>>
store == <<link, config, extracted, blobs>>
vars == <<store, pc, local, outcome, alone, abandoned>>

-----------------------------------------------------------------------------

Goto(p, label) == pc' = [pc EXCEPT ![p] = label] /\ UNCHANGED outcome
Return(p, how) == pc' = [pc EXCEPT ![p] = "idle"] /\ outcome' = [outcome EXCEPT ![p] = how]

\* pull returns nil: `run` goes on with the model.
Pulled(p, how) == IF kind[p] = "run" THEN Goto(p, "load") ELSE Return(p, how)

Ends(d) == Len(Layers[d])
Current(p) == Layers[got[p]][at[p]]
Writing(p, x) == pc[p] = "apply" /\ ~cached[p] /\ Current(p) = x

Init ==
    /\ link = [q \in Path |-> None]
    /\ config = [d \in Digest |-> "none"]
    /\ extracted = [d \in Digest |-> [x \in Layer |-> [by |-> None, parts |-> {}]]]
    /\ blob = [x \in Layer |-> NoFile]
    /\ tmp = [x \in Layer |-> NoFile]
    /\ pc = [p \in Process |-> "idle"]
    /\ kind \in [Process -> {"pull"}]
    /\ path = [p \in Process |-> None]
    /\ got = [p \in Process |-> None]
    /\ was = [p \in Process |-> None]
    /\ at = [p \in Process |-> 1]
    /\ part = [p \in Process |-> 1]
    /\ cached = [p \in Process |-> FALSE]
    /\ outcome = [p \in Process |-> "none"]
    /\ alone = {}
    /\ abandoned = {}

Start(p) ==
    /\ pc[p] = "idle"
    /\ \E k \in Kinds :
         /\ kind' = [kind EXCEPT ![p] = k]
         /\ \E q \in IF k = "removeid" THEN {None} ELSE Tag : path' = [path EXCEPT ![p] = q]
         /\ \E d \in IF k = "removeid" THEN Digest ELSE {None} : got' = [got EXCEPT ![p] = d]
         /\ pc' = [pc EXCEPT ![p] =
                CASE k = "remove" -> "readlink" [] k = "removeid" -> "walk" [] OTHER -> "look"]
    /\ was' = [was EXCEPT ![p] = None]
    /\ at' = [at EXCEPT ![p] = 1]
    /\ part' = [part EXCEPT ![p] = 1]
    /\ cached' = [cached EXCEPT ![p] = FALSE]
    /\ outcome' = [outcome EXCEPT ![p] = "none"]
    /\ alone' = {q \in {p} : kind'[q] = "force" /\ \A r \in Process : pc[r] = "idle"}
    /\ UNCHANGED <<store, abandoned>>

-----------------------------------------------------------------------------
\* pull

\* A link is enough, wherever it points to.
Look(p) ==
    /\ pc[p] = "look"
    /\ IF link[path[p]] # None /\ kind[p] # "force" THEN Pulled(p, "kept") ELSE Goto(p, "get")
    /\ UNCHANGED <<store, local, alone, abandoned>>

\* The registry may serve another model under the tag each time.
GetRemote(p) ==
    /\ pc[p] = "get"
    /\ \E d \in Digest : got' = [got EXCEPT ![p] = d]
    /\ Goto(p, IF kind[p] = "force" THEN "config" ELSE "relink")
    /\ UNCHANGED <<store, kind, path, was, at, part, cached, alone, abandoned>>

\* Another pull may have made the link since Look.
Relink(p) ==
    /\ pc[p] = "relink"
    /\ CASE link[path[p]] = None   -> Goto(p, "config") /\ UNCHANGED was
         [] link[path[p]] = got[p] -> Pulled(p, "same") /\ UNCHANGED was
         [] OTHER -> Goto(p, "bury") /\ was' = [was EXCEPT ![p] = link[path[p]]]
    /\ UNCHANGED <<store, kind, path, got, at, part, cached, alone, abandoned>>

\* The link becomes the tombstone of the model that it pointed to.
Bury(p) ==
    /\ pc[p] = "bury"
    /\ IF link[path[p]] = None
       THEN Return(p, "failed") /\ UNCHANGED link
       ELSE /\ link' = [link EXCEPT ![was[p]] = link[path[p]], ![path[p]] = None]
            /\ Goto(p, "restore")
    /\ UNCHANGED <<config, extracted, blobs, local, alone, abandoned>>

\* A tombstone of the new model becomes the link again, without any download.
Restore(p) ==
    /\ pc[p] = "restore"
    /\ IF link[got[p]] = None
       THEN Goto(p, "config") /\ UNCHANGED link
       ELSE /\ link' = [link EXCEPT ![path[p]] = link[got[p]], ![got[p]] = None]
            /\ Pulled(p, "restored")
    /\ UNCHANGED <<config, extracted, blobs, local, alone, abandoned>>

TrustConfig(p) ==
    /\ pc[p] = "config"
    /\ config' = [config EXCEPT ![got[p]] = "whole"]
    /\ at' = [at EXCEPT ![p] = IF config[got[p]] = "whole" THEN Ends(got[p]) + 1 ELSE 1]
    /\ Goto(p, "open")
    /\ UNCHANGED <<link, extracted, blobs, kind, path, got, was, part, cached, alone, abandoned>>

WriteConfig(p) ==
    /\ pc[p] = "config"
    /\ config' = [config EXCEPT ![got[p]] = "whole"]
    /\ at' = [at EXCEPT ![p] = 1]
    /\ Goto(p, "open")
    /\ UNCHANGED <<link, extracted, blobs, kind, path, got, was, part, cached, alone, abandoned>>

\* The layer is taken from the cache when it is there.
Open(p) ==
    /\ pc[p] = "open"
    /\ at[p] <= Ends(got[p])
    /\ cached' = [cached EXCEPT ![p] = blob[Current(p)].there]
    /\ part' = [part EXCEPT ![p] = 1]
    /\ Goto(p, IF cached'[p] THEN "apply" ELSE "create")
    /\ UNCHANGED <<store, kind, path, got, was, at, alone, abandoned>>

\* O_CREATE|O_TRUNC: whoever is writing that file has lost what it wrote so far.
Create(p) ==
    /\ pc[p] = "create"
    /\ tmp' = [tmp EXCEPT ![Current(p)] = [there |-> TRUE, parts |-> {}, writers |-> @.writers \cup {p}]]
    /\ Goto(p, "apply")
    /\ UNCHANGED <<link, config, extracted, blob, local, alone, abandoned>>

\* An entry replaces the file that is there: its first part begins a new one.
Entry(file, p) ==
    IF part[p] = 1 THEN [by |-> p, parts |-> {1}]
    ELSE IF file.by = p THEN [file EXCEPT !.parts = @ \cup {part[p]}] ELSE file
Extract(p) == extracted' = [extracted EXCEPT ![got[p]][Current(p)] = Entry(@, p)]

Write(file, p) == IF p \in file.writers THEN [file EXCEPT !.parts = @ \cup {part[p]}] ELSE file

LastButOne(p) == part[p] + 1 >= PartCount
LastPart(p) == part[p] = PartCount

\* A part comes from the registry: it is written to the cache and extracted.
Download(p) ==
    /\ pc[p] = "apply"
    /\ ~cached[p]
    /\ Extract(p)
    /\ tmp' = [tmp EXCEPT ![Current(p)] = Write(@, p)]
    /\ blob' = [blob EXCEPT ![Current(p)] = Write(@, p)]
    /\ part' = [part EXCEPT ![p] = @ + 1]
    /\ Goto(p, IF LastPart(p) THEN "complete" ELSE "apply")
    /\ UNCHANGED <<link, config, kind, path, got, was, at, cached, alone, abandoned>>

NextLayer(p) == at' = [at EXCEPT ![p] = @ + 1] /\ Goto(p, "open")

Close(file, p) == [file EXCEPT !.writers = @ \ {p}]

\* The file of that name is renamed, another pull's too; there may be none.
Complete(p) ==
    /\ pc[p] = "complete"
    /\ LET x == Current(p) IN
       IF tmp[x].there
       THEN /\ blob' = [blob EXCEPT ![x] = Close(tmp[x], p)]
            /\ tmp' = [tmp EXCEPT ![x] = NoFile]
            /\ NextLayer(p)
       ELSE /\ blob' = [blob EXCEPT ![x] = Close(@, p)]
            /\ Return(p, "failed")
            /\ UNCHANGED <<tmp, at>>
    /\ UNCHANGED <<link, config, extracted, kind, path, got, was, part, cached, alone, abandoned>>

ReadBlob(p) ==
    /\ pc[p] = "apply"
    /\ cached[p]
    /\ part[p] \in blob[Current(p)].parts
    /\ Extract(p)
    /\ part' = [part EXCEPT ![p] = @ + 1]
    /\ IF part[p] = PartCount THEN NextLayer(p) ELSE Goto(p, "apply") /\ UNCHANGED at
    /\ UNCHANGED <<link, config, blobs, kind, path, got, was, cached, alone, abandoned>>

\* A hole or the end of the blob reads as the end of the archive, unless the
\* file ends within an entry.
BlobEnds(p) ==
    /\ pc[p] = "apply"
    /\ cached[p]
    /\ part[p] \notin blob[Current(p)].parts
    /\ \/ NextLayer(p)
       \/ /\ part[p] > 1
          /\ \A n \in blob[Current(p)].parts : n < part[p]
          /\ Return(p, "failed")
          /\ UNCHANGED at
    /\ UNCHANGED <<store, kind, path, got, was, part, cached, alone, abandoned>>

\* ForceSymlink, in two steps: the old link goes, then the new one is made.
RemoveOldLink(p) ==
    /\ pc[p] = "open"
    /\ at[p] > Ends(got[p])
    /\ link' = [link EXCEPT ![path[p]] = None]
    /\ Goto(p, "symlink")
    /\ UNCHANGED <<config, extracted, blobs, local, alone, abandoned>>

Symlink(p) ==
    /\ pc[p] = "symlink"
    /\ IF link[path[p]] # None
       THEN Return(p, "failed") /\ UNCHANGED link
       ELSE link' = [link EXCEPT ![path[p]] = got[p]] /\ Pulled(p, "pulled")
    /\ UNCHANGED <<config, extracted, blobs, local, alone, abandoned>>

\* run reads the link and the config, and starts a server on the layers.
Load(p) ==
    /\ pc[p] = "load"
    /\ Return(p, IF link[path[p]] # None /\ config[link[path[p]]] = "whole" THEN "ran" ELSE "failed")
    /\ UNCHANGED <<store, local, alone, abandoned>>

-----------------------------------------------------------------------------
\* remove

ReadLink(p) ==
    /\ pc[p] = "readlink"
    /\ IF link[path[p]] = None
       THEN Return(p, "failed") /\ UNCHANGED got
       ELSE Goto(p, "rmlayers") /\ got' = [got EXCEPT ![p] = link[path[p]]]
    /\ UNCHANGED <<store, kind, path, was, at, part, cached, alone, abandoned>>

\* By ID: the links and tombstones that point to it, if there is just one.
Matches(d) == {q \in Path : link[q] = d}
FirstMatch(d) == {q \in Matches(d) : q = CHOOSE r \in Matches(d) : TRUE}
Unique(d) == {q \in Matches(d) : Cardinality(Matches(d)) = 1}

Walk(p) ==
    /\ pc[p] = "walk"
    /\ IF Unique(got[p]) = {}
       THEN Return(p, "failed") /\ UNCHANGED path
       ELSE (\E q \in Unique(got[p]) : path' = [path EXCEPT ![p] = q]) /\ Goto(p, "rmlayers")
    /\ UNCHANGED <<store, kind, got, was, at, part, cached, alone, abandoned>>

RemoveLayers(p) ==
    /\ pc[p] = "rmlayers"
    /\ extracted' = [extracted EXCEPT ![got[p]] = [x \in Layer |-> [by |-> None, parts |-> {}]]]
    /\ Goto(p, "rmconfig")
    /\ UNCHANGED <<link, config, blobs, local, alone, abandoned>>

RemoveConfig(p) ==
    /\ pc[p] = "rmconfig"
    /\ config' = [config EXCEPT ![got[p]] = "none"]
    /\ Goto(p, "rmlink")
    /\ UNCHANGED <<link, extracted, blobs, local, alone, abandoned>>

RemoveLink(p) ==
    /\ pc[p] = "rmlink"
    /\ link' = [link EXCEPT ![path[p]] = None]
    /\ Return(p, "removed")
    /\ UNCHANGED <<config, extracted, blobs, local, alone, abandoned>>

-----------------------------------------------------------------------------

\* A call fails or the process is killed: the store stays as it is, but for a
\* config that is half written and a tombstone that cannot be renamed.
Stop(p) ==
    /\ Faults
    /\ pc[p] # "idle"
    /\ Return(p, "failed")
    /\ config' \in {config} \cup (IF pc[p] = "config" THEN {[config EXCEPT ![got[p]] = "torn"]} ELSE {})
    /\ tmp' = [x \in Layer |-> Close(tmp[x], p)]
    /\ blob' = [x \in Layer |-> Close(blob[x], p)]
    /\ abandoned' = abandoned \cup {x \in Layer : Writing(p, x)}
    /\ UNCHANGED <<link, extracted, local, alone>>

RestoreFails(p) ==
    /\ Faults
    /\ pc[p] = "restore"
    /\ link[got[p]] # None
    /\ link' = [link EXCEPT ![got[p]] = None]
    /\ Goto(p, "config")
    /\ UNCHANGED <<config, extracted, blobs, local, alone, abandoned>>

Step(p) ==
    \/ Start(p)
    \/ Look(p) \/ GetRemote(p) \/ Relink(p) \/ Bury(p) \/ Restore(p) \/ WriteConfig(p)
    \/ Open(p) \/ Create(p) \/ Download(p) \/ Complete(p) \/ ReadBlob(p) \/ BlobEnds(p)
    \/ RemoveOldLink(p) \/ Symlink(p) \/ Load(p)
    \/ ReadLink(p) \/ Walk(p) \/ RemoveLayers(p) \/ RemoveConfig(p) \/ RemoveLink(p)
    \/ Stop(p) \/ RestoreFails(p)

Next == \E p \in Process : Step(p)

Spec == Init /\ [][Next]_vars

-----------------------------------------------------------------------------

Label == {"idle", "look", "get", "relink", "bury", "restore", "config", "open", "create", "apply",
          "complete", "symlink", "load", "readlink", "walk", "rmlayers", "rmconfig", "rmlink"}
Outcome == {"none", "kept", "same", "restored", "pulled", "ran", "removed", "failed"}

TypeOK ==
    /\ link \in [Path -> Digest \cup {None}]
    /\ config \in [Digest -> {"none", "torn", "whole"}]
    /\ extracted \in [Digest -> [Layer -> [by : Process \cup {None}, parts : SUBSET Part]]]
    /\ blob \in [Layer -> File]
    /\ tmp \in [Layer -> File]
    /\ pc \in [Process -> Label]
    /\ kind \in [Process -> {"pull", "force", "run", "remove", "removeid"}]
    /\ path \in [Process -> Path \cup {None}]
    /\ got \in [Process -> Digest \cup {None}]
    /\ was \in [Process -> Digest \cup {None}]
    /\ at \in [Process -> Nat \ {0}]
    /\ part \in [Process -> Nat \ {0}]
    /\ cached \in [Process -> BOOLEAN]
    /\ outcome \in [Process -> Outcome]
    /\ alone \in SUBSET Process
    /\ abandoned \in SUBSET Layer

\* The models whose config and layers are there, complete.
Whole ==
    {d \in Digest :
        /\ config[d] = "whole"
        /\ \A i \in DOMAIN Layers[d] : extracted[d][Layers[d][i]].parts = Part}

\* A link is made only when its model is complete: while commands do not overlap
\* a pull that dies anywhere, or finds what a dead one left behind, never shows
\* an incomplete model under a tag that did not have it.
LinkedWhenWhole ==
    [][\A t \in Tag : link'[t] \notin {link[t], None} => link'[t] \in Whole']_vars

\* Removing by ID, which refuses an ID with several links, takes no model away
\* from any other tag.
RemovalByIdSparesOthers ==
    [][\A p \in Process : kind[p] = "removeid" /\ pc'[p] # pc[p] =>
         \A q \in Tag : link[q] \in Whole =>
            q = path[p] \/ (link'[q] = link[q] /\ link'[q] \in Whole')]_vars

\* A blob that lacks a part is still being written, unless a download of its
\* layer was cut short: pulls share the file that they download a layer to,
\* truncate it under each other and rename it for each other, and yet every
\* cached layer is complete when they have all come to their end.
TornIsBeingWritten ==
    \A x \in Layer \ abandoned : \A file \in {blob[x], tmp[x]} :
        file.there /\ file.parts # Part => \E p \in file.writers : Writing(p, x)

\* Why: whoever truncated the file last has all that is missing still to write.
Owed ==
    \A x \in Layer \ abandoned : \A file \in {blob[x], tmp[x]} : \A n \in Part \ file.parts :
        file.there => \E p \in file.writers : Writing(p, x) /\ part[p] <= n

AtLayer ==
    \A p \in Process :
        /\ pc[p] \notin {"idle", "walk"} => path[p] \in Path
        /\ pc[p] \notin {"idle", "look", "get", "load", "readlink"} => got[p] \in Digest
        /\ pc[p] = "bury" => was[p] \in Digest
        /\ pc[p] \in {"create", "apply", "complete"} => at[p] <= Ends(got[p])
        /\ pc[p] = "create" => part[p] = 1 /\ ~cached[p]
        /\ pc[p] = "apply" => part[p] <= PartCount

IInv == TypeOK /\ AtLayer /\ Owed

\* `pull --force` brings a model back to what the registry has: when nothing
\* else was running, a forced pull that succeeds leaves a complete model.
ForceRepairs ==
    \A p \in alone : outcome[p] = "pulled" => got[p] \in Whole

\* pull.go:40, "Download a model from a registry": a tag holds what the registry
\* has served under it when a pull that has asked for it succeeds, also when the
\* pull takes the model from a tombstone.
TagIsAsServed ==
    [][\A p \in Process : pc[p] \in {"relink", "restore", "symlink"} /\ pc'[p] = "idle" /\ outcome'[p] # "failed"
           => link'[path[p]] = got[p]]_vars
=============================================================================
