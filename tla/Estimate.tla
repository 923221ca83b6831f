----------------------------- MODULE Estimate ------------------------------
(***************************************************************************)
(* `estimate` (src/cmd/gguf-packer/estimate.go): the options come from the *)
(* command line in the image, read one argument at a time, and from the    *)
(* flags of the command; then one goroutine for each step of offloaded     *)
(* layers appends its own option to the slice of them all, estimates, and  *)
(* fills its row.  The estimator is external (gguf-parser-go): of it       *)
(* remains how many layers an estimate says are offloaded.                 *)
(*                                                                         *)
(* Shared is a wrong variant of the definition that follows it.            *)
(***************************************************************************)
EXTENDS Integers, Sequences

CONSTANTS
    Blocks,    \* the layers of the model, but for the output layer
    Inputs,    \* the command line of an image, and the flags of `estimate`
    Unset

(***************************************************************************)
(* An argument of the line is a flag with a value, one without ("kv"), or  *)
(* neither ("none"); and it may be the number that a flag before it takes. *)
(* "ctx", "batch" and "ubatch" stand for the flags that become options,    *)
(* "layers" and "draft" for the offloaded layers of model and drafter.     *)
(***************************************************************************)
Option == {"ctx", "batch", "ubatch"}
Offload == {"layers", "draft"}
Valued == Option \cup Offload

VARIABLES
    line, flags, step,     \* the input
    phase,
    at,         \* the argument that is next
    recorded,   \* rawOffloadLayers and rawOffloadLayersDraft
    options,    \* eopts, as what it comes to: the last one of a kind counts
    spare,      \* whether the array behind eopts has room
    place,      \* the option in that room
    own,        \* own[i]: the option of goroutine i in an array of its own
    pc, rows    \* of each goroutine

input == <<line, flags, step>>
goroutines == <<spare, place, own, pc, rows>>
vars == <<input, phase, at, recorded, options, goroutines>>

Default == [f \in Option |-> CASE f = "ctx" -> -1 [] f = "batch" -> 2048 [] f = "ubatch" -> 512]

\* A command line `l` with the flags `f` and a step; `room` of the array depends
\* on how Go has made it grow.
Start(l, f, n, room) ==
    /\ line = l /\ flags = f /\ step = n
    /\ phase = "args"
    /\ at = 1
    /\ recorded = [g \in Offload |-> Unset]
    /\ options = [g \in Valued |-> Unset]
    /\ spare = room
    /\ place = Unset
    /\ own = <<>>
    /\ pc = <<>>
    /\ rows = <<>>

Init == \E i \in Inputs : \E room \in BOOLEAN : Start(i.line, i.flags, i.step, room)

\* One argument, with the next one as its value, whatever that is.  The last is
\* left alone, and so is a value that is no number.
ReadArg ==
    /\ phase = "args" /\ at <= Len(line)
    /\ LET f == line[at].flag
           valued == f \in Valued /\ at < Len(line)
           v == IF valued THEN line[at + 1].number ELSE Unset IN
       /\ at' = IF valued THEN at + 2 ELSE at + 1
       /\ options' = IF v # Unset /\ f \in Option THEN [options EXCEPT ![f] = v] ELSE options
       /\ recorded' = IF v # Unset /\ f \in Offload THEN [recorded EXCEPT ![f] = v] ELSE recorded
    /\ UNCHANGED <<input, phase, goroutines>>

\* The flag, or its default when it is not given.
Flag(f) == IF flags[f] # Unset THEN flags[f] ELSE Default[f]
TooLarge == Flag("ubatch") > 0 /\ Flag("ubatch") > Flag("batch")

\* The layers are taken from the line only when the flag is not given.
FlagFirst(f) == IF flags[f] # Unset THEN flags[f] ELSE recorded[f]

\* A positive flag is an option after those of the line, given or not.
Override ==
    /\ phase = "args" /\ at > Len(line)
    /\ ~TooLarge
    /\ options' = [f \in Valued |->
          IF f \in Offload THEN FlagFirst(f)
          ELSE IF Flag(f) > 0 THEN Flag(f) ELSE options[f]]
    /\ phase' = "estimate"
    /\ UNCHANGED <<input, at, recorded, goroutines>>

OverrideFails ==
    /\ phase = "args" /\ at > Len(line)
    /\ TooLarge
    /\ phase' = "failed"
    /\ UNCHANGED <<input, at, recorded, options, goroutines>>

\* The estimator offloads what it is asked for; more than there is, or nothing
\* asked, is everything, with the output layer.
Full(n) == n = Unset \/ n < 0 \/ n > Blocks
Estimated(n) == [layers |-> IF Full(n) THEN Blocks ELSE n, full |-> Full(n)]

Whole == Estimated(options["layers"])

\* The step that is used: at least one, at most everything.
Step == IF step > Whole.layers \/ step = 0 THEN Whole.layers ELSE step

Count == Whole.layers \div Step + 1
         + IF Whole.layers % Step # 0 \/ Whole.full THEN 1 ELSE 0

WithoutSteps ==
    /\ phase = "estimate"
    /\ ~(Step < Whole.layers)
    /\ rows' = <<Whole>>
    /\ phase' = "done"
    /\ UNCHANGED <<input, at, recorded, options, spare, place, own, pc>>

Spawn ==
    /\ phase = "estimate"
    /\ Step < Whole.layers
    /\ pc' = [i \in 1..Count |-> "append"]
    /\ own' = [i \in 1..Count |-> Unset]
    /\ rows' = [i \in 1..Count |-> Whole]
    /\ phase' = "rows"
    /\ UNCHANGED <<input, at, recorded, options, spare, place>>

\* eopts[:len(eopts):len(eopts)] has no room, so append makes a new array; without
\* the last bound it would write to the room that they all share.
Shared == spare
InPlace == FALSE

AppendLayers(i) ==
    /\ phase = "rows" /\ pc[i] = "append"
    /\ LET n == (i - 1) * Step IN
       IF InPlace THEN place' = n /\ UNCHANGED own ELSE own' = [own EXCEPT ![i] = n] /\ UNCHANGED place
    /\ pc' = [pc EXCEPT ![i] = "estimate"]
    /\ UNCHANGED <<input, phase, at, recorded, options, spare, rows>>

FillRow(i) ==
    /\ phase = "rows" /\ pc[i] = "estimate"
    /\ rows' = [rows EXCEPT ![i] = Estimated(IF InPlace THEN place ELSE own[i])]
    /\ pc' = [pc EXCEPT ![i] = "done"]
    /\ UNCHANGED <<input, phase, at, recorded, options, spare, place, own>>

\* After the wait the last row is that of the estimate without steps.
Wait ==
    /\ phase = "rows"
    /\ \A i \in DOMAIN pc : pc[i] = "done"
    /\ rows' = [rows EXCEPT ![Len(rows)] = Whole]
    /\ phase' = "done"
    /\ UNCHANGED <<input, at, recorded, options, spare, place, own, pc>>

Next ==
    \/ ReadArg \/ Override \/ OverrideFails \/ WithoutSteps \/ Spawn \/ Wait
    \/ \E i \in DOMAIN pc : AppendLayers(i) \/ FillRow(i)

Spec == Init /\ [][Next]_vars

-----------------------------------------------------------------------------

Shown(row) == IF row.full THEN row.layers + 1 ELSE row.layers

\* The table goes from no offloaded layer to all that are asked for, by the step
\* that is asked for, and shows nothing twice: whatever the order in which the
\* rows are filled, whether or not the step divides the layers, and though the
\* output layer comes with the last.
StepsReachTheEnd ==
    phase = "done" /\ Len(rows) > 1 =>
        /\ Shown(rows[1]) = 0
        /\ rows[Len(rows)] = Whole
        /\ \A i \in 1..(Len(rows) - 1) :
              /\ Shown(rows[i]) < Shown(rows[i + 1])
              /\ Shown(rows[i + 1]) - Shown(rows[i]) <= step
              /\ i + 1 < Len(rows) => Shown(rows[i + 1]) - Shown(rows[i]) = step

\* Which arguments are read as flags, and not as the value of the one before;
\* and what the line sets a flag to: the last value that is a number.
Reads == LET reads[i \in DOMAIN line] == i = 1 \/ ~(reads[i - 1] /\ line[i - 1].flag \in Valued) IN reads
Settings(f) ==
    {i \in 1..(Len(line) - 1) : Reads[i] /\ line[i].flag = f /\ line[i + 1].number # Unset}
InLine(f) ==
    IF Settings(f) = {} THEN Unset
    ELSE line[(CHOOSE i \in Settings(f) : \A j \in Settings(f) : j <= i) + 1].number

\* A flag overrides what the command line of the image sets; a flag that is not
\* given overrides nothing.
OnlyFlagsOverride ==
    phase = "done" => \A f \in Option :
        flags[f] = Unset /\ InLine(f) # Unset => options[f] = InLine(f)
=============================================================================
