------------------------------ MODULE Commands ------------------------------
(***************************************************************************)
(* A process of gguf-packer runs one command: `remove`, with arguments and *)
(* the store that is there (Removal), or `estimate`, with the command line *)
(* of an image and with flags (Estimate).  The other has nothing to do.    *)
(***************************************************************************)
EXTENDS Removal

CONSTANTS Blocks, Inputs, Unset     \* of Estimate

VARIABLES
    command,    \* the subcommand
    line, flags, step, phase, argument, recorded, options, spare, place, own, rowpc, rows

estimating == <<line, flags, step, phase, argument, recorded, options, spare, place, own, rowpc, rows>>

Estimator == INSTANCE Estimate WITH at <- argument, pc <- rowpc

ASSUME EstimateAssumption ==
    /\ Blocks \in Nat \ {0}
    /\ Unset \notin Int
    /\ \A input \in Inputs :
           /\ input.line \in Seq([flag : STRING, number : Int \cup {Unset}])
           /\ input.flags \in [Estimator!Valued -> Int \cup {Unset}] /\ input.step \in Nat

NothingToEstimate == Estimator!Start(<<>>, [f \in Estimator!Valued |-> Unset], 0, FALSE)

NothingToRemove ==
    /\ link = [q \in Path |-> None] /\ config = {} /\ layers = {}
    /\ args = <<>> /\ pc = "parse" /\ todo = {} /\ at = 0 /\ doing = "none" /\ target = Nothing
    /\ found = <<>> /\ answer = <<>> /\ cut = FALSE
    /\ before = [links |-> link, listed |-> {}]

CommandInit ==
    \/ command = "remove" /\ Init /\ NothingToEstimate
    \/ command = "estimate" /\ Estimator!Init /\ NothingToRemove

CommandNext ==
    /\ \/ command = "remove" /\ Next /\ UNCHANGED estimating
       \/ command = "estimate" /\ Estimator!Next /\ UNCHANGED vars
    /\ UNCHANGED command

CommandSpec == CommandInit /\ [][CommandNext]_<<vars, estimating, command>>

\* The table of `estimate` goes from no offloaded layer to all that are asked
\* for, whatever the order in which its goroutines end (Estimate has it).
StepsReachTheEnd == Estimator!StepsReachTheEnd

\* Only flags that are given override the image (Estimate has it).
OnlyFlagsOverride == Estimator!OnlyFlagsOverride
=============================================================================
