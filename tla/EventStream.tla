---------------------------- MODULE EventStream ----------------------------
(***************************************************************************)
(* What a whole run promises about the events, with no processes in it:    *)
(* the output file receives the events of the input file one by one, in    *)
(* the order and under the numbers they have there, and is closed once all *)
(* of them are in.                                                         *)
(***************************************************************************)
EXTENDS Naturals, Sequences

VARIABLES input,   \* the events of the input file
          output,  \* the events written
          closed   \* the outputter has finished

Init == output = <<>> /\ closed = FALSE

Deliver ==
    /\ ~ closed
    /\ Len(output) < Len(input)
    /\ output' = Append(output, [trigger |-> Len(output), data |-> input[Len(output) + 1]])
    /\ UNCHANGED <<input, closed>>

Close ==
    /\ ~ closed
    /\ Len(output) = Len(input)
    /\ closed' = TRUE
    /\ UNCHANGED <<input, output>>

Next == Deliver \/ Close

Spec == Init /\ [][Next]_<<input, output, closed>>
=============================================================================
