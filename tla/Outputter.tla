----------------------------- MODULE Outputter -----------------------------
(***************************************************************************)
(* CMPIParameterOutput, rank 2: writes the events the farmer sends and the *)
(* items other ranks pass through to it, in the order they are received,   *)
(* until the farmer's end.                                                 *)
(***************************************************************************)
EXTENDS MPI

VARIABLES opc,       \* where the outputter is
          oheader,   \* the header just received: its source and its trigger
          written    \* the output file: the sequence of records in it

outputVars == <<opc, oheader, written>>

Sources == Ranks \ {2}

OutputInit ==
    /\ opc = "header"
    /\ oheader = [source |-> 1, trigger |-> 0]
    /\ written = <<>>

\* A header from any rank; its tag says what follows.
OutputGetHeader ==
    /\ opc = "header"
    /\ \E r \in Sources :
          /\ Arrived(r, 2, {"HEADER", "PASSTHROUGH"})
          /\ opc' = IF Head(chan[r][2]).tag = "HEADER" THEN "event" ELSE "item"
          /\ oheader' = [source |-> r, trigger |-> FirstBody(r, 2)]
          /\ chan' = Received(r, 2)
    /\ UNCHANGED written

\* The data of an event, from the rank of its header; writeEvent.
OutputEvent ==
    /\ opc = "event"
    /\ Arrived(oheader.source, 2, {"DATA"})
    /\ written' = Append(written, [kind |-> "event", trigger |-> oheader.trigger,
                                   data |-> FirstBody(oheader.source, 2)])
    /\ chan' = Received(oheader.source, 2)
    /\ opc' = "header"
    /\ UNCHANGED oheader

\* The bytes of an item that passes through; writeItem.
OutputItem ==
    /\ opc = "item"
    /\ Arrived(oheader.source, 2, {"DATA"})
    /\ written' = Append(written, [kind |-> "item", trigger |-> 0,
                                   data |-> FirstBody(oheader.source, 2)])
    /\ chan' = Received(oheader.source, 2)
    /\ opc' = "header"
    /\ UNCHANGED oheader

\* An end message leaves the loop, whatever else is on its way.
OutputGetEnd ==
    /\ opc = "header"
    /\ \E r \in Sources : Arrived(r, 2, {"END"}) /\ chan' = Received(r, 2)
    /\ opc' = "finalize"
    /\ UNCHANGED <<oheader, written>>

OutputNext == OutputGetHeader \/ OutputEvent \/ OutputItem \/ OutputGetEnd
=============================================================================
