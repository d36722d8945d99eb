------------------------------- MODULE Farmer -------------------------------
(***************************************************************************)
(* CMPIParameterFarmer, rank 1: takes the events of all workers as pairs   *)
(* of messages, a header and its data, lets CTriggerSorter put them in     *)
(* order, and passes what the sorter emits to the outputter, rank 2        *)
(* (CMPITriggerSorter::emitItem).                                          *)
(***************************************************************************)
EXTENDS MPI, TriggerSorter

DealerRank == 0
FarmerRank == 1
OutputRank == 2
Workers == 3 .. Size - 1

VARIABLES fpc,          \* where the farmer is
          m_nEndsLeft,  \* workers that have not sent an end
          fheader,      \* the header getItem has just received, and its source
          fsent         \* how many of the emitted items have been sent

farmerVars == <<fpc, m_nEndsLeft, fheader, fsent, sorterVars>>

FarmerTypeOK ==
    /\ SorterTypeOK
    /\ fpc \in {"header", "data", "emitHeader", "emitData", "end", "finalize"}
    /\ m_nEndsLeft \in 0 .. Size - 3
    /\ fheader \in [source : Workers, trigger : Triggers]
    /\ fsent \in Nat

\* Mutant: the farmer counts itself among the ranks that will send an end.
FarmerInitMiscounts ==
    /\ SorterInit
    /\ fpc = "header"
    /\ m_nEndsLeft = Size - 2
    /\ fheader = [source |-> 3, trigger |-> 0]
    /\ fsent = 0

FarmerInit ==
    /\ SorterInit
    /\ fpc = "header"
    /\ m_nEndsLeft = Size - 3
    /\ fheader = [source |-> 3, trigger |-> 0]
    /\ fsent = 0

\* What follows once n of the emitted items are sent.
AfterEmitting(n) ==
    IF n < Len(emitted') THEN "emitHeader" ELSE IF flushed' THEN "end" ELSE "header"

\* getItem: the header of an event, from any worker.
FarmerGetHeader ==
    /\ fpc = "header"
    /\ \E w \in Workers :
          /\ Arrived(w, FarmerRank, {"HEADER"})
          /\ fheader' = [source |-> w, trigger |-> FirstBody(w, FarmerRank)]
          /\ chan' = Received(w, FarmerRank)
    /\ fpc' = "data"
    /\ UNCHANGED <<m_nEndsLeft, fsent, sorterVars>>

(***************************************************************************)
(* Mutant: the data are received from MPI_ANY_SOURCE.  Such a receive may  *)
(* match the first data of another worker, whose header is not taken yet.  *)
(***************************************************************************)
FarmerGetDataOfAny ==
    /\ fpc = "data"
    /\ \E w \in Workers :
          LET queue == chan[w][FarmerRank]
              data == {i \in DOMAIN queue : queue[i].tag = "DATA"}
          IN  \E i \in data :
                 /\ \A j \in data : i <= j
                 /\ AddItem([trigger |-> fheader.trigger, event |-> queue[i].body])
                 /\ chan' = [chan EXCEPT ![w][FarmerRank] =
                                SubSeq(@, 1, i - 1) \o SubSeq(@, i + 1, Len(@))]
    /\ fpc' = AfterEmitting(fsent)
    /\ UNCHANGED <<m_nEndsLeft, fheader, fsent>>

\* getItem: the data, from the rank the header came from; addItem.
FarmerGetData ==
    /\ fpc = "data"
    /\ Arrived(fheader.source, FarmerRank, {"DATA"})
    /\ AddItem([trigger |-> fheader.trigger,
                event |-> FirstBody(fheader.source, FarmerRank)])
    /\ chan' = Received(fheader.source, FarmerRank)
    /\ fpc' = AfterEmitting(fsent)
    /\ UNCHANGED <<m_nEndsLeft, fheader, fsent>>

\* A worker has ended; after the last one the sorter is flushed.
FarmerGetEnd ==
    /\ fpc = "header"
    /\ \E w \in Workers :
          /\ Arrived(w, FarmerRank, {"END"})
          /\ chan' = Received(w, FarmerRank)
    /\ m_nEndsLeft' = m_nEndsLeft - 1
    /\ IF m_nEndsLeft' = 0 THEN Flush ELSE UNCHANGED sorterVars
    /\ fpc' = AfterEmitting(fsent)
    /\ UNCHANGED <<fheader, fsent>>

\* emitItem sends the header, then the data.
FarmerEmitHeader ==
    /\ fpc = "emitHeader"
    /\ Send(FarmerRank, OutputRank, "HEADER", emitted[fsent + 1].trigger)
    /\ fpc' = "emitData"
    /\ UNCHANGED <<m_nEndsLeft, fheader, fsent, sorterVars>>

FarmerEmitData ==
    /\ fpc = "emitData"
    /\ Send(FarmerRank, OutputRank, "DATA", emitted[fsent + 1].event)
    /\ fsent' = fsent + 1
    /\ UNCHANGED <<m_nEndsLeft, fheader, sorterVars>>
    /\ fpc' = AfterEmitting(fsent + 1)

FarmerSendEnd ==
    /\ fpc = "end"
    /\ Send(FarmerRank, OutputRank, "END", 0)
    /\ fpc' = "finalize"
    /\ UNCHANGED <<m_nEndsLeft, fheader, fsent, sorterVars>>

FarmerNext ==
    /\ ~ Sending(FarmerRank)
    /\ \/ FarmerGetHeader
       \/ FarmerGetData
       \/ FarmerGetEnd
       \/ FarmerEmitHeader
       \/ FarmerEmitData
       \/ FarmerSendEnd
=============================================================================
