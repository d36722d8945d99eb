------------------------------ MODULE Pipeline ------------------------------
(***************************************************************************)
(* What the two kinds of run have in common: the farmer (rank 1) and the   *)
(* outputter (rank 2), what they are sent, and how the events in the       *)
(* output file are read back out of it.                                    *)
(***************************************************************************)
EXTENDS Farmer, Outputter

\* An event is a header and its data; who has no more sends an end.
EventMessages == Message("HEADER", Triggers) \union Message("DATA", Events)
                 \union Message("END", {0})

\* A ring item that is passed on.
PassedOn == Message("PASSTHROUGH", {0}) \union Message("DATA", Events)

\* What the farmer and the outputter are sent.
StreamsOK ==
    /\ \A w \in Workers : chan[w][FarmerRank] \in Seq(EventMessages)
    /\ chan[FarmerRank][OutputRank] \in Seq(EventMessages)
    /\ \A r \in Sources \ {FarmerRank} : chan[r][OutputRank] \in Seq(PassedOn)

OutputTypeOK ==
    /\ opc \in {"header", "event", "item", "finalize"}
    /\ oheader \in [source : Sources, trigger : Triggers]
    /\ written \in Seq([kind : {"event", "item"}, trigger : Triggers, data : Events])
-----------------------------------------------------------------------------
\* The members of a finite set of numbers in ascending order.
InOrder(S) ==
    [k \in 1 .. Cardinality(S) |-> CHOOSE x \in S : Cardinality({y \in S : y <= x}) = k]

\* Where the events are in the output file, among the items passed on.
EventPlaces == {k \in DOMAIN written : written[k].kind = "event"}

WrittenEvents ==
    [n \in DOMAIN InOrder(EventPlaces) |->
        LET r == written[InOrder(EventPlaces)[n]]
        IN  [trigger |-> r.trigger, data |-> r.data]]
=============================================================================
