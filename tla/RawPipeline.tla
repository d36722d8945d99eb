---------------------------- MODULE RawPipeline ----------------------------
(***************************************************************************)
(* A raw to parameter run: rank 0 (CMPIRawReader) cuts the event file into *)
(* blocks and deals one per request; the workers, ranks 3 and up           *)
(* (CMPIRawToParametersWorker), unpack the events of a block for the       *)
(* farmer, and pass every other ring item straight on to the outputter.    *)
(***************************************************************************)
EXTENDS Pipeline

CONSTANTS Files,      \* the event files: sequences of the kinds of ring item
          MaxBlock,   \* most ring items getBlock can return
          CounterMod  \* the dealer counts triggers in an unsigned: 2^32

(***************************************************************************)
(* "physics" is a PHYSICS_EVENT, "other" any other item; "torn" is the     *)
(* item at the end of a truncated file, which CDataReader throws at.       *)
(***************************************************************************)
ItemKinds == {"physics", "other", "torn"}

ASSUME RawAssumption ==
    /\ Files \subseteq Seq(ItemKinds)
    /\ \A f \in Files : 1 .. Len(f) \subseteq Events
    /\ MaxBlock \in Nat \ {0}
    /\ CounterMod \in Nat \ {0}
    /\ CounterMod <= MaxTrigger

VARIABLES file,
          dpc,           \* where the dealer is
          pos,           \* ring items getBlock has handed out
          block,         \* the ring items in hand: a range of positions
          firstTrigger,  \* trigger number of the first event of the block
          dest,          \* the worker whose request is being answered
          eofsLeft,      \* end messages sendEofs has still to send
          wpc,           \* where each worker is
          wblock,        \* the ring items of its block it has not processed
          wtrigger       \* the trigger number of its next event

dealerVars == <<file, dpc, pos, block, firstTrigger, dest, eofsLeft>>
workerVars == <<wpc, wblock, wtrigger>>
vars == <<chan, dealerVars, workerVars, farmerVars, outputVars>>

Init ==
    /\ MPIInit
    /\ file \in Files
    /\ dpc = "read" /\ pos = 0 /\ block = [first |-> 1, last |-> 0]
    /\ firstTrigger = 0 /\ dest = 3 /\ eofsLeft = Size - 3
    /\ wpc = [w \in Workers |-> "request"]
    /\ wblock = [w \in Workers |-> [first |-> 1, last |-> 0]]
    /\ wtrigger = [w \in Workers |-> 0]
    /\ FarmerInit
    /\ OutputInit
-----------------------------------------------------------------------------
PhysicsIn(first, last) == {i \in first .. last : file[i] = "physics"}

countTriggers(b) == Cardinality(PhysicsIn(b.first, b.last))

\* sendData: getBlock returns whole items; how many depends on their sizes.
DealerRead ==
    /\ dpc = "read"
    /\ \E last \in pos + 1 .. Len(file) :
          /\ last <= pos + MaxBlock
          /\ \A i \in pos + 1 .. last : file[i] # "torn"
          /\ block' = [first |-> pos + 1, last |-> last]
          /\ pos' = last
    /\ dpc' = "request"
    /\ UNCHANGED <<chan, file, firstTrigger, dest, eofsLeft>>

\* getBlock returns no data at the end of the file.
DealerEof ==
    /\ dpc = "read" /\ pos = Len(file)
    /\ dpc' = "eofRequest"
    /\ UNCHANGED <<chan, file, pos, block, firstTrigger, dest, eofsLeft>>

(***************************************************************************)
(* getBlock throws at a torn item in the buffer; if that is longer than    *)
(* all the buffer holds, even while whole items precede it.  The exception *)
(* takes AbstractApplication::operator() to MPI_Finalize.                  *)
(***************************************************************************)
DealerThrow ==
    /\ dpc = "read"
    /\ \E i \in pos + 1 .. Len(file) : i <= pos + MaxBlock + 1 /\ file[i] = "torn"
    /\ dpc' = "finalize"
    /\ UNCHANGED <<chan, file, pos, block, firstTrigger, dest, eofsLeft>>

\* getRequest, of sendWorkItem or of sendEof.
DealerGetRequest ==
    /\ dpc \in {"request", "eofRequest"}
    /\ \E w \in Workers :
          /\ Arrived(w, DealerRank, {"REQUEST"})
          /\ dest' = FirstBody(w, DealerRank)
          /\ chan' = Received(w, DealerRank)
    /\ dpc' = IF dpc = "request" THEN "sendHeader" ELSE "sendEof"
    /\ UNCHANGED <<file, pos, block, firstTrigger, eofsLeft>>

DealerSendHeader ==
    /\ dpc = "sendHeader"
    /\ Send(DealerRank, dest, "HEADER", [end |-> FALSE, blockNum |-> firstTrigger])
    /\ dpc' = "sendData"
    /\ UNCHANGED <<file, pos, block, firstTrigger, dest, eofsLeft>>

\* Mutant: every block starts at trigger 0 again.
DealerSendDataRestarts ==
    /\ dpc = "sendData"
    /\ Send(DealerRank, dest, "DATA", block)
    /\ firstTrigger' = 0
    /\ dpc' = "read"
    /\ UNCHANGED <<file, pos, block, dest, eofsLeft>>

DealerSendData ==
    /\ dpc = "sendData"
    /\ Send(DealerRank, dest, "DATA", block)
    /\ firstTrigger' = (firstTrigger + countTriggers(block)) % CounterMod
    /\ dpc' = "read"
    /\ UNCHANGED <<file, pos, block, dest, eofsLeft>>

\* Mutant: the end goes out under MPI_END_TAG.
DealerSendEofEndTag ==
    /\ dpc = "sendEof"
    /\ Send(DealerRank, dest, "END", [end |-> TRUE, blockNum |-> 0])
    /\ eofsLeft' = eofsLeft - 1
    /\ dpc' = IF eofsLeft' = 0 THEN "finalize" ELSE "eofRequest"
    /\ UNCHANGED <<file, pos, block, firstTrigger, dest>>

DealerSendEof ==
    /\ dpc = "sendEof"
    /\ Send(DealerRank, dest, "HEADER", [end |-> TRUE, blockNum |-> 0])
    /\ eofsLeft' = eofsLeft - 1
    /\ dpc' = IF eofsLeft' = 0 THEN "finalize" ELSE "eofRequest"
    /\ UNCHANGED <<file, pos, block, firstTrigger, dest>>

DealerNext ==
    /\ ~ Sending(DealerRank)
    /\ \/ DealerRead
       \/ DealerEof
       \/ DealerThrow
       \/ DealerGetRequest
       \/ DealerSendHeader
       \/ DealerSendData
       \/ DealerSendEof
-----------------------------------------------------------------------------
WorkerRequest(w) ==
    /\ wpc[w] = "request"
    /\ Send(w, DealerRank, "REQUEST", w)
    /\ wpc' = [wpc EXCEPT ![w] = "header"]
    /\ UNCHANGED <<wblock, wtrigger>>

WorkerGetHeader(w) ==
    /\ wpc[w] = "header"
    /\ Arrived(DealerRank, w, {"HEADER"})
    /\ LET header == FirstBody(DealerRank, w)
       IN  /\ wpc' = [wpc EXCEPT ![w] = IF header.end THEN "end" ELSE "data"]
           /\ wtrigger' = [wtrigger EXCEPT ![w] = header.blockNum]
    /\ chan' = Received(DealerRank, w)
    /\ UNCHANGED wblock

WorkerGetData(w) ==
    /\ wpc[w] = "data"
    /\ Arrived(DealerRank, w, {"DATA"})
    /\ wblock' = [wblock EXCEPT ![w] = FirstBody(DealerRank, w)]
    /\ chan' = Received(DealerRank, w)
    /\ wpc' = [wpc EXCEPT ![w] = "process"]
    /\ UNCHANGED wtrigger

\* Mutant: processDataBlock leaves its loop one item early.
NextItemButLast(w) ==
    /\ wblock' = [wblock EXCEPT ![w].first = @ + 1]
    /\ wpc' = [wpc EXCEPT ![w] =
                  IF wblock[w].first + 1 < wblock[w].last THEN "process" ELSE "request"]

\* processDataBlock goes to the next item, or back to request a block.
NextItem(w) ==
    /\ wblock' = [wblock EXCEPT ![w].first = @ + 1]
    /\ wpc' = [wpc EXCEPT ![w] =
                  IF wblock[w].first < wblock[w].last THEN "process" ELSE "request"]

\* unpackData, then sendParameters: the header, then the data.
WorkerSendHeader(w) ==
    /\ wpc[w] = "process" /\ file[wblock[w].first] = "physics"
    /\ Send(w, FarmerRank, "HEADER", wtrigger[w])
    /\ wpc' = [wpc EXCEPT ![w] = "sendData"]
    /\ UNCHANGED <<wblock, wtrigger>>

WorkerSendData(w) ==
    /\ wpc[w] = "sendData"
    /\ Send(w, FarmerRank, "DATA", wblock[w].first)
    /\ wtrigger' = [wtrigger EXCEPT ![w] = NextTrigger(@)]
    /\ NextItem(w)

\* forwardPassThrough: a header that has its own tag, then the ring item.
WorkerForwardHeader(w) ==
    /\ wpc[w] = "process" /\ file[wblock[w].first] = "other"
    /\ Send(w, OutputRank, "PASSTHROUGH", 0)
    /\ wpc' = [wpc EXCEPT ![w] = "forwardData"]
    /\ UNCHANGED <<wblock, wtrigger>>

WorkerForwardData(w) ==
    /\ wpc[w] = "forwardData"
    /\ Send(w, OutputRank, "DATA", wblock[w].first)
    /\ NextItem(w)
    /\ UNCHANGED wtrigger

WorkerSendEnd(w) ==
    /\ wpc[w] = "end"
    /\ Send(w, FarmerRank, "END", 0)
    /\ wpc' = [wpc EXCEPT ![w] = "finalize"]
    /\ UNCHANGED <<wblock, wtrigger>>

WorkerNext(w) ==
    /\ ~ Sending(w)
    /\ \/ WorkerRequest(w)
       \/ WorkerGetHeader(w)
       \/ WorkerGetData(w)
       \/ WorkerSendHeader(w)
       \/ WorkerSendData(w)
       \/ WorkerForwardHeader(w)
       \/ WorkerForwardData(w)
       \/ WorkerSendEnd(w)
-----------------------------------------------------------------------------
DealerStep == DealerNext /\ UNCHANGED <<workerVars, farmerVars, outputVars>>
FarmerStep == FarmerNext /\ UNCHANGED <<dealerVars, workerVars, outputVars>>
OutputStep == OutputNext /\ UNCHANGED <<dealerVars, workerVars, farmerVars>>
WorkerStep(w) == WorkerNext(w) /\ UNCHANGED <<dealerVars, farmerVars, outputVars>>

(***************************************************************************)
(* MPI_Finalize is collective: it returns when every rank has called it.   *)
(***************************************************************************)
AllFinalized ==
    /\ dpc = "finalize" /\ fpc = "finalize" /\ opc = "finalize"
    /\ \A w \in Workers : wpc[w] = "finalize"

Finished == AllFinalized /\ UNCHANGED vars

Next ==
    \/ DealerStep
    \/ FarmerStep
    \/ OutputStep
    \/ \E w \in Workers : WorkerStep(w)
    \/ Finished

\* Every rank is a process of its own, and MPI delivers what was sent.
Spec ==
    /\ Init /\ [][Next]_vars
    /\ WF_vars(DealerStep) /\ WF_vars(FarmerStep) /\ WF_vars(OutputStep)
    /\ \A w \in Workers : WF_vars(WorkerStep(w))
-----------------------------------------------------------------------------
Block == [first : Nat, last : Nat]

ToWorker == Message("HEADER", [end : BOOLEAN, blockNum : Triggers])
            \union Message("DATA", Block)

MessagesOK ==
    /\ DOMAIN chan = Ranks /\ \A r \in Ranks : DOMAIN chan[r] = Ranks
    /\ \A w \in Workers :
          /\ chan[DealerRank][w] \in Seq(ToWorker)
          /\ chan[w][DealerRank] \in Seq(Message("REQUEST", {w}))
    /\ StreamsOK

DealerTypeOK ==
    /\ file \in Seq(ItemKinds)
    /\ dpc \in {"read", "request", "sendHeader", "sendData",
                "eofRequest", "sendEof", "finalize"}
    /\ pos \in 0 .. Len(file)
    /\ block \in Block
    /\ firstTrigger \in 0 .. CounterMod - 1
    /\ dest \in Workers
    /\ eofsLeft \in 0 .. Size - 3

WorkersTypeOK ==
    /\ wpc \in [Workers -> {"request", "header", "data", "process", "sendData",
                            "forwardData", "end", "finalize"}]
    /\ wblock \in [Workers -> Block]
    /\ wtrigger \in [Workers -> Triggers]

TypeOK == MessagesOK /\ DealerTypeOK /\ WorkersTypeOK /\ FarmerTypeOK /\ OutputTypeOK
-----------------------------------------------------------------------------
\* The ring items in the hands of rank r.
InHand(r) ==
    CASE r = DealerRank -> IF dpc \in {"request", "sendHeader", "sendData"}
                           THEN block.first .. block.last ELSE {}
      [] r \in Workers -> wblock[r].first .. wblock[r].last
      [] OTHER -> {}

\* The ring items a message from rank r brings.
Brought(r, msg) ==
    IF msg.tag # "DATA" THEN {}
    ELSE IF r = DealerRank THEN msg.body.first .. msg.body.last ELSE {msg.body}

\* How many copies of ring item i there are between the dealer and the file.
Copies(i) ==
    LET inMessages == {p \in Ranks \X Ranks : \E k \in DOMAIN chan[p[1]][p[2]] :
                                                   i \in Brought(p[1], chan[p[1]][p[2]][k])}
        waiting == {t \in DOMAIN m_items : m_items[t] = i}
        unsent == {k \in fsent + 1 .. Len(emitted) : emitted[k].event = i}
        inFile == {k \in DOMAIN written : written[k].data = i}
    IN  Cardinality({r \in Ranks : i \in InHand(r)}) + Cardinality(inMessages)
          + Cardinality(waiting) + Cardinality(unsent) + Cardinality(inFile)

(***************************************************************************)
(* Every ring item the dealer has read is in exactly one place: with one   *)
(* rank, in one message or once in the file.  No hand-over of the          *)
(* header/data protocol drops an item or duplicates it.                    *)
(***************************************************************************)
ExactlyOnce == \A i \in 1 .. pos : Copies(i) = 1

EventsOf(f) == InOrder({i \in DOMAIN f : f[i] = "physics"})

(***************************************************************************)
(* The farmer is a client the sorter can live with: it hands in every      *)
(* trigger number once, and nothing after the flush.  With the theorems    *)
(* about SorterSpec this orders the farmer's output.                       *)
(***************************************************************************)
UsesSorterProperly == SorterInit /\ [][SorterNext]_sorterVars

(***************************************************************************)
(* A rank that leaves for MPI_Finalize leaves nothing behind that another  *)
(* rank still waits for: once all of them are there, the file holds every  *)
(* ring item of the input, events and passed on items alike.               *)
(***************************************************************************)
NothingMissing ==
    AllFinalized => {written[k].data : k \in DOMAIN written} = 1 .. Len(file)

Whole == \A i \in DOMAIN file : file[i] # "torn"

(***************************************************************************)
(* Every run on a whole file ends: the blocking sends and receives of the  *)
(* ranks never wait for each other in a circle, and every rank gets as     *)
(* many ends as it waits for.                                              *)
(***************************************************************************)
Termination == Whole => <>AllFinalized

(***************************************************************************)
(* Whatever stops the dealer, every event it has read reaches the file:    *)
(* workers, farmer and outputter still hand on all that was dealt.         *)
(***************************************************************************)
ReadIsWritten ==
    dpc = "finalize" ~> Len(WrittenEvents) = Cardinality(PhysicsIn(1, pos))

\* What the run does to the events is what EventStream says.
Stream == INSTANCE EventStream
    WITH input <- EventsOf(file), output <- WrittenEvents, closed <- opc = "finalize"

(***************************************************************************)
(* However the workers interleave, the pipeline implements the plain       *)
(* stream: the k-th event of the output file is the k-th event of the      *)
(* input file, under its number (s_triggerCount is "the number of the      *)
(* event in the input file", paramfileformat.md:155), and the outputter    *)
(* ends only when all of them are written.                                 *)
(***************************************************************************)
ImplementsStream == Stream!Spec
=============================================================================
