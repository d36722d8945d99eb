--------------------------- MODULE ParamPipeline ---------------------------
(***************************************************************************)
(* A parameter to parameter run: rank 0 (CMPIParameterDealer) pushes the   *)
(* definitions at the front of the file to every worker, then deals one    *)
(* event per request and passes other items to the outputter itself; the   *)
(* workers (CMPIParametersToParametersWorker) turn each event into a new   *)
(* one for the farmer.                                                     *)
(***************************************************************************)
EXTENDS Pipeline

CONSTANTS Files,       \* the input files: sequences of the kinds of ring item
          Definitions, \* which definition items can be non-empty
          BlockCaps    \* how many ring items may fit in the reader's buffer

\* A "torn" item is cut off by the end of the file.  A data item stores its
\* trigger number in the type of the trigger numbers.
ItemKinds == {"defs", "vars", "data", "other", "torn"}

ASSUME ParamAssumption ==
    /\ Files \subseteq Seq(ItemKinds)
    /\ \A f \in Files : 1 .. Len(f) \subseteq Events
    /\ \A f \in Files : Cardinality({i \in DOMAIN f : f[i] = "data"}) <= MaxTrigger + 1
    /\ Definitions \subseteq SUBSET {"params", "vars"}
    /\ BlockCaps \subseteq Nat \ {0}

VARIABLES file,
          defined,   \* the definition items of the file that are not empty
          dpc,       \* where the dealer is
          first,     \* ring items of the file before the current block
          len,       \* ring items of the block
          cur,       \* the slot of the buffer pItem points to
          nItems,    \* ring items of the block still to deal
          item,      \* the ring item being dealt
          pushed,    \* pushes done to all workers
          dest,      \* the worker being sent to
          eofsLeft,  \* end messages still to send
          wpc,       \* where each worker is
          wtrigger,  \* the trigger number in the header it has received
          wevent     \* the event it has received

dealerVars == <<file, defined, dpc, first, len, cur, nItems, item, pushed, dest, eofsLeft>>
workerVars == <<wpc, wtrigger, wevent>>
vars == <<chan, dealerVars, workerVars, farmerVars, outputVars>>

\* What a worker receives before it asks for events, in this order.
Expected == <<"paramCount", "params", "varCount", "vars">>

Init ==
    /\ MPIInit
    /\ file \in Files /\ defined \in Definitions
    /\ dpc = "read" /\ first = 0 /\ len = 0 /\ cur = 3 /\ nItems = 0 /\ item = 0
    /\ pushed = 0 /\ dest = 3 /\ eofsLeft = Size - 3
    /\ wpc = [w \in Workers |-> "paramCount"]
    /\ wtrigger = [w \in Workers |-> 0]
    /\ wevent = [w \in Workers |-> 0]
    /\ FarmerInit
    /\ OutputInit
-----------------------------------------------------------------------------
\* What the reader can still return: the items before a torn one.
WholeFrom(from) ==
    Cardinality({i \in from + 1 .. Len(file) : \A j \in from + 1 .. i : file[j] # "torn"})

\* How many items getBlock may return, after the first `from`; 0 at the end.
BlockLens(from) ==
    {IF WholeFrom(from) <= cap THEN WholeFrom(from) ELSE cap : cap \in BlockCaps}
      \ (IF from < Len(file) THEN {0} ELSE {})

(***************************************************************************)
(* getBlock throws at a torn item in the buffer; if that is longer than    *)
(* all the buffer holds, even while whole items precede it.                *)
(***************************************************************************)
MayThrow(from) ==
    from + WholeFrom(from) < Len(file) /\ \E cap \in BlockCaps : WholeFrom(from) < cap

\* The trigger number stored in data item i: the number of the event.
TriggerOf(i) == Cardinality({j \in 1 .. i - 1 : file[j] = "data"})

(***************************************************************************)
(* The item pItem points to, if slots were of equal size: one of the block *)
(* or, beyond the block, whatever the memory holds.                        *)
(***************************************************************************)
ItemsAt(slot) == IF slot <= len THEN {first + slot} ELSE 1 .. Len(file)

\* What the dealer pushes: a list that is empty is not sent.
Pushes ==
    <<"paramCount">> \o (IF "params" \in defined THEN <<"params">> ELSE <<>>)
      \o <<"varCount">> \o (IF "vars" \in defined THEN <<"vars">> ELSE <<>>)

TagOfAny(push) == "PARAMDEF"  \* mutant: one tag for all definitions

TagOf(push) == IF push \in {"paramCount", "params"} THEN "PARAMDEF" ELSE "VARIABLES"

(***************************************************************************)
(* The first getBlock.  Without data every worker is sent an end at its    *)
(* first request; with less than two items, or if the first is not the     *)
(* parameter definitions, the dealer throws.                               *)
(***************************************************************************)
DealerRead ==
    /\ dpc = "read"
    /\ \E n \in BlockLens(0) :
          /\ len' = n
          /\ nItems' = IF n < 2 THEN 0 ELSE n - 2
          /\ dpc' = IF file = <<>> THEN "eofRequest"
                    ELSE IF n >= 2 /\ file[1] = "defs" THEN "push" ELSE "finalize"
    /\ UNCHANGED <<chan, file, defined, first, cur, item, pushed, dest, eofsLeft>>

\* The first getBlock throws.
DealerThrow ==
    /\ dpc = "read" /\ MayThrow(0)
    /\ dpc' = "finalize"
    /\ UNCHANGED <<chan, file, defined, first, len, cur, nItems, item, pushed, dest, eofsLeft>>

\* The push to the next worker; once all have it the variables are checked.
DealerPush ==
    /\ dpc = "push"
    /\ Send(DealerRank, dest, TagOf(Pushes[pushed + 1]), Pushes[pushed + 1])
    /\ IF dest < Size - 1
       THEN dest' = dest + 1 /\ UNCHANGED <<dpc, pushed>>
       ELSE /\ dest' = 3
            /\ pushed' = pushed + 1
            /\ dpc' = IF pushed' = Len(Pushes)
                      THEN IF nItems = 0 THEN "eofRequest" ELSE "take"
                      ELSE IF Pushes[pushed' + 1] = "varCount" /\ file[2] # "vars"
                           THEN "finalize" ELSE "push"
    /\ UNCHANGED <<file, defined, first, len, cur, nItems, item, eofsLeft>>

\* sendData looks at the item: an event waits for a request.
DealerTake ==
    /\ dpc = "take"
    /\ item' \in ItemsAt(cur)
    /\ dpc' = IF file[item'] = "data" THEN "request" ELSE "passHeader"
    /\ UNCHANGED <<chan, file, defined, first, len, cur, nItems, pushed, dest, eofsLeft>>

\* Mutant: the last item of a block is not dealt.
NextItemStopsEarly ==
    /\ UNCHANGED <<first, len>>
    /\ nItems' = nItems - 1
    /\ cur' = cur + 1
    /\ dpc' = IF nItems <= 2 THEN "eofRequest" ELSE "take"

(***************************************************************************)
(* The end of the loop of sendData.  The next block replaces nItems and    *)
(* pData; pItem, which the loop reads, still points to the slot of the     *)
(* last item of the old block.                                             *)
(***************************************************************************)
NextItem ==
    \/ /\ nItems > 1
       /\ nItems' = nItems - 1
       /\ cur' = cur + 1
       /\ dpc' = "take"
       /\ UNCHANGED <<first, len>>
    \/ /\ nItems = 1
       /\ first' = first + len
       /\ \E n \in BlockLens(first') :
             /\ len' = n
             /\ nItems' = n
             /\ dpc' = IF n > 0 THEN "take" ELSE "eofRequest"
       /\ UNCHANGED cur
    \/ /\ nItems = 1 /\ MayThrow(first + len)
       /\ dpc' = "finalize"
       /\ UNCHANGED <<first, len, cur, nItems>>

\* getRequest, of sendWorkItem or of sendEof.
DealerGetRequest ==
    /\ dpc \in {"request", "eofRequest"}
    /\ \E w \in Workers :
          /\ Arrived(w, DealerRank, {"REQUEST"})
          /\ dest' = FirstBody(w, DealerRank)
          /\ chan' = Received(w, DealerRank)
    /\ dpc' = IF dpc = "request" THEN "sendHeader" ELSE "sendEof"
    /\ UNCHANGED <<file, defined, first, len, cur, nItems, item, pushed, eofsLeft>>

DealerSendHeader ==
    /\ dpc = "sendHeader"
    /\ Send(DealerRank, dest, "HEADER", [end |-> FALSE, trigger |-> TriggerOf(item)])
    /\ dpc' = "sendData"
    /\ UNCHANGED <<file, defined, first, len, cur, nItems, item, pushed, dest, eofsLeft>>

DealerSendData ==
    /\ dpc = "sendData"
    /\ Send(DealerRank, dest, "DATA", item)
    /\ NextItem
    /\ UNCHANGED <<file, defined, item, pushed, dest, eofsLeft>>

\* sendPassthrough, through forwardPassThrough.
DealerPassHeader ==
    /\ dpc = "passHeader"
    /\ Send(DealerRank, OutputRank, "PASSTHROUGH", 0)
    /\ dpc' = "passData"
    /\ UNCHANGED <<file, defined, first, len, cur, nItems, item, pushed, dest, eofsLeft>>

DealerPassData ==
    /\ dpc = "passData"
    /\ Send(DealerRank, OutputRank, "DATA", item)
    /\ NextItem
    /\ UNCHANGED <<file, defined, item, pushed, dest, eofsLeft>>

\* Mutant: one end too few.
DealerSendEofTooFew ==
    /\ dpc = "sendEof"
    /\ Send(DealerRank, dest, "HEADER", [end |-> TRUE, trigger |-> 0])
    /\ eofsLeft' = eofsLeft - 1
    /\ dpc' = IF eofsLeft' <= 1 THEN "finalize" ELSE "eofRequest"
    /\ UNCHANGED <<file, defined, first, len, cur, nItems, item, pushed, dest>>

DealerSendEof ==
    /\ dpc = "sendEof"
    /\ Send(DealerRank, dest, "HEADER", [end |-> TRUE, trigger |-> 0])
    /\ eofsLeft' = eofsLeft - 1
    /\ dpc' = IF eofsLeft' = 0 THEN "finalize" ELSE "eofRequest"
    /\ UNCHANGED <<file, defined, first, len, cur, nItems, item, pushed, dest>>

DealerNext ==
    /\ ~ Sending(DealerRank)
    /\ \/ DealerRead
       \/ DealerThrow
       \/ DealerPush
       \/ DealerTake
       \/ DealerGetRequest
       \/ DealerSendHeader
       \/ DealerSendData
       \/ DealerPassHeader
       \/ DealerPassData
       \/ DealerSendEof
-----------------------------------------------------------------------------
\* Mutant: the variables are asked for first.
WorkerGetPushSwapped(w) ==
    /\ \E k \in DOMAIN Expected :
          /\ wpc[w] = Expected[k]
          /\ Arrived(DealerRank, w, {"PARAMDEF", "VARIABLES"})
          /\ wpc' = [wpc EXCEPT ![w] = IF k = 1 THEN "varCount" ELSE
                                       IF k = Len(Expected) THEN "request" ELSE Expected[k + 1]]
    /\ chan' = Received(DealerRank, w)
    /\ UNCHANGED <<wtrigger, wevent>>

\* One receive of receiveParameterDefinitions or receiveVariableDefinitions.
WorkerGetPush(w) ==
    /\ \E k \in DOMAIN Expected :
          /\ wpc[w] = Expected[k]
          /\ Arrived(DealerRank, w, {TagOf(Expected[k])})
          /\ wpc' = [wpc EXCEPT ![w] = IF k = Len(Expected) THEN "request" ELSE Expected[k + 1]]
    /\ chan' = Received(DealerRank, w)
    /\ UNCHANGED <<wtrigger, wevent>>

WorkerRequest(w) ==
    /\ wpc[w] = "request"
    /\ Send(w, DealerRank, "REQUEST", w)
    /\ wpc' = [wpc EXCEPT ![w] = "header"]
    /\ UNCHANGED <<wtrigger, wevent>>

WorkerGetHeader(w) ==
    /\ wpc[w] = "header"
    /\ Arrived(DealerRank, w, {"HEADER"})
    /\ LET header == FirstBody(DealerRank, w)
       IN  /\ wpc' = [wpc EXCEPT ![w] = IF header.end THEN "end" ELSE "data"]
           /\ wtrigger' = [wtrigger EXCEPT ![w] = header.trigger]
    /\ chan' = Received(DealerRank, w)
    /\ UNCHANGED wevent

\* The data; loadTreeParameters and process make of them a new event.
WorkerGetData(w) ==
    /\ wpc[w] = "data"
    /\ Arrived(DealerRank, w, {"DATA"})
    /\ wevent' = [wevent EXCEPT ![w] = FirstBody(DealerRank, w)]
    /\ chan' = Received(DealerRank, w)
    /\ wpc' = [wpc EXCEPT ![w] = "sendHeader"]
    /\ UNCHANGED wtrigger

WorkerSendHeader(w) ==
    /\ wpc[w] = "sendHeader"
    /\ Send(w, FarmerRank, "HEADER", wtrigger[w])
    /\ wpc' = [wpc EXCEPT ![w] = "sendData"]
    /\ UNCHANGED <<wtrigger, wevent>>

WorkerSendData(w) ==
    /\ wpc[w] = "sendData"
    /\ Send(w, FarmerRank, "DATA", wevent[w])
    /\ wpc' = [wpc EXCEPT ![w] = "request"]
    /\ UNCHANGED <<wtrigger, wevent>>

WorkerSendEnd(w) ==
    /\ wpc[w] = "end"
    /\ Send(w, FarmerRank, "END", 0)
    /\ wpc' = [wpc EXCEPT ![w] = "finalize"]
    /\ UNCHANGED <<wtrigger, wevent>>

WorkerNext(w) ==
    /\ ~ Sending(w)
    /\ \/ WorkerGetPush(w)
       \/ WorkerRequest(w)
       \/ WorkerGetHeader(w)
       \/ WorkerGetData(w)
       \/ WorkerSendHeader(w)
       \/ WorkerSendData(w)
       \/ WorkerSendEnd(w)
-----------------------------------------------------------------------------
DealerStep == DealerNext /\ UNCHANGED <<workerVars, farmerVars, outputVars>>
FarmerStep == FarmerNext /\ UNCHANGED <<dealerVars, workerVars, outputVars>>
OutputStep == OutputNext /\ UNCHANGED <<dealerVars, workerVars, farmerVars>>
WorkerStep(w) == WorkerNext(w) /\ UNCHANGED <<dealerVars, farmerVars, outputVars>>

\* MPI_Finalize returns when every rank has called it.
AllFinalized ==
    /\ dpc = "finalize" /\ fpc = "finalize" /\ opc = "finalize"
    /\ \A w \in Workers : wpc[w] = "finalize"

Finished == AllFinalized /\ UNCHANGED vars

Next ==
    \/ DealerStep
    \/ FarmerStep
    \/ OutputStep
    \/ \E w \in Workers : WorkerStep(w)
    \/ Finished

\* Every rank is a process of its own, and MPI delivers what was sent.
Spec ==
    /\ Init /\ [][Next]_vars
    /\ WF_vars(DealerStep) /\ WF_vars(FarmerStep) /\ WF_vars(OutputStep)
    /\ \A w \in Workers : WF_vars(WorkerStep(w))
-----------------------------------------------------------------------------
ToWorker == Message("PARAMDEF", {"paramCount", "params"})
            \union Message("VARIABLES", {"varCount", "vars"})
            \union Message("HEADER", [end : BOOLEAN, trigger : Triggers])
            \union Message("DATA", Events)

MessagesOK ==
    /\ \A w \in Workers :
          /\ chan[DealerRank][w] \in Seq(ToWorker)
          /\ chan[w][DealerRank] \in Seq(Message("REQUEST", {w}))
          /\ chan[w][OutputRank] = <<>>
    /\ StreamsOK

DealerTypeOK ==
    /\ file \in Files /\ defined \in Definitions
    /\ dpc \in {"read", "push", "take", "request", "sendHeader", "sendData",
                "passHeader", "passData", "eofRequest", "sendEof", "finalize"}
    /\ first \in 0 .. Len(file) /\ len \in 0 .. Len(file) - first
    /\ cur \in Nat /\ nItems \in 0 .. len
    /\ item \in 0 .. Len(file)
    /\ pushed \in 0 .. Len(Pushes)
    /\ dest \in Workers /\ eofsLeft \in 0 .. Size - 3

WorkersTypeOK ==
    /\ wpc \in [Workers -> {"paramCount", "params", "varCount", "vars", "request", "header",
                            "data", "sendHeader", "sendData", "end", "finalize"}]
    /\ wtrigger \in [Workers -> Triggers]
    /\ wevent \in [Workers -> Events \union {0}]

TypeOK == MessagesOK /\ DealerTypeOK /\ WorkersTypeOK /\ FarmerTypeOK /\ OutputTypeOK
-----------------------------------------------------------------------------
EventsOf(f) == InOrder({i \in DOMAIN f : f[i] = "data"})

(***************************************************************************)
(* However the workers interleave, the k-th event of the output file is    *)
(* the k-th event of the input file, under the number it has there         *)
(* (paramfileformat.md:155).                                               *)
(***************************************************************************)
NumberedAsInInput ==
    \A k \in DOMAIN WrittenEvents :
        /\ k <= Len(EventsOf(file))
        /\ WrittenEvents[k].trigger = k - 1
        /\ WrittenEvents[k].data = EventsOf(file)[k]

(***************************************************************************)
(* The pushes and the answers to requests reach a worker in the order in   *)
(* which its receives ask for them: parameter definitions, variable        *)
(* values, then a header and its data for every event.  The first message  *)
(* waiting is always the one the worker waits for, so no receive can match *)
(* a message meant for a later one.                                        *)
(***************************************************************************)
ReceivedInOrder ==
    \A w \in Workers :
        chan[DealerRank][w] # <<>> =>
            LET msg == Head(chan[DealerRank][w])
                pending == {k \in DOMAIN Expected : wpc[w] = Expected[k]}
            IN  IF pending = {}
                THEN msg.tag = IF wpc[w] = "data" THEN "DATA" ELSE "HEADER"
                ELSE \A k \in pending : msg.body = Expected[k]

\* Does the file start with the two items that describe it?
WellFormed == file # <<>> => /\ Len(file) >= 2
                             /\ file[1] = "defs"
                             /\ file[2] = "vars"

Whole == \A i \in DOMAIN file : file[i] # "torn"

(***************************************************************************)
(* Every run on a whole file that describes itself ends: the number of     *)
(* pushes, answers and ends that are sent is the number that is awaited.   *)
(***************************************************************************)
Termination == WellFormed /\ Whole => <>AllFinalized

\* What the run does to the events is what EventStream says.
Stream == INSTANCE EventStream
    WITH input <- IF WellFormed THEN EventsOf(file) ELSE <<>>,
         output <- WrittenEvents,
         closed <- opc = "finalize"

(***************************************************************************)
(* The pipeline implements the plain stream of events, which ends only     *)
(* when all of them are written.  Nothing of a file that does not start    *)
(* with its definitions is in the stream: the checks of the dealer come    *)
(* before the first event, wherever the file goes wrong                    *)
(* (MPIParameterDealer.cpp:78, 159, 207).                                  *)
(***************************************************************************)
ImplementsStream == Stream!Spec
=============================================================================
