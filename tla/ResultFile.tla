----------------------------- MODULE ResultFile -----------------------------
(***************************************************************************)
(* One run writes a file, with CDataWriter, and the next reads it again:   *)
(* CMPIParameterDealer, through CDataReader, and what it makes of the      *)
(* items for the messages to the workers.  A file that no CDataWriter has  *)
(* written is handed out to a client that looks at no item.                *)
(***************************************************************************)
EXTENDS DataReader

CONSTANTS Parameters, Variables,  \* what the dictionaries of the writer may be,
                                  \* in the order of names
          Calls,                  \* of writeEvent and writeItem
          MaxCalls,               \* bound: how many of them
          Capacities,             \* bytes that the disk may have room for
          MAX_IDENT, MAX_UNITS_LENGTH

INSTANCE DataWriter

VARIABLES calls,    \* what has been written, item by item,
          written,  \* and as bytes
          due,      \* whether sendDefinitions is still to be called
          sent      \* what it has sent

fileVars == <<calls, written, due, sent>>

NothingSent == [parameters |-> <<>>, variables |-> <<>>]

FileInit ==
    \/ /\ Init
       /\ calls = <<>> /\ written = <<>> /\ due = FALSE /\ sent = NothingSent
    \/ /\ pc = "write" /\ file = <<>> /\ fpos = 0
       /\ m_nBufferSize \in BufferSizes
       /\ m_pBuffer = [c \in Slots |-> Junk]
       /\ m_nBytes = 0 /\ m_eof = FALSE /\ m_fReleased = TRUE
       /\ m_nUserBytes = 0 /\ m_nUserItems = 0 /\ maxBytes = 0
       /\ handed = <<>> /\ handedItems = 0
       /\ calls = <<>> /\ written = <<>> /\ due = TRUE /\ sent = NothingSent
-----------------------------------------------------------------------------
Bytes(call) ==
    CASE call.what = "parameters" -> writeParameterDefs(call.defs)
      [] call.what = "variables"  -> writeVariableDefs(call.defs)
      [] call.what = "event"      -> writeEvent(call.event, call.trigger)
      [] call.what = "item"       -> writeItem(call.size)

Writes(more) ==
    /\ pc = "write"
    /\ calls' = calls \o more
    /\ written' = written \o [k \in DOMAIN more |-> Bytes(more[k])]
    /\ UNCHANGED <<vars, due, sent>>

\* The constructor.
writeFrontMatter ==
    /\ calls = <<>>
    /\ \E p \in Parameters, v \in Variables :
          Writes(<<[what |-> "parameters", defs |-> p], [what |-> "variables", defs |-> v]>>)

WriteNext ==
    /\ calls # <<>> /\ Len(calls) < 2 + MaxCalls
    /\ \E call \in Calls : Writes(<<call>>)

\* The cells of a file: of each byte its place, and what the item says it has.
CellsOf(items) ==
    FlattenSeq([i \in DOMAIN items |->
                   [k \in DOMAIN items[i] |-> [item |-> i, at |-> k,
                                               size |-> items[i][1].value]]])

(***************************************************************************)
(* The destructor.  What write() returns is not looked at: when the disk   *)
(* is full the rest is lost, and nobody is told.                           *)
(***************************************************************************)
Close ==
    /\ pc = "write" /\ calls # <<>>
    /\ \E room \in Capacities :
          file' = SubSeq(CellsOf(written), 1, Smaller(room, Len(CellsOf(written))))
    /\ pc' = "construct"
    /\ UNCHANGED <<fpos, m_nBufferSize, m_pBuffer, m_nBytes, m_eof, m_fReleased, request,
                   history, fileVars>>
-----------------------------------------------------------------------------
\* What the dealer reads in its memory, c bytes from the front of the block.
Wild == [value |-> 99, byte |-> 0]

ByteAt(c) ==
    IF c + 1 \in Slots /\ m_pBuffer[c + 1].item # 0
    THEN written[m_pBuffer[c + 1].item][m_pBuffer[c + 1].at] ELSE Wild

NumberAt(c, width) ==
    IF \A k \in 1 .. width : ByteAt(c + k - 1) = [value |-> ByteAt(c).value, byte |-> k]
    THEN ByteAt(c).value ELSE Wild.value

SizeAt(c) == NumberAt(c, SizeField)

TypeAt(c) == NumberAt(c + SizeField, SizeField)

strlen(c) == CHOOSE n \in 0 .. m_nBufferSize :
                /\ ByteAt(c + n) \in {Number(NUL, 1)[1], Wild}
                /\ \A k \in 0 .. n - 1 : ByteAt(c + k) \notin {Number(NUL, 1)[1], Wild}

\* What is in an array of n characters after strncpy to it, up to a NUL.
strncpy(c, n) == [k \in 1 .. Smaller(n, strlen(c)) |-> ByteAt(c + k - 1).value]

\* Mutant: the step to the next definition forgets the NUL.
sendParameterDefsNoNul(c) ==
    LET n == NumberAt(c + HeaderSize, SizeField)
        at[k \in 1 .. n] == IF k = 1 THEN c + HeaderSize + SizeField
                            ELSE at[k - 1] + SizeField + strlen(at[k - 1] + SizeField)
    IN [k \in 1 .. n |-> [number |-> NumberAt(at[k], SizeField),
                          name   |-> strncpy(at[k] + SizeField, MAX_IDENT)]]

\* The definitions of the item at c, one behind the other.
sendParameterDefs(c) ==
    LET n == NumberAt(c + HeaderSize, SizeField)
        at[k \in 1 .. n] == IF k = 1 THEN c + HeaderSize + SizeField
                            ELSE at[k - 1] + SizeField + strlen(at[k - 1] + SizeField) + 1
    IN [k \in 1 .. n |-> [number |-> NumberAt(at[k], SizeField),
                          name   |-> strncpy(at[k] + SizeField, MAX_IDENT)]]

\* sizeof(Variable)
VariableSize == DoubleSize + MAX_UNITS_LENGTH

sendVariableValues(c) ==
    LET n == NumberAt(c + HeaderSize, SizeField)
        at[k \in 1 .. n] == IF k = 1 THEN c + HeaderSize + SizeField
                            ELSE at[k - 1] + VariableSize + strlen(at[k - 1] + VariableSize) + 1
        UnitsAt(k) == SelectSeq([j \in 1 .. MAX_UNITS_LENGTH |-> ByteAt(at[k] + DoubleSize + j - 1).value],
                                LAMBDA char : char # NUL)
    IN [k \in 1 .. n |-> [value |-> NumberAt(at[k], DoubleSize),
                          units |-> UnitsAt(k),
                          name  |-> strncpy(at[k] + VariableSize, MAX_IDENT)]]

\* sendDefinitions, of the first block, which must have both items.
sendDefinitions ==
    /\ pc = "held" /\ due
    /\ due' = FALSE
    /\ IF m_nUserItems < 2 \/ TypeAt(0) # PARAMETER_DEFINITIONS
       THEN pc' = "refused" /\ UNCHANGED sent
       ELSE IF TypeAt(SizeAt(0)) # VARIABLE_VALUES
       THEN pc' = "refused" /\ sent' = [sent EXCEPT !.parameters = sendParameterDefs(0)]
       ELSE /\ sent' = [parameters |-> sendParameterDefs(0),
                        variables  |-> sendVariableValues(SizeAt(0))]
            /\ UNCHANGED pc
    /\ UNCHANGED <<file, m_nBufferSize, fpos, m_pBuffer, m_nBytes, m_eof, m_fReleased, request,
                   history, calls, written>>

\* The header and body that are sent of the event at c.
sendWorkItem(c) ==
    LET front == c + HeaderSize
        n     == NumberAt(front + DoubleSize, SizeField)
        At(k) == front + DoubleSize + SizeField + (k - 1) * (SizeField + DoubleSize)
    IN [trigger |-> NumberAt(front, DoubleSize),
        event   |-> [k \in 1 .. n |-> [number |-> NumberAt(At(k), SizeField),
                                       value  |-> NumberAt(At(k) + SizeField, DoubleSize)]]]

ReadStep == (pc = "held" => ~ due) /\ Next /\ UNCHANGED fileVars

FileNext ==
    \/ writeFrontMatter
    \/ WriteNext
    \/ Close
    \/ ReadStep
    \/ sendDefinitions

FileSpec == FileInit /\ [][FileNext]_<<vars, fileVars>> /\ WF_<<vars, fileVars>>(FileNext)
-----------------------------------------------------------------------------
FileTypeOK ==
    /\ TypeOK
    /\ written \in Seq(Seq(Byte)) /\ Len(calls) = Len(written)
    /\ due \in BOOLEAN

CutNames(defs) == [k \in DOMAIN defs |->
                      [defs[k] EXCEPT !.name = SubSeq(@, 1, Smaller(MAX_IDENT, Len(@)))]]

CutUnits(defs) == [k \in DOMAIN defs |->
                      [defs[k] EXCEPT !.units = SubSeq(@, 1, Smaller(MAX_UNITS_LENGTH, Len(@)))]]

\* Where items begin in the block that is held.
ItemsInBlock == {c \in 0 .. m_nUserBytes - 1 : m_pBuffer[c + 1].at = 1}

Fronts == Len(CellsOf(SubSeq(written, 1, 2)))

(***************************************************************************)
(* A result file describes itself (paramfileformat.md): a run that reads   *)
(* it gives its workers the parameters, numbers, variables, values and     *)
(* units that the dictionaries had, but for what is beyond MAX_IDENT and   *)
(* MAX_UNITS_LENGTH, and each event as it was written, wherever buffer and *)
(* disk end.  Only without room for both definitions it is refused.        *)
(***************************************************************************)
DescribesItself ==
    /\ calls # <<>> /\ ~ due /\ pc # "refused" =>
          /\ sent.parameters = CutNames(calls[1].defs)
          /\ sent.variables = CutNames(CutUnits(calls[2].defs))
    /\ pc = "held" /\ ~ due =>
          \A c \in ItemsInBlock :
             LET i == m_pBuffer[c + 1].item IN
                calls # <<>> =>
                   /\ (TypeAt(c) = PARAMETER_DATA) <=> (calls[i].what = "event")
                   /\ calls[i].what = "event" =>
                         sendWorkItem(c) = [trigger |-> calls[i].trigger, event |-> calls[i].event]
    /\ pc = "refused" => Fronts > Smaller(Len(file), maxBytes)
=============================================================================
