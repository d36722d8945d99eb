----------------------------- MODULE DataWriter -----------------------------
(***************************************************************************)
(* CDataWriter (base/DataWriter.cpp): the bytes of the ring items that its *)
(* functions write, and the sizes that it says they have.  A byte is the   *)
(* value that it is of and which byte of that; a character is one of 1     *)
(* and up, and NUL ends a name.                                            *)
(***************************************************************************)
EXTENDS Naturals, SequencesExt

CONSTANTS SizeField,         \* bytes of a std::uint32_t
          MAX_UNITS_LENGTH

NUL == 0

Byte == [value : Nat, byte : Nat]

Number(value, width) == [k \in 1 .. width |-> [value |-> value, byte |-> k]]

Text(chars) == FlattenSeq([k \in DOMAIN chars |-> Number(chars[k], 1)])

Uint32(n) == Number(n, SizeField)

\* A std::uint64_t and a double.
DoubleSize == 2 * SizeField

\* The types of ring items; those up to the first are passed through.
LAST_PASSTHROUGH == 1
PARAMETER_DEFINITIONS == 2
VARIABLE_VALUES == 3
PARAMETER_DATA == 4

Header(size, type) == Uint32(size) \o Uint32(type) \o Uint32(SizeField)

HeaderSize == 3 * SizeField

Total(sizes) == FoldSeq(+, 0, sizes)

ForEach(Bytes(_), list) == FlattenSeq([k \in DOMAIN list |-> Bytes(list[k])])

-----------------------------------------------------------------------------
\* A definition is [number, name].
sizeParameterDefItem(defs) ==
    HeaderSize + SizeField
       + Total([k \in DOMAIN defs |-> SizeField + Len(defs[k].name) + 1])

ParameterBytes(d) == Uint32(d.number) \o Text(d.name) \o Number(NUL, 1)

writeParameterDefs(defs) ==
    Header(sizeParameterDefItem(defs), PARAMETER_DEFINITIONS)
       \o Uint32(Len(defs)) \o ForEach(ParameterBytes, defs)

\* A definition is [value, units, name].
sizeVariableDefItem(defs) ==
    HeaderSize + SizeField
       + Total([k \in DOMAIN defs |-> DoubleSize + MAX_UNITS_LENGTH + Len(defs[k].name) + 1])

\* strncpy into an array that was zeroed: without NUL if they fill it.
Units(units) ==
    Text([k \in 1 .. MAX_UNITS_LENGTH |-> IF k <= Len(units) THEN units[k] ELSE NUL])

VariableBytes(d) ==
    Number(d.value, DoubleSize) \o Units(d.units) \o Text(d.name) \o Number(NUL, 1)

writeVariableDefs(defs) ==
    Header(sizeVariableDefItem(defs), VARIABLE_VALUES)
       \o Uint32(Len(defs)) \o ForEach(VariableBytes, defs)

-----------------------------------------------------------------------------
\* An event is a sequence of [number, value].
sizeEvent(event) ==
    HeaderSize + DoubleSize + SizeField + Len(event) * (DoubleSize + SizeField)

PairBytes(pair) == Uint32(pair.number) \o Number(pair.value, DoubleSize)

writeEvent(event, trigger) ==
    Header(sizeEvent(event), PARAMETER_DATA)
       \o Number(trigger, DoubleSize) \o Uint32(Len(event)) \o ForEach(PairBytes, event)

\* An item that was passed through, as long as it says, written as it is.
writeItem(size) ==
    Header(size, LAST_PASSTHROUGH) \o Number(NUL, size - HeaderSize)
=============================================================================
