--------------------------- MODULE MCDictionaries ---------------------------
(***************************************************************************)
(* A definition file that defines an element of an array once more, before *)
(* or after it, and an empty array, and one that is wrong.  Arrays of one  *)
(* or two elements that begin below zero, where the sum of first index and *)
(* size wraps or not, that need a digit more at their end, and, in the     *)
(* file, that have one more than they need.                                *)
(***************************************************************************)
EXTENDS Dictionaries

MCSpec(low, high, chans, units) ==
    [s_low |-> low, s_high |-> high, s_chans |-> chans, s_units |-> units]

MCDefaults == MCSpec(0, 1, 2, "")

MCWidths == {-1, 1}

MCShapes == {[first |-> -2, size |-> 1], [first |-> -1, size |-> 2], [first |-> 9, size |-> 2]}

Ninth == Element("a", 9, 2, 9)

\* Of an array with the indices 8 and 9.
Eighth == Element("a", 8, 2, 8)

MCParameterNames == {Scalar("b"), Eighth}

MCVariableNames == {Scalar("b"), Ninth}

parameter(name, spec) == [what |-> "treeparameter", name |-> name, spec |-> spec]
parameterArray(spec, elements, first) ==
    [what |-> "treeparameterarray", base |-> "a", spec |-> spec, elements |-> elements,
     firstindex |-> first]
variable(name, value, units) ==
    [what |-> "treevariable", name |-> name, value |-> value, units |-> units]
variableArray(value, units, elements, first) ==
    [what |-> "treevariablearray", base |-> "a", value |-> value, units |-> units,
     elements |-> elements, firstindex |-> first]

MCDefinitionFiles ==
    {<<parameter(Eighth, MCSpec(1, 0, 2, "")), variableArray(0, "mm", 2, 8),
       parameterArray(MCSpec(0, 1, 2, "mm"), 0, 3), parameterArray(MCSpec(1, 1, 2, ""), 2, 8),
       variable(Ninth, 1, "")>>,
     <<variable(Scalar("b"), 0, "mm"), [what |-> "error"]>>}
=============================================================================
