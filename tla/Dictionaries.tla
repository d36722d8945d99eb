---------------------------- MODULE Dictionaries ----------------------------
(***************************************************************************)
(* The dictionaries of one process: what the definition file says          *)
(* (base/TCLParameterReader.cpp), and what user code does with parameters, *)
(* variables and arrays of them after it.                                  *)
(***************************************************************************)
EXTENDS ParameterArrays

CONSTANTS VariableNames, Values, NoUnits, VariableArrays,  \* of TreeVariables
          DefinitionFiles,  \* sequences of commands
          MaxCalls          \* bound: the calls of user code

VARIABLES m_dictionary, variableArrays, seen, newValues, newUnits,  \* of TreeVariables
          definitionFile, line,
          pc,               \* "read", "user" or "thrown"
          calls

Variables == INSTANCE TreeVariables

fileVars == <<definitionFile, line, pc, calls>>

variableVars == <<m_dictionary, variableArrays, seen, newValues, newUnits>>

vars == <<paramVars, variableVars, fileVars>>

Commands ==
    [what : {"treeparameter"}, name : ParameterNames, spec : Specification]
      \union [what : {"treeparameterarray"}, base : Bases, spec : Specification,
              elements : Nat, firstindex : Int]
      \union [what : {"treevariable"}, name : VariableNames, value : Values, units : Units]
      \union [what : {"treevariablearray"}, base : Bases, value : Values, units : Units,
              elements : Nat, firstindex : Int]
      \union [what : {"error"}]

ASSUME DictionariesAssumption ==
    /\ \A name \in VariableNames : IsName(name)
    /\ 0 \in Values /\ NoUnits \in Units
    /\ DefinitionFiles \subseteq Seq(Commands)
    /\ MaxCalls \in Nat

TypeOK ==
    /\ ParamTypeOK /\ Variables!TypeOK
    /\ definitionFile \in DefinitionFiles /\ line \in 0 .. Len(definitionFile)
    /\ pc \in {"read", "user", "thrown"} /\ calls \in 0 .. MaxCalls

Init ==
    /\ ParamInit /\ Variables!Init
    /\ definitionFile \in DefinitionFiles /\ line = 0
    /\ pc = "read" /\ calls = 0
-----------------------------------------------------------------------------
Command == definitionFile[line + 1]

IsCommand(what) == pc = "read" /\ line < Len(definitionFile) /\ Command.what = what

LineDone == line' = line + 1 /\ UNCHANGED <<definitionFile, pc, calls>>

TreeParameterCommand ==
    /\ IsCommand("treeparameter")
    /\ Initialize(Command.name, Command.spec)
    /\ LineDone /\ UNCHANGED variableVars

\* The array goes when the command returns; what it made stays.
TreeParameterArrayCommand ==
    /\ IsCommand("treeparameterarray")
    /\ InitializeAll(Elements(Command.base, Command.firstindex, Command.elements), Command.spec,
                     AfterTemplate)
    /\ LineDone
    /\ UNCHANGED <<m_defaultSpecification, paramArrays, valid, declared,
                   variableVars>>

TreeVariableCommand ==
    /\ IsCommand("treevariable")
    /\ Variables!Initialize(Command.name, Command.value, Command.units)
    /\ LineDone /\ UNCHANGED paramVars

TreeVariableArrayCommand ==
    /\ IsCommand("treevariablearray")
    /\ Variables!InitializeAll(
          Variables!NamesOf(Elements(Command.base, Command.firstindex, Command.elements)),
          Command.value, Command.units)
    /\ LineDone /\ UNCHANGED <<variableArrays, paramVars>>

\* A command that is wrong ends the file, and read throws.
Fail ==
    /\ IsCommand("error")
    /\ pc' = "thrown"
    /\ UNCHANGED <<definitionFile, line, calls, paramVars, variableVars>>

ReadDone ==
    /\ pc = "read" /\ line = Len(definitionFile)
    /\ pc' = "user"
    /\ UNCHANGED <<definitionFile, line, calls, paramVars, variableVars>>
-----------------------------------------------------------------------------
Calls ==
    /\ pc = "user" /\ calls < MaxCalls
    /\ calls' = calls + 1
    /\ UNCHANGED <<definitionFile, line, pc>>

UseParameters ==
    \/ \E name \in ParameterNames, spec \in Numbered \union Copied \union LikeAnother :
          Initialize(name, spec)
    \/ SetDefaults
    \/ \E name \in DOMAIN parameters :
          Set(name) \/ setChanged(name) \/ resetChanged(name) \/ setValue(name)
    \/ nextEvent

UseParameterArrays ==
    \E a \in ParameterArrays :
       \/ \E base \in Bases, shape \in ArrayShapes :
             \/ \E spec \in Numbered : InitializeArray(a, base, shape, spec, TRUE)
             \/ \E spec \in Copied : InitializeArray(a, base, shape, spec, FALSE)
       \/ DeleteParameters(a)
       \/ ResetArray(a)

UseVariables ==
    \/ \E name \in VariableNames :
          \/ Variables!Construct(name)
          \/ \E units \in Units : Variables!ConstructWithUnits(name, units)
          \/ \E value \in Values, units \in Units : Variables!Initialize(name, value, units)
    \/ \E name \in DOMAIN m_dictionary :
          \/ \E value \in Values : Variables!setValue(name, value)
          \/ \E rhs \in DOMAIN m_dictionary : Variables!Assign(name, rhs)
          \/ \E units \in Units : Variables!setUnit(name, units)
          \/ Variables!resetChanged(name)

UseVariableArrays ==
    \E a \in VariableArrays :
       \/ \E base \in Bases, shape \in ArrayShapes :
             \/ Variables!ConstructArray(a, base, shape)
             \/ \E value \in Values, units \in Units :
                   Variables!InitializeArray(a, base, shape, value, units)
       \/ Variables!DestroyArray(a)
       \/ \E rhs \in VariableArrays \ {a} :
             Variables!CopyArray(a, rhs) \/ Variables!AssignArray(a, rhs)

UserCode ==
    /\ Calls
    /\ \/ (UseParameters \/ UseParameterArrays) /\ UNCHANGED variableVars
       \/ (UseVariables \/ UseVariableArrays) /\ UNCHANGED paramVars

ReadLine ==
    \/ TreeParameterCommand \/ TreeParameterArrayCommand
    \/ TreeVariableCommand \/ TreeVariableArrayCommand
    \/ Fail

Next == ReadLine \/ ReadDone \/ UserCode

Spec == Init /\ [][Next]_vars
-----------------------------------------------------------------------------
(***************************************************************************)
(* An array has the indices it was last declared with and no others.  Each *)
(* stands for a parameter that there is, named by the base and that index, *)
(* and all names are filled to one width that has room for the digits of   *)
(* every index: "as many zero filled digits as required to be the largest  *)
(* index" (TreeParameterArray.cpp:197-198), or more: the comment's         *)
(* baseName.-005 may be one of ten digits, which is left open here.  No    *)
(* two parameters, elements or not, share a number, and each number has    *)
(* its place in the event.                                                 *)
(***************************************************************************)
ArraysAsDeclared ==
    /\ \A a \in ParameterArrays :
          LET d == declared[a]
              Declared == d.first .. d.first + d.size - 1 IN
             /\ \A index \in d.first - 1 .. d.first + d.size :
                   InRange(a, index) <=> index \in Declared
             /\ \A index \in Declared :
                   /\ Known(At(a, index))
                   /\ At(a, index).base = d.base /\ At(a, index).index = index
                   /\ \A i \in Declared : At(a, index).width >= Digits(Abs(i))
                   /\ \A i \in Declared : At(a, index).width = At(a, i).width
    /\ \A m, n \in DOMAIN parameters :
          /\ parameters[n].s_parameterNumber < eventSize
          /\ parameters[m].s_parameterNumber = parameters[n].s_parameterNumber => m = n

(***************************************************************************)
(* What somebody misses who looks at the flags only: hasChanged tells      *)
(* whether "any metadata has been modified" (TreeParameter.cpp:895-898),   *)
(* but initializing what there is already, as another object of the name   *)
(* or line of the file does, changes it for all and sets no flag           *)
(* (476-481).  Nothing else is silent: metadata that differ from those the *)
(* parameter was made with, or had when its flag was reset, are flagged or *)
(* were changed by an initialization since.  Likewise, apart, the value    *)
(* and the units of a variable, which constructing another object for it   *)
(* without a value leaves alone.                                           *)
(***************************************************************************)
OnlyInitializationsAreSilent ==
    /\ \A n \in DOMAIN parameters :
          parameters[n].s_spec # asMade[n] => parameters[n].s_changed \/ n \in overwritten
    /\ Variables!OnlyInitializationsAreSilent

(***************************************************************************)
(* "the array slopes is really a set values named slopes.00, slopes.01"    *)
(* (parametermapping.md:101): once the file is read each name has what the *)
(* last command says that names it, alone or as an element, and nothing is *)
(* flagged as changed.                                                     *)
(***************************************************************************)
NamesOfCommand(c) ==
    IF c.what \in {"treeparameter", "treevariable"} THEN {c.name}
    ELSE Variables!NamesOf(Elements(c.base, c.firstindex, c.elements))

LastCommand(k, name, whats) ==
    /\ definitionFile[k].what \in whats /\ name \in NamesOfCommand(definitionFile[k])
    /\ \A j \in k + 1 .. Len(definitionFile) :
          definitionFile[j].what \in whats => name \notin NamesOfCommand(definitionFile[j])

DefinedAsInFile ==
    pc = "user" /\ calls = 0 =>
       /\ \A n \in DOMAIN parameters :
             \E k \in DOMAIN definitionFile :
                /\ LastCommand(k, n, {"treeparameter", "treeparameterarray"})
                /\ parameters[n].s_spec = definitionFile[k].spec /\ ~ parameters[n].s_changed
       /\ \A n \in DOMAIN m_dictionary :
             \E k \in DOMAIN definitionFile :
                /\ LastCommand(k, n, {"treevariable", "treevariablearray"})
                /\ m_dictionary[n] = Variables!Definition(definitionFile[k].value,
                                                          definitionFile[k].units)
       /\ \A k \in DOMAIN definitionFile :
             LET names == NamesOfCommand(definitionFile[k]) IN
                IF definitionFile[k].what \in {"treeparameter", "treeparameterarray"}
                THEN names \subseteq DOMAIN parameters ELSE names \subseteq DOMAIN m_dictionary
=============================================================================
