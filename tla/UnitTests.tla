----------------------------- MODULE UnitTests -----------------------------
(***************************************************************************)
(* The unit tests of base/ (TestSuites), run on the models of the classes  *)
(* they test: what they expect of the code is expected of TreeParameter,   *)
(* ParameterArrays, TreeVariables, Dictionaries, DataReader and            *)
(* TriggerSorter.  A program runs its tests in any order, one or more      *)
(* times; what the static members of the classes hold after one test they  *)
(* hold in the next, unless tearDown resets it.  Or the program is the     *)
(* client of TriggerSorter, with any triggers in any order.                *)
(***************************************************************************)
EXTENDS TestSuites, TriggerSorter

CONSTANTS MaxId,         \* bound: no test begins with more numbers taken
          MaxGeneration  \* bound: of the generations

ASSUME UnitTestsAssumption == MaxId \in Nat /\ MaxGeneration \in Nat

Objects == {"p", "q", "r"}
VariableObjects == {"v", "w", "x"}
VariableArrays == {"b", "c", "d"}
Unbound == Named("")

VARIABLES m_generation, m_parameterDictionary, m_nextId, m_event, m_scoreboard, objects,
          assigned,                                        \* of TreeParameter
          parameters, eventSize, m_defaultSpecification, paramArrays, valid, asMade,
          overwritten, declared,                           \* of ParameterArrays
          m_dictionary, variableArrays, seen, newValues, newUnits,  \* of TreeVariables
          variableObjects,  \* the names of the CTreeVariable objects
          script, line, reading,                           \* of Dictionaries
          readerPc, file, fpos, m_nBufferSize, m_pBuffer, m_nBytes, m_eof, m_fReleased,
          m_nUserBytes, m_nUserItems, maxBytes, handed, handedItems,  \* of DataReader
          program,  \* a program with tests, or "client"
          test,     \* the test that runs, or 0
          step      \* the step of it that is next

valueVars == <<m_generation, m_parameterDictionary, m_event, m_scoreboard, objects, assigned>>

metaVars == <<parameters, eventSize, m_defaultSpecification, paramArrays, valid, asMade,
              overwritten, declared>>

parameterVars == <<valueVars, metaVars, m_nextId>>

histories == <<seen, newValues, newUnits>>

variableVars == <<m_dictionary, variableArrays, histories, variableObjects>>

scriptVars == <<script, line, reading>>

readerVars == <<readerPc, file, fpos, m_nBufferSize, m_pBuffer, m_nBytes, m_eof, m_fReleased,
                m_nUserBytes, m_nUserItems, maxBytes, handed, handedItems>>

modelVars == <<parameterVars, variableVars, scriptVars, readerVars, sorterVars>>

testVars == <<program, test, step>>

T == INSTANCE TreeParameter WITH
        Names <- {Unbound}, UserNames <- {}, Unnamed <- Unbound, Values <- {0},
        NoDefinition <- ElementNamed("", 0), MaxId <- MaxId + 20

D == INSTANCE Dictionaries WITH
        definitionFile <- script, pc <- reading, calls <- 0, MaxCalls <- 0,
        Bases <- {}, UintMod <- 10000, ParameterNames <- {}, Limits <- {}, Bins <- {},
        Units <- {""}, Resolutions <- {}, Widths <- {}, ParameterArrays <- {"a"},
        ArrayShapes <- {}, VariableNames <- {}, Values <- {0}, NoUnits <- "",
        DefinitionFiles <- {}

R == INSTANCE DataReader WITH
        pc <- readerPc, Files <- {}, BufferSizes <- {1}, Shortfalls <- {}, SizeField <- 4
-----------------------------------------------------------------------------
(***************************************************************************)
(* CTreeParameter.  An object has values in TreeParameter and metadata in  *)
(* ParameterArrays, which agree on the numbers.                            *)
(***************************************************************************)
Unlisted == <<m_nextId, objects, assigned, m_defaultSpecification, paramArrays, declared>>

\* What tests do to static members that are private.
StaticCall(what, with) ==
    \/ /\ what = "nextEvent" /\ T!nextEvent /\ D!nextEvent
    \/ /\ what = "define"
       /\ m_parameterDictionary' =
             [n \in {Named(with)} |-> [s_parameterNumber |-> 0, s_generation |-> 0]]
       /\ parameters' = [n \in {Named(with)} |-> [s_parameterNumber |-> 0, s_changed |-> FALSE,
                                                  s_spec |-> m_defaultSpecification]]
       /\ asMade' = [n \in {Named(with)} |-> m_defaultSpecification] /\ overwritten' = {}
       /\ UNCHANGED <<Unlisted, m_generation, m_event, m_scoreboard, eventSize, valid>>
    \/ /\ what = "m_event"
       /\ m_event' = with /\ eventSize' = Len(with)
       /\ UNCHANGED <<Unlisted, m_generation, m_parameterDictionary, m_scoreboard, parameters,
                      valid, asMade, overwritten>>
    \/ /\ what = "m_scoreboard"
       /\ m_scoreboard' = with
       /\ UNCHANGED <<Unlisted, m_generation, m_parameterDictionary, m_event, metaVars>>
    \/ /\ what = "SharedData"
       /\ m_nextId' = m_nextId + with
       /\ UNCHANGED <<valueVars, metaVars>>
    \/ /\ \/ what = "setDefaultLimits" /\ D!setDefaultLimits(with[1], with[2])
          \/ what = "setDefaultBins" /\ D!setDefaultBins(with)
          \/ what = "setDefaultUnits" /\ D!setDefaultUnits(with)
       /\ UNCHANGED valueVars

StaticValue(what) ==
    CASE what = "m_generation" -> m_generation
      [] what = "m_nextId" -> m_nextId
      [] what = "m_event" -> m_event
      [] what = "m_scoreboard" -> m_scoreboard
      [] what = "m_defaultSpecification" -> m_defaultSpecification
      [] what = "collectEvent" -> T!collectEvent
      [] what = "definitions" -> {<<n, parameters[n].s_spec>> : n \in DOMAIN parameters}
      [] what = "size" -> Cardinality(DOMAIN m_parameterDictionary)

NameOf(o) == objects[o].m_pDefinition

SpecificationOf(how) ==
    CASE how[1] = "name" -> D!ByDefault
      [] how[1] = "units" -> D!WithUnits(how[2])
      [] how[1] = "limits" -> D!WithLimits(how[2], how[3], how[4])
      [] how[1] = "all" -> D!FullySpecified(how[2], how[3], how[4], how[5])
      [] how[1] = "resolution" -> D!WithResolution(how[2])
      [] how[1] = "like" -> parameters[NameOf(how[2])].s_spec

Computed(op, left, right) ==
    CASE op \in {"+=", "+=of"} -> left + right
      [] op \in {"-=", "-=of"} -> left - right
      [] op \in {"*=", "*=of"} -> left * right
      [] op \in {"/=", "/=of"} -> left \div right

Operators == {"+=", "-=", "*=", "/="}

OperatorsOf == {"+=of", "-=of", "*=of", "/=of"}

\* "width" is the overload that throws always.
Makes(o, name, how) ==
    /\ how[1] # "width"
    /\ T!Initialize(o, name) /\ D!Initialize(name, SpecificationOf(how))

\* What assignments and setInvalid do, or a test in the place of them.
SetsValue(o, what, with) ==
    \/ /\ \/ what = "=" /\ T!setValue(o, with)
          \/ what = "=of" /\ T!Assign(o, with)
          \/ /\ what \in Operators /\ T!isValid(o)
             /\ T!setValue(o, Computed(what, T!getValue(o), with))
       /\ D!setValue(NameOf(o))
    \/ /\ what = "makeValid"
       /\ m_event' = [m_event EXCEPT ![T!getId(o) + 1] = with]
       /\ m_parameterDictionary' =
             [m_parameterDictionary EXCEPT ![NameOf(o)].s_generation = m_generation]
       /\ valid' = valid \union {NameOf(o)}
       /\ UNCHANGED <<Unlisted, m_generation, m_scoreboard, parameters, eventSize, asMade,
                      overwritten>>
    \/ /\ what = "setInvalid" /\ T!isValid(o)
       /\ T!setInvalid(o) /\ valid' = valid \ {NameOf(o)}
       /\ UNCHANGED <<parameters, eventSize, m_defaultSpecification, paramArrays, asMade,
                      overwritten, declared>>

SetsMetadata(name, what, with) ==
    \/ what = "setBins" /\ D!setBins(name, with)
    \/ what = "setStart" /\ D!setStart(name, with)
    \/ what = "setStop" /\ D!setStop(name, with)
    \/ what = "setInc" /\ D!setInc(name, with)
    \/ what = "setUnit" /\ D!setUnit(name, with)
    \/ what = "setChanged" /\ D!setChanged(name)
    \/ what = "resetChanged" /\ D!resetChanged(name)

\* An object that is not bound throws, and one without a value if that is asked.
ObjectAnswers(o, what) ==
    /\ what \in {"id", "s_chans", "s_low", "s_high", "inc", "s_units", "valid", "changed", "value"}
    /\ T!isBound(o) /\ (what = "value" => T!isValid(o))

ObjectCall(o, what, with) ==
    \/ what = "new" /\ Makes(o, Named(with.name), with.how)
    \/ what = "copy" /\ T!ConstructCopy(o, with) /\ UNCHANGED metaVars
    \/ T!isBound(o) /\ SetsValue(o, what, with)
    \/ T!isBound(o) /\ SetsMetadata(NameOf(o), what, with) /\ UNCHANGED valueVars

ObjectValue(o, what) ==
    LET name == NameOf(o) IN
       CASE what = "name" -> objects[o].m_name.base
         [] what = "bound" -> T!isBound(o)
         [] what = "id" -> T!getId(o)
         [] what = "generation" -> T!Definition(o).s_generation
         [] what = "value" -> T!getValue(o)
         [] what = "valid" -> T!isValid(o)
         [] what = "changed" -> parameters[name].s_changed
         [] what = "spec" -> parameters[name].s_spec
         [] what = "inc" ->
               (parameters[name].s_spec.s_high - parameters[name].s_spec.s_low)
                  \div parameters[name].s_spec.s_chans
         [] OTHER -> parameters[name].s_spec[what]
-----------------------------------------------------------------------------
(***************************************************************************)
(* CTreeParameterArray: its elements are objects of their own, one for     *)
(* each name.                                                              *)
(***************************************************************************)
E == INSTANCE TreeParameter WITH
        objects <- [n \in DOMAIN m_parameterDictionary |-> [m_name |-> n, m_pDefinition |-> n]],
        Names <- {Unbound}, UserNames <- {}, Unnamed <- Unbound, Values <- {0},
        NoDefinition <- ElementNamed("", 0), MaxId <- MaxId + 20

\* The values of the parameters that are made: none.
MakesElements ==
    /\ m_parameterDictionary' =
          [n \in DOMAIN parameters' |->
              IF T!Known(n) THEN m_parameterDictionary[n]
              ELSE [s_parameterNumber |-> parameters'[n].s_parameterNumber,
                    s_generation |-> m_generation - 1]]
    /\ m_event' = T!Resized(m_event, eventSize')
    /\ UNCHANGED <<m_generation, m_scoreboard, objects, assigned>>

ResetsElements ==
    LET elements == D!ElementsOf("a") IN
       /\ m_scoreboard' = SelectSeq(m_scoreboard,
                                    LAMBDA number : \A n \in elements : T!Number(n) # number)
       /\ m_parameterDictionary' =
             [n \in DOMAIN m_parameterDictionary |->
                 IF n \in elements
                 THEN [m_parameterDictionary[n] EXCEPT !.s_generation = m_generation - 1]
                 ELSE m_parameterDictionary[n]]
       /\ assigned' = {a \in assigned : a[1] \notin elements}
       /\ UNCHANGED <<m_generation, m_event, objects>>

\* To "name" and "units" the defaults are copied, which takes no number.
ArrayCall(what, with) ==
    \/ /\ what = "new"
       /\ D!InitializeArray("a", with.base, with.shape, SpecificationOf(with.how),
                            with.how[1] \notin {"name", "units"})
       /\ MakesElements
    \/ /\ what = "setAt" /\ D!InRange("a", with)
       /\ E!setValue(D!At("a", with), with) /\ UNCHANGED objects
       /\ D!setValue(D!At("a", with))
    \/ what = "Reset" /\ D!ResetArray("a") /\ ResetsElements
    \/ what = "delete" /\ D!DeleteParameters("a") /\ UNCHANGED valueVars

ArrayValue(what) ==
    LET array == paramArrays["a"]
        names == array.m_Parameters IN
       CASE what = "lowIndex" -> array.m_nFirstIndex
         [] what = "size" -> Len(names)
         [] what = "names" -> names
         [] what = "at" -> [k \in DOMAIN names |-> D!At("a", array.m_nFirstIndex + k - 1)]
         [] what = "specs" -> [k \in DOMAIN names |-> parameters[names[k]].s_spec]
         [] what = "valid" -> [k \in DOMAIN names |-> E!isValid(names[k])]
         [] what = "bound" -> names # <<>>
-----------------------------------------------------------------------------
\* CTreeVariable and CTreeVariableArray.
MakesVariable(v, name, how) ==
    /\ \/ how[1] = "name" /\ D!Variables!Construct(name)
       \/ how[1] = "units" /\ D!Variables!ConstructWithUnits(name, how[2])
       \/ how[1] = "value" /\ D!Variables!Initialize(name, how[2], how[3])
    /\ variableObjects' = [variableObjects EXCEPT ![v] = name]

Bound(v) == variableObjects[v] # Unbound

ValueOf(v) == m_dictionary[variableObjects[v]].s_value

SetsVariable(v, what, with) ==
    LET name == variableObjects[v] IN
       /\ \/ what = "=" /\ D!Variables!setValue(name, with)
          \/ what = "=of" /\ Bound(with) /\ D!Variables!Assign(name, variableObjects[with])
          \/ what \in Operators
                /\ D!Variables!setValue(name, Computed(what, ValueOf(v), with))
          \/ what \in OperatorsOf /\ Bound(with)
                /\ D!Variables!setValue(name, Computed(what, ValueOf(v), ValueOf(with)))
          \/ what = "setUnit" /\ D!Variables!setUnit(name, with)
          \/ what = "resetChanged" /\ D!Variables!resetChanged(name)
       /\ UNCHANGED variableObjects

VariableCall(v, what, with) ==
    \/ what = "new" /\ MakesVariable(v, Named(with.name), with.how)
    \/ /\ what = "copy"
       /\ variableObjects' = [variableObjects EXCEPT ![v] = variableObjects[with]]
       /\ UNCHANGED <<m_dictionary, variableArrays, histories>>
    \/ Bound(v) /\ SetsVariable(v, what, with)

VariableAnswers(v, what) == what \in {"value", "units", "hasChanged", "valueChanged"} /\ Bound(v)

createDefinition(with) ==
    /\ ~ D!Variables!Defined(Named(with.name))
    /\ D!Variables!Initialize(Named(with.name), with.value, with.units)
    /\ UNCHANGED variableObjects

VariableArrayCall(a, what, with) ==
    /\ \/ /\ what = "new"
          /\ D!Variables!InitializeArray(a, with.base, with.shape, with.value, with.units)
       \/ what = "copy" /\ D!Variables!CopyArray(a, with)
       \/ what = "=" /\ D!Variables!AssignArray(a, with)
    /\ UNCHANGED variableObjects

HasVariable(a, index) ==
    index - variableArrays[a].m_nFirstIndex + 1 \in DOMAIN variableArrays[a].m_TreeVariables

VariableValue(who, what) ==
    LET definition == m_dictionary[variableObjects[who]] IN
       CASE what = "name" -> variableObjects[who].base
         [] what = "bound" -> Bound(who)
         [] what = "value" -> definition.s_value
         [] what = "units" -> definition.s_units
         [] what = "valueChanged" -> definition.s_valueChanged
         [] what = "hasChanged" -> definition.s_valueChanged \/ definition.s_definitionChanged

VariableArrayValue(who, what) ==
    LET names == variableArrays[who].m_TreeVariables IN
       CASE what = "firstIndex" -> variableArrays[who].m_nFirstIndex
         [] what = "size" -> Len(names)
         [] what = "names" -> names
         [] what = "values" -> [k \in DOMAIN names |-> m_dictionary[names[k]].s_value]
         [] what = "units" -> [k \in DOMAIN names |-> m_dictionary[names[k]].s_units]

DictionaryValue(what) ==
    CASE what = "definition of test" -> m_dictionary[Named("test")]
      [] what = "values" -> {<<n, m_dictionary[n].s_value>> : n \in DOMAIN m_dictionary}
      [] what = "size" -> Cardinality(DOMAIN m_dictionary)
-----------------------------------------------------------------------------
\* CTCLParameterReader: read begins, and goes on line by line.
read(commands) ==
    /\ script' = commands /\ line' = 0 /\ reading' = "read"
    /\ UNCHANGED <<parameterVars, variableVars>>

ReadsOn ==
    /\ \/ D!TreeParameterCommand /\ MakesElements
       \/ D!TreeParameterArrayCommand /\ MakesElements
       \/ (D!TreeVariableCommand \/ D!TreeVariableArrayCommand \/ D!Fail \/ D!ReadDone)
             /\ UNCHANGED valueVars
    /\ UNCHANGED <<variableObjects, readerVars, sorterVars>>

\* CDataReader, of a file with items of these sizes.
CellsOf(sizes) ==
    FlattenSeq([k \in DOMAIN sizes |-> [at \in 1 .. sizes[k] |-> [item |-> k, at |-> at,
                                                                  size |-> sizes[k]]]])

CDataReader(sizes, buffer) ==
    /\ readerPc' = "construct" /\ file' = CellsOf(sizes) /\ fpos' = 0
    /\ m_nBufferSize' = buffer
    /\ m_pBuffer' = [c \in 1 .. buffer |-> R!Junk]
    /\ m_nBytes' = 0 /\ m_eof' = FALSE /\ m_fReleased' = TRUE
    /\ m_nUserBytes' = 0 /\ m_nUserItems' = 0 /\ maxBytes' = 0
    /\ handed' = <<>> /\ handedItems' = 0

ReaderCall(what, with) ==
    \/ what = "CDataReader" /\ CDataReader(with.sizes, with.buffer)
    \/ what = "getBlock" /\ R!getBlock(with)
    \/ what = "done" /\ R!done

ReaderGoesOn ==
    /\ R!Construct \/ R!ProbeItem \/ R!ProbeThrow \/ R!Return
    /\ UNCHANGED <<parameterVars, variableVars, scriptVars, sorterVars>>

ReaderValue(what) ==
    LET heads == SelectSeq(SubSeq(m_pBuffer, 1, m_nUserBytes), LAMBDA cell : cell.at = 1) IN
       CASE what = "m_nBytes" -> m_nBytes
         [] what = "m_nBufferSize" -> m_nBufferSize
         [] what = "m_eof" -> m_eof
         [] what = "m_fReleased" -> m_fReleased
         [] what = "s_nbytes" -> m_nUserBytes
         [] what = "s_nItems" -> m_nUserItems
         [] what = "items" -> [k \in DOMAIN heads |-> heads[k].item]
         [] what = "pc" -> readerPc

SorterCall(what, with) ==
    \/ what = "addItem" /\ \E event \in Events : AddItem([trigger |-> with, event |-> event])
    \/ what = "flush" /\ Flush

\* m_lastEmittedTrigger begins at the largest number, which the tests write -1.
SorterValue(what) ==
    CASE what = "m_triggers" -> [k \in DOMAIN emitted |-> emitted[k].trigger]
      [] what = "m_items" -> DOMAIN m_items
      [] what = "m_lastEmittedTrigger" ->
            IF m_lastEmittedTrigger = MaxTrigger THEN -1 ELSE m_lastEmittedTrigger
-----------------------------------------------------------------------------
\* A call of a test; it has no step when the code throws.
Does(who, what, with) ==
    \/ /\ \/ who = P /\ StaticCall(what, with)
          \/ who \in Objects /\ ObjectCall(who, what, with)
          \/ who = "a" /\ ArrayCall(what, with)
       /\ UNCHANGED <<variableVars, scriptVars, readerVars, sorterVars>>
    \/ /\ \/ who = V /\ what = "createDefinition" /\ createDefinition(with)
          \/ who \in VariableObjects /\ VariableCall(who, what, with)
          \/ who \in VariableArrays /\ VariableArrayCall(who, what, with)
       /\ UNCHANGED <<parameterVars, scriptVars, readerVars, sorterVars>>
    \/ /\ who = "config" /\ what = "read" /\ read(with)
       /\ UNCHANGED <<readerVars, sorterVars>>
    \/ /\ who = "reader" /\ ReaderCall(what, with)
       /\ UNCHANGED <<parameterVars, variableVars, scriptVars, sorterVars>>
    \/ /\ who = "sorter" /\ SorterCall(what, with)
       /\ UNCHANGED <<parameterVars, variableVars, scriptVars, readerVars>>

\* A function that only looks, and may throw, returns.
Answers(who, what, with) ==
    \/ who \in Objects /\ ObjectAnswers(who, what)
    \/ who \in VariableObjects /\ VariableAnswers(who, what)
    \/ what = "[]" /\ who = "a" /\ D!InRange(who, with)
    \/ what = "[]" /\ who \in VariableArrays /\ HasVariable(who, with)

Got(who, what) ==
    CASE who = P -> StaticValue(what)
      [] who \in Objects -> ObjectValue(who, what)
      [] who = "a" -> ArrayValue(what)
      [] who = V -> DictionaryValue(what)
      [] who \in VariableObjects -> VariableValue(who, what)
      [] who \in VariableArrays -> VariableArrayValue(who, what)
      [] who = "config" -> reading
      [] who = "reader" -> ReaderValue(what)
      [] who = "sorter" -> SorterValue(what)

Nothing == [n \in {} |-> {}]

Init ==
    /\ T!TreeInit /\ D!ParamInit /\ D!Variables!Init /\ SorterInit
    /\ variableObjects = [v \in VariableObjects |-> Unbound]
    /\ script = <<>> /\ line = 0 /\ reading = "user"
    /\ readerPc = "none" /\ file = <<>> /\ fpos = 0 /\ m_nBufferSize = 1 /\ m_pBuffer = <<R!Junk>>
    /\ m_nBytes = 0 /\ m_eof = FALSE /\ m_fReleased = TRUE
    /\ m_nUserBytes = 0 /\ m_nUserItems = 0 /\ maxBytes = 0 /\ handed = <<>> /\ handedItems = 0
    /\ program \in DOMAIN Suites \union {"client"} /\ test = 0 /\ step = 1

Client ==
    /\ program = "client"
    /\ SorterNext \/ (flushed /\ UNCHANGED sorterVars)
    /\ UNCHANGED <<parameterVars, variableVars, scriptVars, readerVars, testVars>>

PickTest ==
    /\ program \in DOMAIN Suites /\ test = 0
    /\ m_nextId <= MaxId
    /\ test' \in DOMAIN Suites[program] /\ step' = 1
    /\ UNCHANGED <<program, modelVars>>

Steps == Suites[program][test]

\* A call that does not return with the step it begins.
Busy == reading = "read" \/ readerPc \in {"construct", "probe"}

AtStep == test # 0 /\ ~ Busy /\ step <= Len(Steps)

TakeStep ==
    /\ AtStep
    /\ IF Steps[step].do = "call"
       THEN Does(Steps[step].who, Steps[step].what, Steps[step].with)
       ELSE UNCHANGED modelVars
    /\ step' = step + 1 /\ UNCHANGED <<program, test>>

GoOn == Busy /\ (ReadsOn \/ ReaderGoesOn) /\ UNCHANGED testVars

\* Objects and scripts go with the test; these static members need tearDown.
TearDown ==
    /\ test # 0 /\ ~ Busy /\ step > Len(Steps)
    /\ IF program = "treeparamtests"
       THEN /\ m_generation' = 1 /\ m_nextId' = 1 /\ m_event' = <<>> /\ eventSize' = 0
            /\ m_scoreboard' = <<>> /\ m_defaultSpecification' = Defaults
       ELSE UNCHANGED <<m_generation, m_nextId, m_event, eventSize, m_scoreboard,
                        m_defaultSpecification>>
    /\ m_parameterDictionary' = Nothing /\ parameters' = Nothing /\ asMade' = Nothing
    /\ valid' = {} /\ assigned' = {} /\ m_dictionary' = Nothing /\ seen' = Nothing
    /\ overwritten' = {} /\ newValues' = {} /\ newUnits' = {}
    /\ objects' = [o \in Objects |-> T!DefaultObject]
    /\ paramArrays' = [a \in {"a"} |-> D!NoArray]
    /\ declared' = [a \in {"a"} |-> D!NoDeclaration]
    /\ variableArrays' = [a \in VariableArrays |-> D!Variables!NoArray]
    /\ variableObjects' = [v \in VariableObjects |-> Unbound]
    /\ script' = <<>> /\ line' = 0 /\ reading' = "user"
    /\ readerPc' = "none" /\ file' = <<>> /\ fpos' = 0 /\ m_nBufferSize' = 1
    /\ m_pBuffer' = <<R!Junk>> /\ m_nBytes' = 0 /\ m_eof' = FALSE /\ m_fReleased' = TRUE
    /\ m_nUserBytes' = 0 /\ m_nUserItems' = 0 /\ maxBytes' = 0 /\ handed' = <<>> /\ handedItems' = 0
    /\ m_items' = Nothing /\ m_lastEmittedTrigger' = MaxTrigger /\ emitted' = <<>>
    /\ given' = Nothing /\ flushed' = FALSE
    /\ test' = 0 /\ step' = 1 /\ UNCHANGED program

\* No test is left that may begin: the bound is reached.
Ended ==
    /\ program \in DOMAIN Suites /\ test = 0 /\ m_nextId > MaxId
    /\ UNCHANGED <<modelVars, testVars>>

Next == Client \/ PickTest \/ TakeStep \/ GoOn \/ TearDown \/ Ended

TestSpec == Init /\ [][Next]_<<modelVars, testVars>>
-----------------------------------------------------------------------------
\* What TreeParameter and ParameterArrays both say of a parameter.
ModelsAgree ==
    /\ DOMAIN parameters = DOMAIN m_parameterDictionary /\ eventSize = Len(m_event)
    /\ \A n \in DOMAIN parameters :
          /\ parameters[n].s_parameterNumber = T!Number(n)
          /\ n \in valid <=> m_parameterDictionary[n].s_generation = m_generation

(***************************************************************************)
(* Every unit test passes in whatever order they run: the state of the     *)
(* models is what EQ and ASSERT expect, a call that must throw has no      *)
(* step, any other has one; and the model of the values of parameters      *)
(* agrees with that of their metadata.                                     *)
(***************************************************************************)
TestsPass ==
    /\ ModelsAgree
    /\ AtStep =>
          LET s == Steps[step] IN
             CASE s.do = "expect" -> Got(s.who, s.what) = s.value
               [] s.do = "call" -> ENABLED Does(s.who, s.what, s.with)
               [] s.do = "throws" -> /\ ~ Answers(s.who, s.what, s.with)
                                     /\ ~ ENABLED Does(s.who, s.what, s.with)
=============================================================================
