---------------------------- MODULE Definitions ----------------------------
(***************************************************************************)
(* Names and numbers in a parameter to parameter run.  Every process reads *)
(* the definition file (CTCLParameterReader) and numbers the parameters    *)
(* for itself; the outputter writes its numbers at the head of the file,   *)
(* the workers send theirs.  They map the numbers of the input file to     *)
(* parameters by name (CMPIParametersToParametersWorker), and steer their  *)
(* computation with tree variables (CTreeVariable).  The pipeline between  *)
(* these processes is in ParamPipeline, the values of an event, here a     *)
(* function of names, are in TreeParameter.                                *)
(***************************************************************************)
EXTENDS Naturals, FiniteSets, Sequences

CONSTANTS Workers, Outputter,
          Parameters, Variables,  \* names
          UserParameters,         \* those that user code makes objects with
          UserVariables,          \* those that user code sets
          Values,
          DefinitionFiles,  \* sequences of lines; an array of variables is
                            \* several of them
          InputParameters,  \* what may be defined in the input file: sequences
                            \* of definitions as the dealer pushes them
          InputVariables,   \* the same for variables: functions of names
          InputEvents,      \* its events: functions of numbers
          NoParameter,      \* nullptr
          MaxEvents,        \* bound: the events dealt
          MaxId             \* bound: the numbers user code makes are below it

Lines == [what : {"treeparameter"}, name : Parameters]
           \union [what : {"treeparameterarray"}, names : Seq(Parameters)]
           \union [what : {"treevariable"}, name : Variables, value : Values]
           \union [what : {"error"}]

ParameterDef == [s_name : Parameters, s_parameterId : Nat]

\* The writer of the input file had one number for each name.
OneToOne(defs) ==
    \A j, k \in DOMAIN defs :
       defs[j].s_name = defs[k].s_name \/ defs[j].s_parameterId = defs[k].s_parameterId
         => j = k

ASSUME DefinitionsAssumption ==
    /\ Outputter \notin Workers /\ IsFiniteSet(Parameters)
    /\ UserParameters \subseteq Parameters /\ NoParameter \notin Parameters
    /\ UserVariables \subseteq Variables
    /\ 0 \in Values
    /\ DefinitionFiles \subseteq Seq(Lines)
    /\ InputParameters \subseteq Seq(ParameterDef)
    /\ \A defs \in InputParameters : OneToOne(defs)
    /\ \A v \in InputVariables : /\ DOMAIN v \subseteq Variables
                                 /\ \A n \in DOMAIN v : v[n] \in Values
    /\ \A e \in InputEvents : /\ DOMAIN e \subseteq Nat
                              /\ \A k \in DOMAIN e : e[k] \in Values
    /\ MaxEvents \in Nat /\ MaxId \in Nat

Ranks == Workers \union {Outputter}

VARIABLES definitionFile, inputParameters, inputVariables,  \* what is read
          pc,              \* "read", "construct", "params", "vars", "ready",
                           \* "process", "run" or "thrown"
          line,            \* lines read of the definition file
          dictionary,      \* of each process: the numbers of its parameters
          m_nextId,        \* and the next of them
          variables,       \* of each process: the values of its variables
          m_parameterMap,  \* from the numbers of the input file
          m_variableMap,   \* from names to what the input file has
          event,           \* the values in the present event of each worker
          input,           \* history: the event of the input file it is made of
          head,            \* what the output file begins with
          written,         \* the events in it, and the values they stand for
          taken,           \* events dealt
          steered          \* history: variables the user code of a worker set

vars == <<definitionFile, inputParameters, inputVariables, pc, line, dictionary, m_nextId,
          variables, m_parameterMap, m_variableMap, event, input, head, written, taken, steered>>

given == <<definitionFile, inputParameters, inputVariables>>

NoFunction == [n \in {} |-> 0]

IsNumbering(d) == /\ DOMAIN d \subseteq Parameters
                  /\ \A n \in DOMAIN d : d[n] \in Nat

IsVariables(v) == /\ DOMAIN v \subseteq Variables
                  /\ \A n \in DOMAIN v : v[n] \in Values

IsEvent(e) == /\ DOMAIN e \subseteq Parameters
              /\ \A n \in DOMAIN e : e[n] \in Values

TypeOK ==
    /\ definitionFile \in DefinitionFiles
    /\ inputParameters \in InputParameters /\ inputVariables \in InputVariables
    /\ pc \in [Ranks -> {"read", "construct", "params", "vars", "ready", "process", "run",
                         "thrown"}]
    /\ line \in [Ranks -> Nat]
    /\ \A r \in Ranks : IsNumbering(dictionary[r]) /\ IsVariables(variables[r])
    /\ m_nextId \in [Ranks -> Nat]
    /\ \A w \in Workers :
          /\ \A k \in DOMAIN m_parameterMap[w] :
                k \in Nat /\ m_parameterMap[w][k] \in Parameters \union {NoParameter}
          /\ IsVariables(m_variableMap[w]) /\ IsEvent(event[w])
          /\ input[w] \in InputEvents \union {NoFunction}
          /\ steered[w] \subseteq Variables
    /\ IsNumbering(head.parameters) /\ IsVariables(head.variables)
    /\ \A e \in written : IsEvent(e.meant) /\ e.sent \subseteq Nat \X Values
    /\ taken \in 0 .. MaxEvents

Init ==
    /\ definitionFile \in DefinitionFiles
    /\ inputParameters \in InputParameters /\ inputVariables \in InputVariables
    /\ pc = [r \in Ranks |-> "read"]
    /\ line = [r \in Ranks |-> 0]
    /\ dictionary = [r \in Ranks |-> NoFunction]
    /\ m_nextId = [r \in Ranks |-> 1]
    /\ variables = [r \in Ranks |-> NoFunction]
    /\ m_parameterMap = [w \in Workers |-> NoFunction]
    /\ m_variableMap = [w \in Workers |-> NoFunction]
    /\ event = [w \in Workers |-> NoFunction]
    /\ input = [w \in Workers |-> NoFunction]
    /\ head = [parameters |-> NoFunction, variables |-> NoFunction]
    /\ written = {}
    /\ taken = 0
    /\ steered = [w \in Workers |-> {}]
-----------------------------------------------------------------------------
With(f, x, y) == [z \in DOMAIN f \union {x} |-> IF z = x THEN y ELSE f[z]]

\* Mutant: the numbers begin at 1 again.
AllDefinedFromOne(d, next, names) ==
    LET New == {k \in DOMAIN names : names[k] \notin DOMAIN d} IN
       [n \in DOMAIN d \union {names[k] : k \in New} |->
           IF n \in DOMAIN d THEN d[n]
           ELSE 1 + Cardinality({j \in New : \E k \in New : j < k /\ names[k] = n})]

\* Each name makes a parameter: those without a number get the ones from next.
AllDefined(d, next, names) ==
    LET New == {k \in DOMAIN names : names[k] \notin DOMAIN d} IN
       [n \in DOMAIN d \union {names[k] : k \in New} |->
           IF n \in DOMAIN d THEN d[n]
           ELSE next + Cardinality({j \in New : \E k \in New : j < k /\ names[k] = n})]

MakeParameters(r, next, names) ==
    /\ dictionary' = [dictionary EXCEPT ![r] = AllDefined(@, next, names)]
    /\ m_nextId' = [m_nextId EXCEPT
                       ![r] = next + Cardinality({k \in DOMAIN names :
                                                    names[k] \notin DOMAIN dictionary[r]})]

\* What the elements of an array are made like takes a number, too.
MakeArray(r, names) == MakeParameters(r, m_nextId[r] + 1, names)

\* Mutant: what user code makes before the file is read is numbered first.
MakesEarly == {"read", "construct", "process"}

\* When user code of a worker runs: its constructor and process().
UserCode == {"construct", "process"}

ReadLine(r) ==
    /\ pc[r] = "read" /\ line[r] < Len(definitionFile)
    /\ LET c == definitionFile[line[r] + 1] IN
          \/ /\ c.what = "treeparameter"
             /\ MakeParameters(r, m_nextId[r], <<c.name>>)
             /\ UNCHANGED <<pc, variables>>
          \/ /\ c.what = "treeparameterarray"
             /\ MakeArray(r, c.names)
             /\ UNCHANGED <<pc, variables>>
          \/ /\ c.what = "treevariable"
             /\ variables' = [variables EXCEPT ![r] = With(@, c.name, c.value)]
             /\ UNCHANGED <<pc, dictionary, m_nextId>>
          \/ /\ c.what = "error"
             /\ pc' = [pc EXCEPT ![r] = "thrown"]
             /\ UNCHANGED <<dictionary, m_nextId, variables>>
    /\ line' = [line EXCEPT ![r] = @ + 1]
    /\ UNCHANGED <<given, m_parameterMap, m_variableMap, event, input, head, written,
                   taken, steered>>

ReadDone(r) ==
    /\ pc[r] = "read" /\ line[r] = Len(definitionFile)
    /\ pc' = [pc EXCEPT ![r] = "construct"]
    /\ UNCHANGED <<given, line, dictionary, m_nextId, variables, m_parameterMap,
                   m_variableMap, event, input, head, written, taken, steered>>

\* The constructor of CDataWriter writes both items of definitions.
OpenOutput ==
    /\ pc[Outputter] = "construct"
    /\ head' = [parameters |-> dictionary[Outputter], variables |-> variables[Outputter]]
    /\ pc' = [pc EXCEPT ![Outputter] = "run"]
    /\ UNCHANGED <<given, line, dictionary, m_nextId, variables, m_parameterMap,
                   m_variableMap, event, input, written, taken, steered>>
-----------------------------------------------------------------------------
\* User code makes an object, or an array of one, in the constructor of its
\* worker or in process.
UserMakes(w, name) ==
    /\ pc[w] \in UserCode
    /\ m_nextId[w] < MaxId
    /\ MakeParameters(w, m_nextId[w], <<name>>) \/ MakeArray(w, <<name>>)
    /\ UNCHANGED <<given, pc, line, variables, m_parameterMap, m_variableMap, event, input,
                   head, written, taken, steered>>

UserAssigns(w, name, v) ==
    /\ pc[w] = "process" /\ name \in DOMAIN dictionary[w]
    /\ event' = [event EXCEPT ![w] = With(@, name, v)]
    /\ UNCHANGED <<given, pc, line, dictionary, m_nextId, variables, m_parameterMap,
                   m_variableMap, input, head, written, taken, steered>>

UserUnsets(w, name) ==
    /\ pc[w] = "process" /\ name \in DOMAIN event[w]
    /\ event' = [event EXCEPT ![w] = [n \in DOMAIN @ \ {name} |-> @[n]]]
    /\ UNCHANGED <<given, pc, line, dictionary, m_nextId, variables, m_parameterMap,
                   m_variableMap, input, head, written, taken, steered>>

\* CTreeVariable(name) keeps the value of a variable there is.
UserSteers(w, name, v) ==
    /\ pc[w] \in UserCode
    /\ variables' = [variables EXCEPT ![w] = With(@, name, v)]
    /\ steered' = [steered EXCEPT ![w] = @ \union {name}]
    /\ UNCHANGED <<given, pc, line, dictionary, m_nextId, m_parameterMap, m_variableMap,
                   event, input, head, written, taken>>

UserMakesVariable(w, name) ==
    /\ pc[w] \in UserCode
    /\ variables' = [variables EXCEPT ![w] =
                        IF name \in DOMAIN @ THEN @ ELSE With(@, name, 0)]
    /\ UNCHANGED <<given, pc, line, dictionary, m_nextId, m_parameterMap, m_variableMap,
                   event, input, head, written, taken, steered>>

\* Of a variable the input file does not have it throws.
loadVariable(w, name) ==
    /\ pc[w] = "process"
    /\ IF name \in DOMAIN m_variableMap[w]
       THEN /\ variables' = [variables EXCEPT ![w] = With(@, name, m_variableMap[w][name])]
            /\ steered' = [steered EXCEPT ![w] = @ \union {name}]
            /\ UNCHANGED pc
       ELSE /\ pc' = [pc EXCEPT ![w] = "thrown"]
            /\ UNCHANGED <<variables, steered>>
    /\ UNCHANGED <<given, line, dictionary, m_nextId, m_parameterMap, m_variableMap, event,
                   input, head, written, taken>>
-----------------------------------------------------------------------------
ConstructDone(w) ==
    /\ pc[w] = "construct"
    /\ pc' = [pc EXCEPT ![w] = "params"]
    /\ UNCHANGED <<given, line, dictionary, m_nextId, variables, m_parameterMap,
                   m_variableMap, event, input, head, written, taken, steered>>

\* Mutant: the map has as many entries as there are definitions.
MapSizeOfList(defs) == Len(defs)

MapSize(defs) ==
    1 + CHOOSE id \in {defs[k].s_parameterId : k \in DOMAIN defs} :
           \A k \in DOMAIN defs : defs[k].s_parameterId <= id

MapOf(defs) ==
    [id \in 0 .. MapSize(defs) - 1 |->
        IF \E k \in DOMAIN defs : defs[k].s_parameterId = id
        THEN defs[CHOOSE k \in DOMAIN defs : defs[k].s_parameterId = id].s_name
        ELSE NoParameter]

\* Without definitions there is no list to receive and the worker waits.
loadTreeParameterMap(w) ==
    /\ pc[w] = "params" /\ inputParameters # <<>>
    /\ MakeParameters(w, m_nextId[w],
                      [k \in DOMAIN inputParameters |-> inputParameters[k].s_name])
    /\ m_parameterMap' = [m_parameterMap EXCEPT ![w] = MapOf(inputParameters)]
    /\ pc' = [pc EXCEPT ![w] = "vars"]
    /\ UNCHANGED <<given, line, variables, m_variableMap, event, input, head, written,
                   taken, steered>>

\* Mutant: the variables of the input file become those of the worker.
loadVariableMapIntoTree(w) ==
    /\ pc[w] = "vars" /\ DOMAIN inputVariables # {}
    /\ m_variableMap' = [m_variableMap EXCEPT ![w] = inputVariables]
    /\ variables' = [variables EXCEPT ![w] =
                        [n \in DOMAIN @ \union DOMAIN inputVariables |->
                            IF n \in DOMAIN inputVariables THEN inputVariables[n] ELSE @[n]]]
    /\ pc' = [pc EXCEPT ![w] = "ready"]
    /\ UNCHANGED <<given, line, dictionary, m_nextId, m_parameterMap, event, input, head,
                   written, taken, steered>>

loadVariableMap(w) ==
    /\ pc[w] = "vars" /\ DOMAIN inputVariables # {}
    /\ m_variableMap' = [m_variableMap EXCEPT ![w] = inputVariables]
    /\ pc' = [pc EXCEPT ![w] = "ready"]
    /\ UNCHANGED <<given, line, dictionary, m_nextId, variables, m_parameterMap, event,
                   input, head, written, taken, steered>>

\* Mutant: null pointers are not looked for.
LoadedUnchecked(map, e) ==
    LET Mapped == DOMAIN e \intersect DOMAIN map IN
       [n \in {map[k] : k \in Mapped} |-> e[CHOOSE k \in Mapped : map[k] = n]]

\* loadTreeParameters: what has no parameter is dropped.
Loaded(map, e) ==
    LET Mapped == {k \in DOMAIN e \intersect DOMAIN map : map[k] # NoParameter} IN
       [n \in {map[k] : k \in Mapped} |-> e[CHOOSE k \in Mapped : map[k] = n]]

TakeEvent(w, e) ==
    /\ pc[w] = "ready" /\ taken < MaxEvents
    /\ event' = [event EXCEPT ![w] = Loaded(m_parameterMap[w], e)]
    /\ input' = [input EXCEPT ![w] = e]
    /\ taken' = taken + 1
    /\ pc' = [pc EXCEPT ![w] = "process"]
    /\ UNCHANGED <<given, line, dictionary, m_nextId, variables, m_parameterMap,
                   m_variableMap, head, written, steered>>

\* sendEventToFarmer, and what the farmer and the outputter do with it.
SendEvent(w) ==
    /\ pc[w] = "process"
    /\ written' = written \union
          {[sent |-> {<<dictionary[w][n], event[w][n]>> : n \in DOMAIN event[w]},
            meant |-> event[w]]}
    /\ pc' = [pc EXCEPT ![w] = "ready"]
    /\ UNCHANGED <<given, line, dictionary, m_nextId, variables, m_parameterMap,
                   m_variableMap, event, input, head, taken, steered>>

UserStep(w) ==
    \/ \E name \in UserParameters :
          \/ UserMakes(w, name)
          \/ \E v \in Values : UserAssigns(w, name, v)
          \/ UserUnsets(w, name)
    \/ \E name \in Variables : UserMakesVariable(w, name) \/ loadVariable(w, name)
    \/ \E name \in UserVariables, v \in Values : UserSteers(w, name, v)

WorkerStep(w) ==
    \/ ConstructDone(w) \/ loadTreeParameterMap(w) \/ loadVariableMap(w)
    \/ \E e \in InputEvents : TakeEvent(w, e)
    \/ SendEvent(w)

Next ==
    \/ \E r \in Ranks : ReadLine(r) \/ ReadDone(r)
    \/ OpenOutput
    \/ \E w \in Workers : UserStep(w) \/ WorkerStep(w)

Spec == Init /\ [][Next]_vars
-----------------------------------------------------------------------------
(***************************************************************************)
(* "a common idea of" the parameters (rawtoparameters.md:318): what is at  *)
(* the head of the output file has the same number in every worker,        *)
(* whatever parameters this made besides.                                  *)
(***************************************************************************)
Defining == {w \in Workers : pc[w] \notin {"read", "thrown"}}

NumbersAgree ==
    \A w \in Defining : \A n \in DOMAIN head.parameters :
       n \in DOMAIN dictionary[w] /\ dictionary[w][n] = head.parameters[n]

(***************************************************************************)
(* Who reads the output file with the definitions at its head gets the     *)
(* values that the worker gave to those parameters, and no others.         *)
(***************************************************************************)
ReadsBack ==
    pc[Outputter] = "run" =>
       \A e \in written :
          {nv \in (DOMAIN head.parameters) \X Values :
             <<head.parameters[nv[1]], nv[2]>> \in e.sent}
            = {<<n, e.meant[n]>> : n \in DOMAIN e.meant \intersect DOMAIN head.parameters}

(***************************************************************************)
(* A worker starts on an event with the values it has in the input file,   *)
(* each under the name it has there, and nothing else.                     *)
(***************************************************************************)
InputValues(e) ==
    {<<inputParameters[k].s_name, e[inputParameters[k].s_parameterId]>> :
        k \in {j \in DOMAIN inputParameters : inputParameters[j].s_parameterId \in DOMAIN e}}

LoadsByName ==
    [][\A w \in Workers :
          pc[w] = "ready" /\ pc'[w] = "process" =>
             {<<n, event'[w][n]>> : n \in DOMAIN event'[w]} = InputValues(input'[w])]_vars

(***************************************************************************)
(* Variables are as the definition file has them last, at the head of the  *)
(* output file and in every worker whose user code did not set them; what  *)
(* the input file has of them is not used unless it is asked for.          *)
(***************************************************************************)
DefinedLast(name, v) ==
    \E k \in DOMAIN definitionFile :
       /\ definitionFile[k] = [what |-> "treevariable", name |-> name, value |-> v]
       /\ \A j \in k + 1 .. Len(definitionFile) :
             definitionFile[j].what = "treevariable" => definitionFile[j].name # name

FileDefines(name) ==
    \E k \in DOMAIN definitionFile :
       definitionFile[k].what = "treevariable" /\ definitionFile[k].name = name

SteeredAsDefined ==
    /\ pc[Outputter] = "run" =>
          /\ \A n \in Variables : FileDefines(n) => n \in DOMAIN head.variables
          /\ \A n \in DOMAIN head.variables : DefinedLast(n, head.variables[n])
    /\ \A w \in Defining : \A n \in Variables \ steered[w] :
          FileDefines(n) => DefinedLast(n, variables[w][n])
=============================================================================
