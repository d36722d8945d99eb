--------------------------- MODULE TreeParameter ---------------------------
(***************************************************************************)
(* CTreeParameter (base/TreeParameter.cpp): the parameters of one process. *)
(* Objects share what a dictionary has under their name.  A parameter has  *)
(* a value as long as its generation is the current one, so that nextEvent *)
(* takes the values of all of them away at once; the scoreboard lists the  *)
(* numbers of the parameters that have one.  Limits, bins, units and the   *)
(* flag that they changed are in ParameterArrays.                          *)
(***************************************************************************)
EXTENDS Naturals, Sequences

CONSTANTS Names,         \* of parameters
          UserNames,     \* those that user code makes objects with
          Unnamed,       \* "", the name of an object made without one
          Objects,       \* the CTreeParameter objects user code may have
          NoDefinition,  \* the null m_pDefinition
          Values,        \* what parameters are set to
          MaxId,         \* bound: the numbers are below it
          MaxGeneration  \* bound: the generations of a run

ASSUME TreeAssumption ==
    /\ Unnamed \in Names /\ UserNames \subseteq Names
    /\ NoDefinition \notin Names
    /\ 0 \in Values
    /\ MaxId \in Nat /\ MaxGeneration \in Nat

VARIABLES m_generation,
          m_parameterDictionary,  \* from names to SharedData
          m_nextId,
          m_event,                \* the value of number k is m_event[k + 1]
          m_scoreboard,
          objects,                \* m_name and m_pDefinition of each object
          assigned                \* history: the values given in this event,
                                  \* as pairs of a name and a value

treeVars == <<m_generation, m_parameterDictionary, m_nextId, m_event,
              m_scoreboard, objects, assigned>>

SharedData == [s_parameterNumber : Nat, s_generation : Nat]

TreeObject == [m_name : Names, m_pDefinition : Names \union {NoDefinition}]

TreeTypeOK ==
    /\ m_generation \in Nat
    /\ DOMAIN m_parameterDictionary \subseteq Names
    /\ m_parameterDictionary \in [DOMAIN m_parameterDictionary -> SharedData]
    /\ m_nextId \in Nat
    /\ m_event \in Seq(Values)
    /\ m_scoreboard \in Seq(Nat)
    /\ objects \in [Objects -> TreeObject]
    /\ assigned \subseteq Names \X Values

DefaultObject == [m_name |-> Unnamed, m_pDefinition |-> NoDefinition]

\* m_defaultSpecification has taken the number 0.
TreeInit ==
    /\ m_generation = 1
    /\ m_parameterDictionary = [n \in {} |-> {}]
    /\ m_nextId = 1
    /\ m_event = <<>>
    /\ m_scoreboard = <<>>
    /\ objects = [o \in Objects |-> DefaultObject]
    /\ assigned = {}
-----------------------------------------------------------------------------
Known(name) == name \in DOMAIN m_parameterDictionary

Number(name) == m_parameterDictionary[name].s_parameterNumber

\* std::vector::resize: what is new is zero.
Resized(values, n) ==
    [k \in 1 .. n |-> IF k <= Len(values) THEN values[k] ELSE 0]

\* Mutant: the event is one element too short for the new number.
makeSharedDataNoRoom(name) ==
    /\ m_nextId < MaxId
    /\ m_parameterDictionary' =
          [n \in DOMAIN m_parameterDictionary \union {name} |->
              IF n = name
              THEN [s_parameterNumber |-> m_nextId, s_generation |-> m_generation - 1]
              ELSE m_parameterDictionary[n]]
    /\ m_nextId' = m_nextId + 1
    /\ m_event' = Resized(m_event, m_nextId)

\* A parameter that is not in the dictionary gets the next number and no value.
makeSharedData(name) ==
    /\ m_nextId < MaxId
    /\ m_parameterDictionary' =
          [n \in DOMAIN m_parameterDictionary \union {name} |->
              IF n = name
              THEN [s_parameterNumber |-> m_nextId, s_generation |-> m_generation - 1]
              ELSE m_parameterDictionary[n]]
    /\ m_nextId' = m_nextId + 1
    /\ m_event' = Resized(m_event, m_nextId + 1)

\* Mutant: a parameter that is initialized again is registered again.
InitializeAgain(o, name) ==
    /\ makeSharedData(name)
    /\ objects' = [objects EXCEPT ![o] = [m_name |-> name, m_pDefinition |-> name]]
    /\ UNCHANGED <<m_generation, m_scoreboard, assigned>>

\* The constructors with a name, and Initialize of an object that exists.
Initialize(o, name) ==
    /\ IF Known(name)
       THEN UNCHANGED <<m_parameterDictionary, m_nextId, m_event>>
       ELSE makeSharedData(name)
    /\ objects' = [objects EXCEPT ![o] = [m_name |-> name, m_pDefinition |-> name]]
    /\ UNCHANGED <<m_generation, m_scoreboard, assigned>>

\* The default constructor.
ConstructDefault(o) ==
    /\ objects' = [objects EXCEPT ![o] = DefaultObject]
    /\ UNCHANGED <<m_generation, m_parameterDictionary, m_nextId, m_event,
                   m_scoreboard, assigned>>

\* The copy constructor.
ConstructCopy(o, rhs) ==
    /\ objects' = [objects EXCEPT ![o] = objects[rhs]]
    /\ UNCHANGED <<m_generation, m_parameterDictionary, m_nextId, m_event,
                   m_scoreboard, assigned>>

isBound(o) == objects[o].m_pDefinition # NoDefinition

Bind(o) ==
    /\ ~ isBound(o) /\ ~ Known(objects[o].m_name)
    /\ makeSharedData(objects[o].m_name)
    /\ objects' = [objects EXCEPT ![o].m_pDefinition = objects[o].m_name]
    /\ UNCHANGED <<m_generation, m_scoreboard, assigned>>

\* makeSharedData throws when it has already used up a number.
BindThrows(o) ==
    /\ ~ isBound(o) /\ Known(objects[o].m_name)
    /\ m_nextId < MaxId
    /\ m_nextId' = m_nextId + 1
    /\ UNCHANGED <<m_generation, m_parameterDictionary, m_event, m_scoreboard,
                   objects, assigned>>
-----------------------------------------------------------------------------
Definition(o) == m_parameterDictionary[objects[o].m_pDefinition]

getId(o) == Definition(o).s_parameterNumber

isValid(o) == isBound(o) /\ Definition(o).s_generation = m_generation

getValue(o) == m_event[getId(o) + 1]

Assigning(name, v) == {a \in assigned : a[1] # name} \union {<<name, v>>}

Unassigning(name) == {a \in assigned : a[1] # name}

\* Mutant: a number goes on the scoreboard each time it is given a value.
setValueEachTime(o, v) ==
    /\ isBound(o)
    /\ m_event' = [m_event EXCEPT ![getId(o) + 1] = v]
    /\ m_parameterDictionary' =
          [m_parameterDictionary EXCEPT ![objects[o].m_pDefinition].s_generation = m_generation]
    /\ m_scoreboard' = Append(m_scoreboard, getId(o))
    /\ assigned' = Assigning(objects[o].m_name, v)
    /\ UNCHANGED <<m_generation, m_nextId, objects>>

setValue(o, v) ==
    /\ isBound(o)
    /\ m_event' = [m_event EXCEPT ![getId(o) + 1] = v]
    /\ IF isValid(o)
       THEN UNCHANGED <<m_parameterDictionary, m_scoreboard>>
       ELSE /\ m_parameterDictionary' =
                  [m_parameterDictionary EXCEPT
                      ![objects[o].m_pDefinition].s_generation = m_generation]
            /\ m_scoreboard' = Append(m_scoreboard, getId(o))
    /\ assigned' = Assigning(objects[o].m_name, v)
    /\ UNCHANGED <<m_generation, m_nextId, objects>>

\* operator=(const CTreeParameter&); the operators that compute are like it.
Assign(o, rhs) == isValid(rhs) /\ setValue(o, getValue(rhs))

WithoutAt(s, k) == SubSeq(s, 1, k - 1) \o SubSeq(s, k + 1, Len(s))

\* The first place of a number on the scoreboard.
Found(k, number) ==
    /\ k \in DOMAIN m_scoreboard /\ m_scoreboard[k] = number
    /\ \A j \in 1 .. k - 1 : m_scoreboard[j] # number

\* Mutant: a value that is not there is taken away too.
setInvalidAlways(o) ==
    /\ isBound(o)
    /\ m_scoreboard' = SelectSeq(m_scoreboard, LAMBDA number : number # getId(o))
    /\ m_parameterDictionary' =
          [m_parameterDictionary EXCEPT ![objects[o].m_pDefinition].s_generation = @ - 1]
    /\ assigned' = Unassigning(objects[o].m_name)
    /\ UNCHANGED <<m_generation, m_nextId, m_event, objects>>

setInvalid(o) ==
    /\ isValid(o)
    /\ \E k \in DOMAIN m_scoreboard :
          Found(k, getId(o)) /\ m_scoreboard' = WithoutAt(m_scoreboard, k)
    /\ m_parameterDictionary' =
          [m_parameterDictionary EXCEPT
              ![objects[o].m_pDefinition].s_generation = m_generation - 1]
    /\ assigned' = Unassigning(objects[o].m_name)
    /\ UNCHANGED <<m_generation, m_nextId, m_event, objects>>

\* Mutant: the values stay valid.
nextEventKeeps ==
    /\ m_generation < MaxGeneration
    /\ m_scoreboard' = <<>>
    /\ assigned' = {}
    /\ UNCHANGED <<m_generation, m_parameterDictionary, m_nextId, m_event, objects>>

nextEvent ==
    /\ m_generation < MaxGeneration
    /\ m_generation' = m_generation + 1
    /\ m_scoreboard' = <<>>
    /\ assigned' = {}
    /\ UNCHANGED <<m_parameterDictionary, m_nextId, m_event, objects>>

\* What is sent of an event: pairs of a number and a value.
collectEvent ==
    [k \in DOMAIN m_scoreboard |-> <<m_scoreboard[k], m_event[m_scoreboard[k] + 1]>>]

\* What user code does with its objects within an event.
UseObject ==
    \E o \in Objects :
       \/ \E name \in UserNames : Initialize(o, name)
       \/ \E rhs \in Objects : ConstructCopy(o, rhs) \/ Assign(o, rhs)
       \/ \E v \in Values : setValue(o, v)
       \/ setInvalid(o)

\* Objects made without a name; they are all called the same.
BindObject == \E o \in Objects : ConstructDefault(o) \/ Bind(o) \/ BindThrows(o)
-----------------------------------------------------------------------------
(***************************************************************************)
(* Two names never share a number, each number has its place in m_event,   *)
(* and an object that is bound is bound to its name, whether it was made   *)
(* with it, copied, initialized again or bound late: what one object gets  *)
(* all objects of that name have, and no other.                            *)
(***************************************************************************)
SameNameSameParameter ==
    /\ \A o \in Objects : isBound(o) => /\ objects[o].m_pDefinition = objects[o].m_name
                                        /\ Known(objects[o].m_name)
    /\ \A n \in DOMAIN m_parameterDictionary : Number(n) < Len(m_event)
    /\ \A n1, n2 \in DOMAIN m_parameterDictionary : Number(n1) = Number(n2) => n1 = n2

(***************************************************************************)
(* What collectEvent returns is exactly what was given to parameters since *)
(* the last nextEvent and not taken away again: each of them once, with    *)
(* the last value given under its name, and nothing of an earlier event.   *)
(***************************************************************************)
EventIsWhatWasAssigned ==
    /\ \A j, k \in DOMAIN m_scoreboard : m_scoreboard[j] = m_scoreboard[k] => j = k
    /\ {collectEvent[k] : k \in DOMAIN m_scoreboard}
         = {<<Number(a[1]), a[2]>> : a \in assigned}

(***************************************************************************)
(* An object has a value exactly when its name was given one in this event *)
(* and getValue returns that one.                                          *)
(***************************************************************************)
ReadsThisEvent ==
    \A o \in Objects :
       isBound(o) =>
          /\ isValid(o) <=> \E v \in Values : <<objects[o].m_name, v>> \in assigned
          /\ isValid(o) => <<objects[o].m_name, getValue(o)>> \in assigned

(***************************************************************************)
(* A parameter keeps its number for good: the definitions at the head of   *)
(* the output file, and the events already in it, refer to it.             *)
(***************************************************************************)
NumbersAreForGood ==
    [][\A n \in DOMAIN m_parameterDictionary :
          /\ n \in DOMAIN m_parameterDictionary'
          /\ Number(n)' = Number(n)]_treeVars
=============================================================================
