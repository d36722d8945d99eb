--------------------------- MODULE ParameterArrays ---------------------------
(***************************************************************************)
(* What a CTreeParameter has besides its value (base/TreeParameter.cpp):   *)
(* limits, bins, units and the flag that they changed; and the arrays of   *)
(* parameters (base/TreeParameterArray.cpp).  Values and generations are   *)
(* in TreeParameter; here a parameter has a value in the present event or  *)
(* not.                                                                    *)
(***************************************************************************)
EXTENDS ElementNames, Sequences

CONSTANTS ParameterNames,  \* that objects are made with, elements or not
          Limits, Bins, Units, Resolutions, Widths,  \* arguments of calls
          Defaults,        \* how m_defaultSpecification is initialized
          ParameterArrays, \* the CTreeParameterArray objects of user code
          ArrayShapes      \* the first index and the size arrays are made with

Specification == [s_low : Int, s_high : Int, s_chans : Nat, s_units : Units]

ASSUME ParametersAssumption ==
    /\ \A name \in ParameterNames : IsName(name)
    /\ Limits \subseteq Int /\ Bins \subseteq Nat /\ 0 \in Bins
    /\ Resolutions \subseteq Nat /\ \A r \in Resolutions : 2 ^ r \in Nat
    /\ Widths \subseteq Int \ {0}
    /\ Defaults \in Specification
    /\ ArrayShapes \subseteq [first : Int, size : Nat]
    \* Indices are ints.
    /\ \A shape \in ArrayShapes : shape.first + shape.size < UintMod

VARIABLES parameters,              \* m_parameterDictionary, values apart
          m_nextId,
          eventSize,               \* m_event.size()
          m_defaultSpecification,
          paramArrays,             \* the arrays: first index and elements
          valid,                   \* the parameters with a value in this event
          asMade,                  \* history: the metadata of each parameter when
                                   \* it was made or its flag was last reset
          overwritten,             \* history: the parameters whose metadata an
                                   \* initialization has changed since
          declared                 \* history: what each array was declared as

paramVars == <<parameters, m_nextId, eventSize, m_defaultSpecification, paramArrays, valid,
               asMade, overwritten, declared>>

Known(name) == name \in DOMAIN parameters

NoArray == [m_nFirstIndex |-> 0, m_Parameters |-> <<>>]

NoDeclaration == [base |-> "", first |-> 0, size |-> 0]

ParamTypeOK ==
    /\ \A n \in DOMAIN parameters : /\ IsName(n)
                                    /\ parameters[n].s_parameterNumber \in 0 .. m_nextId - 1
                                    /\ parameters[n].s_spec \in Specification
                                    /\ parameters[n].s_changed \in BOOLEAN
    /\ m_nextId \in Nat /\ eventSize \in 0 .. m_nextId
    /\ m_defaultSpecification \in Specification
    /\ valid \subseteq DOMAIN parameters
    /\ DOMAIN asMade = DOMAIN parameters
    /\ \A n \in DOMAIN asMade : asMade[n] \in Specification
    /\ overwritten \subseteq DOMAIN parameters
    /\ \A a \in ParameterArrays : /\ paramArrays[a].m_nFirstIndex \in Int
                                  /\ paramArrays[a].m_Parameters \in Seq(DOMAIN parameters)
                                  /\ declared[a].first \in Int /\ declared[a].size \in Nat

\* m_defaultSpecification has taken the number 0.
ParamInit ==
    /\ parameters = [n \in {} |-> {}]
    /\ m_nextId = 1 /\ eventSize = 0
    /\ m_defaultSpecification = Defaults
    /\ paramArrays = [a \in ParameterArrays |-> NoArray]
    /\ valid = {}
    /\ asMade = [n \in {} |-> {}] /\ overwritten = {}
    /\ declared = [a \in ParameterArrays |-> NoDeclaration]
-----------------------------------------------------------------------------
(***************************************************************************)
(* What the constructors, and the overloads of Initialize behind them,     *)
(* make a parameter of; the last is that of a parameter there is, under    *)
(* another name.                                                           *)
(***************************************************************************)
ByDefault == m_defaultSpecification

WithUnits(units) == [m_defaultSpecification EXCEPT !.s_units = units]

WithResolution(resolution) ==
    [m_defaultSpecification EXCEPT !.s_low = 0, !.s_high = 2 ^ resolution,
                                   !.s_chans = 2 ^ resolution]

WithLimits(low, high, units) ==
    [m_defaultSpecification EXCEPT !.s_low = low, !.s_high = high, !.s_units = units]

FullySpecified(channels, low, high, units) ==
    [s_low |-> low, s_high |-> high, s_chans |-> channels, s_units |-> units]

LikeAnother == {parameters[n].s_spec : n \in DOMAIN parameters}

\* Of these an array makes a SharedData for the elements to be like, ...
Numbered ==
    {WithResolution(r) : r \in Resolutions}
      \union {WithLimits(low, high, u) : low, high \in Limits, u \in Units}
      \union {FullySpecified(c, low, high, u) :
                 c \in Bins, low, high \in Limits, u \in Units}

\* ... of these it copies that of the defaults.
Copied == {ByDefault} \union {WithUnits(u) : u \in Units}

New(names) == {k \in DOMAIN names : ~ Known(names[k])}

\* The names are different.
PositionOf(names, name) == CHOOSE k \in DOMAIN names : names[k] = name

\* Mutant: the numbers of the elements that are known are left out.
PlaceOf(names, name) == PositionOf(names, name) - 1

\* The number of new ones before it.
OrderOf(names, name) == Cardinality(New(names) \intersect 1 .. PositionOf(names, name) - 1)

(***************************************************************************)
(* Initialize for each of the names: the ones that are known keep number   *)
(* and flag, the others get the numbers from next on (makeSharedData).     *)
(***************************************************************************)
InitializeAll(names, spec, next) ==
    LET Made == {names[k] : k \in DOMAIN names} IN
       /\ parameters' =
             [n \in DOMAIN parameters \union Made |->
                 IF n \notin Made THEN parameters[n]
                 ELSE IF Known(n) THEN [parameters[n] EXCEPT !.s_spec = spec]
                 ELSE [s_parameterNumber |-> next + OrderOf(names, n), s_spec |-> spec,
                       s_changed |-> FALSE]]
       /\ asMade' = [n \in DOMAIN parameters \union Made |->
                        IF Known(n) THEN asMade[n] ELSE spec]
       /\ overwritten' = overwritten \union
             {n \in DOMAIN parameters : n \in Made /\ parameters[n].s_spec # spec}
       /\ m_nextId' = next + Cardinality(New(names))
       /\ eventSize' = IF New(names) = {} THEN eventSize ELSE next + Cardinality(New(names))

\* An object is made, or initialized again.
Initialize(name, spec) ==
    /\ InitializeAll(<<name>>, spec, m_nextId)
    /\ UNCHANGED <<m_defaultSpecification, paramArrays, valid, declared>>

SetsDefaults(spec) ==
    /\ m_defaultSpecification' = spec
    /\ UNCHANGED <<parameters, m_nextId, eventSize, paramArrays, valid, asMade, overwritten,
                   declared>>

setDefaultLimits(low, high) ==
    SetsDefaults([m_defaultSpecification EXCEPT !.s_low = low, !.s_high = high])

setDefaultBins(bins) == SetsDefaults([m_defaultSpecification EXCEPT !.s_chans = bins])

setDefaultUnits(units) == SetsDefaults([m_defaultSpecification EXCEPT !.s_units = units])

SetDefaults ==
    \/ \E low, high \in Limits : setDefaultLimits(low, high)
    \/ \E bins \in Bins : setDefaultBins(bins)
    \/ \E units \in Units : setDefaultUnits(units)
-----------------------------------------------------------------------------
\* What the setters of an object of that name have in common.
Sets(name, spec) ==
    /\ parameters' = [parameters EXCEPT ![name].s_spec = spec, ![name].s_changed = TRUE]
    /\ UNCHANGED <<m_nextId, eventSize, m_defaultSpecification, paramArrays, valid, asMade,
                   overwritten, declared>>

\* It throws when it is asked for no bins.
setBins(name, channels) ==
    /\ channels # 0
    /\ Sets(name, [parameters[name].s_spec EXCEPT !.s_chans = channels])

setStart(name, low) == Sets(name, [parameters[name].s_spec EXCEPT !.s_low = low])

setStop(name, high) == Sets(name, [parameters[name].s_spec EXCEPT !.s_high = high])

setUnit(name, units) == Sets(name, [parameters[name].s_spec EXCEPT !.s_units = units])

\* A number of bins that is negative may become any unsigned.
BinsOfWidth(spec, width) ==
    LET range == spec.s_high - spec.s_low IN
       IF range = 0 THEN {0}
       ELSE IF (range > 0) = (width > 0) THEN {Abs(range) \div Abs(width)}
       ELSE IF Abs(range) < Abs(width) THEN {0}
       ELSE Bins

\* It throws when the width is 0.
setInc(name, width) ==
    /\ width # 0
    /\ \E bins \in BinsOfWidth(parameters[name].s_spec, width) :
          Sets(name, [parameters[name].s_spec EXCEPT !.s_chans = bins])

Set(name) ==
    \/ \E bins \in Bins : setBins(name, bins)
    \/ \E limit \in Limits : setStart(name, limit) \/ setStop(name, limit)
    \/ \E units \in Units : setUnit(name, units)
    \/ \E width \in Widths : setInc(name, width)

setChanged(name) ==
    /\ parameters' = [parameters EXCEPT ![name].s_changed = TRUE]
    /\ UNCHANGED <<m_nextId, eventSize, m_defaultSpecification, paramArrays, valid, asMade,
                   overwritten, declared>>

\* Who resets the flag has seen the metadata as they are.
resetChanged(name) ==
    /\ parameters' = [parameters EXCEPT ![name].s_changed = FALSE]
    /\ asMade' = [asMade EXCEPT ![name] = parameters[name].s_spec]
    /\ overwritten' = overwritten \ {name}
    /\ UNCHANGED <<m_nextId, eventSize, m_defaultSpecification, paramArrays, valid, declared>>

setValue(name) ==
    /\ valid' = valid \union {name}
    /\ UNCHANGED <<parameters, m_nextId, eventSize, m_defaultSpecification, paramArrays, asMade,
                   overwritten, declared>>
-----------------------------------------------------------------------------
ElementsOf(a) == {paramArrays[a].m_Parameters[k] : k \in DOMAIN paramArrays[a].m_Parameters}

\* DeleteParameters and the loop of CreateParameters: the objects.
CreateParameters(a, base, first, size) ==
    paramArrays' = [paramArrays EXCEPT ![a] = [m_nFirstIndex |-> first,
                                               m_Parameters |-> Elements(base, first, size)]]

\* The SharedData that the elements are made like takes a number itself.
AfterTemplate == m_nextId + 1

(***************************************************************************)
(* The constructors, and the overloads of Initialize, of an array that may *)
(* have elements already.                                                  *)
(***************************************************************************)
InitializeArray(a, base, shape, spec, templateTakesNumber) ==
    /\ InitializeAll(Elements(base, shape.first, shape.size), spec,
                     IF templateTakesNumber THEN AfterTemplate ELSE m_nextId)
    /\ CreateParameters(a, base, shape.first, shape.size)
    /\ declared' = [declared EXCEPT ![a] = [base |-> base, first |-> shape.first,
                                            size |-> shape.size]]
    /\ UNCHANGED <<m_defaultSpecification, valid>>

\* The destructor; parameters stay.
DeleteParameters(a) ==
    /\ paramArrays' = [paramArrays EXCEPT ![a] = NoArray]
    /\ declared' = [declared EXCEPT ![a] = NoDeclaration]
    /\ UNCHANGED <<parameters, m_nextId, eventSize, m_defaultSpecification, valid, asMade,
                   overwritten>>

\* The element with that index; vector::at throws without one.
InRange(a, index) == index - paramArrays[a].m_nFirstIndex + 1 \in DOMAIN paramArrays[a].m_Parameters

At(a, index) == paramArrays[a].m_Parameters[index - paramArrays[a].m_nFirstIndex + 1]

ResetArray(a) ==
    /\ valid' = valid \ ElementsOf(a)
    /\ UNCHANGED <<parameters, m_nextId, eventSize, m_defaultSpecification, paramArrays, asMade,
                   overwritten, declared>>

nextEvent ==
    /\ valid' = {}
    /\ UNCHANGED <<parameters, m_nextId, eventSize, m_defaultSpecification, paramArrays, asMade,
                   overwritten, declared>>
=============================================================================
