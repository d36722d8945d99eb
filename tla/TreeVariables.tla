---------------------------- MODULE TreeVariables ----------------------------
(***************************************************************************)
(* CTreeVariable (base/TreeVariable.cpp): values that steer the user code, *)
(* with units and the flags that they changed, which objects share by      *)
(* name; and CTreeVariableArray (base/TreeVariableArray.cpp).              *)
(***************************************************************************)
EXTENDS ElementNames, Sequences

CONSTANTS VariableNames,   \* that objects are made with, elements or not
          Values, Units,   \* arguments of calls; 0 and NoUnits are among them
          NoUnits,         \* ""
          VariableArrays   \* the CTreeVariableArray objects of user code

VARIABLES m_dictionary,
          variableArrays,  \* the arrays: first index and elements
          seen,            \* history: value and units of each variable when it
                           \* was made or its flags were last reset
          newValues,       \* history: the variables whose value, ...
          newUnits         \* ... or units an initialization has changed since

histories == <<seen, newValues, newUnits>>

Defined(name) == name \in DOMAIN m_dictionary

NoArray == [m_nFirstIndex |-> 0, m_TreeVariables |-> <<>>]

Contents(value, units) == [s_value |-> value, s_units |-> units]

TypeOK ==
    /\ \A n \in DOMAIN m_dictionary : /\ IsName(n)
                                      /\ m_dictionary[n].s_value \in Values
                                      /\ m_dictionary[n].s_units \in Units
                                      /\ m_dictionary[n].s_definitionChanged \in BOOLEAN
                                      /\ m_dictionary[n].s_valueChanged \in BOOLEAN
    /\ DOMAIN seen = DOMAIN m_dictionary
    /\ \A n \in DOMAIN seen : seen[n] \in [s_value : Values, s_units : Units]
    /\ newValues \subseteq DOMAIN m_dictionary /\ newUnits \subseteq DOMAIN m_dictionary
    /\ \A a \in VariableArrays :
          /\ variableArrays[a].m_nFirstIndex \in Int
          /\ variableArrays[a].m_TreeVariables \in Seq(DOMAIN m_dictionary)

Init ==
    /\ m_dictionary = [n \in {} |-> {}]
    /\ variableArrays = [a \in VariableArrays |-> NoArray]
    /\ seen = [n \in {} |-> {}] /\ newValues = {} /\ newUnits = {}
-----------------------------------------------------------------------------
\* createDefinition: no flag is set.
Definition(value, units) ==
    [s_value |-> value, s_units |-> units, s_definitionChanged |-> FALSE, s_valueChanged |-> FALSE]

\* These are made, or initialized again with that: flags stay as they are.
InitializeAll(names, value, units) ==
    /\ m_dictionary' =
          [n \in DOMAIN m_dictionary \union names |->
              IF n \notin names THEN m_dictionary[n]
              ELSE IF Defined(n)
              THEN [m_dictionary[n] EXCEPT !.s_value = value, !.s_units = units]
              ELSE Definition(value, units)]
    /\ seen' = [n \in DOMAIN m_dictionary \union names |->
                   IF Defined(n) THEN seen[n] ELSE Contents(value, units)]
    /\ newValues' = newValues \union
          {n \in DOMAIN m_dictionary : n \in names /\ m_dictionary[n].s_value # value}
    /\ newUnits' = newUnits \union
          {n \in DOMAIN m_dictionary : n \in names /\ m_dictionary[n].s_units # units}

\* Mutant: those that are defined are made anew.
ConstructAnew(names) ==
    /\ m_dictionary' = [n \in DOMAIN m_dictionary \union names |->
                           IF n \in names THEN Definition(0, NoUnits) ELSE m_dictionary[n]]
    /\ seen' = [n \in DOMAIN m_dictionary \union names |->
                   IF Defined(n) THEN seen[n] ELSE Contents(0, NoUnits)]
    /\ UNCHANGED <<newValues, newUnits>>

\* CTreeVariable(name), of each: those that are defined are left alone.
ConstructAll(names) ==
    /\ m_dictionary' = [n \in DOMAIN m_dictionary \union names |->
                           IF Defined(n) THEN m_dictionary[n] ELSE Definition(0, NoUnits)]
    /\ seen' = [n \in DOMAIN m_dictionary \union names |->
                   IF Defined(n) THEN seen[n] ELSE Contents(0, NoUnits)]
    /\ UNCHANGED <<newValues, newUnits>>

Construct(name) == ConstructAll({name}) /\ UNCHANGED variableArrays

\* CTreeVariable(name, units): the value stays.
ConstructWithUnits(name, units) ==
    /\ InitializeAll({name}, IF Defined(name) THEN m_dictionary[name].s_value ELSE 0, units)
    /\ UNCHANGED variableArrays

\* Mutant: what is defined already is not changed.
InitializeNew(name, value, units) ==
    /\ IF Defined(name) THEN UNCHANGED <<m_dictionary, histories>>
       ELSE InitializeAll({name}, value, units)
    /\ UNCHANGED variableArrays

\* The constructors with a value, or with what another variable has.
Initialize(name, value, units) ==
    InitializeAll({name}, value, units) /\ UNCHANGED variableArrays
-----------------------------------------------------------------------------
\* Assignments and the operators that compute end here.
setValue(name, value) ==
    /\ m_dictionary' = [m_dictionary EXCEPT ![name].s_value = value, ![name].s_valueChanged = TRUE]
    /\ UNCHANGED <<variableArrays, histories>>

\* operator=(const CTreeVariable&)
Assign(name, rhs) == setValue(name, m_dictionary[rhs].s_value)

setUnit(name, units) ==
    /\ m_dictionary' = [m_dictionary EXCEPT ![name].s_units = units,
                                            ![name].s_definitionChanged = TRUE]
    /\ UNCHANGED <<variableArrays, histories>>

\* Who resets the flags has seen value and units as they are.
resetChanged(name) ==
    /\ m_dictionary' = [m_dictionary EXCEPT ![name].s_valueChanged = FALSE,
                                            ![name].s_definitionChanged = FALSE]
    /\ seen' = [seen EXCEPT ![name] = Contents(m_dictionary[name].s_value,
                                               m_dictionary[name].s_units)]
    /\ newValues' = newValues \ {name} /\ newUnits' = newUnits \ {name}
    /\ UNCHANGED variableArrays
-----------------------------------------------------------------------------
NamesOf(elements) == {elements[k] : k \in DOMAIN elements}

\* DestroyArray and the loop behind it.
BuildArray(a, base, shape) ==
    variableArrays' = [variableArrays EXCEPT
                          ![a] = [m_nFirstIndex |-> shape.first,
                                  m_TreeVariables |-> Elements(base, shape.first, shape.size)]]

InitializeArray(a, base, shape, value, units) ==
    /\ InitializeAll(NamesOf(Elements(base, shape.first, shape.size)), value, units)
    /\ BuildArray(a, base, shape)

\* The constructor without a value.
ConstructArray(a, base, shape) ==
    /\ ConstructAll(NamesOf(Elements(base, shape.first, shape.size)))
    /\ BuildArray(a, base, shape)

\* The copy has objects of its own, for the same variables.
CopyArray(a, rhs) ==
    /\ variableArrays' = [variableArrays EXCEPT ![a] = variableArrays[rhs]]
    /\ UNCHANGED <<m_dictionary, histories>>

\* Variables stay.
DestroyArray(a) ==
    /\ variableArrays' = [variableArrays EXCEPT ![a] = NoArray]
    /\ UNCHANGED <<m_dictionary, histories>>

SameShape(a, rhs) ==
    /\ Len(variableArrays[a].m_TreeVariables) = Len(variableArrays[rhs].m_TreeVariables)
    /\ variableArrays[a].m_nFirstIndex = variableArrays[rhs].m_nFirstIndex

\* operator=: element by element, or it throws.
AssignArray(a, rhs) ==
    LET left == variableArrays[a].m_TreeVariables
        right == variableArrays[rhs].m_TreeVariables IN
       /\ SameShape(a, rhs)
       /\ m_dictionary' =
             [n \in DOMAIN m_dictionary |->
                 IF \E k \in DOMAIN left : left[k] = n
                 THEN [m_dictionary[n] EXCEPT
                          !.s_value = m_dictionary[right[CHOOSE k \in DOMAIN left :
                                                            left[k] = n]].s_value,
                          !.s_valueChanged = TRUE]
                 ELSE m_dictionary[n]]
       /\ UNCHANGED <<variableArrays, histories>>
-----------------------------------------------------------------------------
(***************************************************************************)
(* A variable whose value, or units, are not what they were when it was    *)
(* made or its flags were reset is flagged, unless an initialization by    *)
(* another object, or another line of the file, changed just that.         *)
(***************************************************************************)
OnlyInitializationsAreSilent ==
    \A n \in DOMAIN m_dictionary :
       /\ m_dictionary[n].s_value # seen[n].s_value =>
             m_dictionary[n].s_valueChanged \/ n \in newValues
       /\ m_dictionary[n].s_units # seen[n].s_units =>
             m_dictionary[n].s_definitionChanged \/ n \in newUnits
=============================================================================
