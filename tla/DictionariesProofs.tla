------------------------- MODULE DictionariesProofs -------------------------
(***************************************************************************)
(* The dictionaries of one process, for any definition files, names,       *)
(* arguments and calls of user code.                                       *)
(***************************************************************************)
EXTENDS Dictionaries, FiniteSetTheorems, TLAPS

-----------------------------------------------------------------------------
(***************************************************************************)
(* Names of elements: each index has its own, and parameters and variables *)
(* have the same ones.                                                     *)
(***************************************************************************)
LEMMA DigitsGrow ==
    ASSUME NEW m, NEW n, \A k \in 0 .. 9 : 10 ^ k <= m => 10 ^ k <= n
    PROVE  Digits(m) \in Nat /\ Digits(n) \in Nat /\ Digits(m) <= Digits(n)
<1>1. PICK S, T : S = {k \in 0 .. 9 : 10 ^ k <= m} /\ T = {k \in 0 .. 9 : 10 ^ k <= n}
  OBVIOUS
<1>2. IsFiniteSet(0 .. 9)
  <2>1. 0 \in Int /\ 9 \in Int
    OBVIOUS
  <2> QED
    BY <2>1, FS_Interval
<1>3. S \subseteq T /\ T \subseteq 0 .. 9
  BY <1>1
<1>4. Cardinality(S) \in Nat /\ Cardinality(T) \in Nat /\ Cardinality(S) <= Cardinality(T)
  BY <1>2, <1>3, FS_Subset, FS_CardinalityType
<1> QED
  BY <1>1, <1>4 DEF Digits

LEMMA WidthIsNat ==
    ASSUME NEW first \in Int, NEW size \in Int
    PROVE  NumDigits(first, size) \in Nat
<1>1. ASSUME NEW n PROVE Digits(n) \in Nat
  BY DigitsGrow
<1> QED
  BY <1>1 DEF NumDigits

\* Though first + size may wrap: the indices below zero are nearer to it than the first is.
LEMMA WidthHoldsIndices ==
    ASSUME NEW first \in Int, NEW size \in Nat, first + size < UintMod,
           NEW index \in first .. first + size - 1
    PROVE  NumDigits(first, size) >= Digits(Abs(index))
<1> DEFINE last == (first + size) % UintMod
<1>1. \A m, n \in Int : m <= n => Digits(m) \in Nat /\ Digits(n) \in Nat /\ Digits(m) <= Digits(n)
  <2>1. \A k \in 0 .. 9 : 10 ^ k \in Int
    OBVIOUS
  <2>2. ASSUME NEW m \in Int, NEW n \in Int, m <= n, NEW k \in 0 .. 9, 10 ^ k <= m
        PROVE  10 ^ k <= n
    BY <2>1, <2>2
  <2> QED
    BY <2>2, DigitsGrow
<1>2. Abs(first) \in Int /\ last \in Int /\ Abs(index) \in Int
  <2>1. UintMod \in Nat \ {0}
    BY NamesAssumption
  <2> QED
    BY <2>1 DEF Abs
<1>3. Abs(index) <= Abs(first) \/ Abs(index) <= last
  <2>1. CASE index < 0
    BY <2>1 DEF Abs
  <2>2. CASE index >= 0
    <3>1. first + size \in 0 .. UintMod - 1
      BY <2>2, NamesAssumption
    <3>2. last = first + size
      BY <3>1, NamesAssumption
    <3> QED
      BY <2>2, <3>2 DEF Abs
  <2> QED
    BY <2>1, <2>2
<1>4. /\ Digits(Abs(first)) \in Nat /\ Digits(last) \in Nat /\ Digits(Abs(index)) \in Nat
      /\ Digits(Abs(index)) <= Digits(Abs(first)) \/ Digits(Abs(index)) <= Digits(last)
  <2> HIDE DEF last
  <2> QED
    BY <1>1, <1>2, <1>3
<1> HIDE DEF last
<1> QED
  BY <1>4 DEF NumDigits, last

LEMMA ElementNames ==
    ASSUME NEW base \in Bases, NEW first \in Int, NEW size \in Nat,
           NEW names, names = Elements(base, first, size)
    PROVE  /\ DOMAIN names = 1 .. size
           /\ \A k \in 1 .. size : IsName(names[k])
           /\ \A j, k \in 1 .. size : names[j] = names[k] => j = k
           /\ \A k \in 1 .. size : names[k] = Element(base, first, size, first + k - 1)
<1>1. DOMAIN names = 1 .. size
  BY DEF Elements
<1>2. \A k \in 1 .. size : names[k] = Element(base, first, size, first + k - 1)
  BY DEF Elements
<1>3. ASSUME NEW k \in 1 .. size PROVE IsName(names[k]) /\ names[k].index = first + k - 1
  <2>1. NumDigits(first, size) \in Nat
    BY WidthIsNat
  <2>2. first + k - 1 \in Int
    OBVIOUS
  <2>3. names[k] = [base |-> base, width |-> NumDigits(first, size), index |-> first + k - 1]
    BY <1>2 DEF Element
  <2> QED
    BY <2>1, <2>2, <2>3 DEF IsName
<1>4. ASSUME NEW j \in 1 .. size, NEW k \in 1 .. size, names[j] = names[k] PROVE j = k
  <2>1. first + j - 1 = first + k - 1
    BY <1>3, <1>4
  <2> QED
    BY <2>1
<1> QED
  BY <1>1, <1>2, <1>3, <1>4

LEMMA NamesOfArray ==
    ASSUME NEW base \in Bases, NEW first \in Int, NEW size \in Nat,
           NEW elements, elements = Elements(base, first, size)
    PROVE  /\ DOMAIN elements = 1 .. size /\ elements = [k \in 1 .. size |-> elements[k]]
           /\ \A k \in DOMAIN elements : IsName(elements[k])
<1>1. DOMAIN elements = 1 .. size /\ \A k \in 1 .. size : IsName(elements[k])
  BY ElementNames
<1>2. elements = [k \in 1 .. size |-> elements[k]]
  BY DEF Elements
<1> QED
  BY <1>1, <1>2

LEMMA SameElements ==
    ASSUME NEW base, NEW first, NEW size
    PROVE  Variables!Elements(base, first, size) = Elements(base, first, size)
<1>1. ASSUME NEW n PROVE Variables!Digits(n) = Digits(n)
  BY Zenon DEF Variables!Digits, Digits, Variables!Cardinality, Cardinality
<1>2. Variables!NumDigits(first, size) = NumDigits(first, size)
  BY <1>1 DEF Variables!NumDigits, NumDigits, Variables!Abs, Abs
<1> QED
  BY <1>2 DEF Variables!Elements, Elements, Variables!Element, Element

\* The names of a list that is made at once.
DifferentNames(names) ==
    \E m \in Nat : /\ DOMAIN names = 1 .. m
                   /\ \A k \in 1 .. m : IsName(names[k])
                   /\ \A j, k \in 1 .. m : names[j] = names[k] => j = k

\* Their set.
MadeOf(names) == {names[k] : k \in DOMAIN names}

LEMMA ElementsAreDifferent ==
    ASSUME NEW base \in Bases, NEW first \in Int, NEW size \in Nat
    PROVE  DifferentNames(Elements(base, first, size))
BY ElementNames DEF DifferentNames

LEMMA OneNameIsDifferent ==
    ASSUME NEW name, IsName(name)
    PROVE  DifferentNames(<<name>>)
<1>1. DOMAIN <<name>> = 1 .. 1 /\ <<name>>[1] = name
  OBVIOUS
<1> QED
  BY <1>1 DEF DifferentNames
-----------------------------------------------------------------------------
(***************************************************************************)
(* Numbers of new names.                                                   *)
(***************************************************************************)
\* There are fewer places below a than in all, or below a place above a.
LEMMA FewerBelow ==
    ASSUME NEW N, IsFiniteSet(N), N \subseteq Nat, NEW a \in N
    PROVE  /\ Cardinality({j \in N : j < a}) \in Nat
           /\ Cardinality({j \in N : j < a}) < Cardinality(N)
           /\ \A b \in N : a < b => Cardinality({j \in N : j < a}) < Cardinality({j \in N : j < b})
<1>1. ASSUME NEW S, NEW T, S \subseteq T, IsFiniteSet(T), a \in T, a \notin S
      PROVE  Cardinality(S) < Cardinality(T) /\ Cardinality(S) \in Nat
  <2>1. /\ IsFiniteSet(S) /\ Cardinality(S) <= Cardinality(T)
        /\ Cardinality(S) = Cardinality(T) => S = T
    BY <1>1, FS_Subset
  <2>2. Cardinality(S) \in Nat /\ Cardinality(T) \in Nat
    BY <1>1, <2>1, FS_CardinalityType
  <2> QED
    BY <1>1, <2>1, <2>2
<1>2. ASSUME NEW b \in N, a < b
      PROVE  Cardinality({j \in N : j < a}) < Cardinality({j \in N : j < b})
  <2>1. \A j \in N : j \in Nat
    OBVIOUS
  <2>2. ASSUME NEW j \in N, j < a PROVE j < b
    <3>1. j \in Nat /\ a \in Nat /\ b \in Nat
      OBVIOUS
    <3> QED
      BY <1>2, <2>2, <3>1
  <2>3. IsFiniteSet({j \in N : j < b})
    BY FS_Subset
  <2>4. {j \in N : j < a} \subseteq {j \in N : j < b} /\ a \in {j \in N : j < b}
    BY <1>2, <2>2
  <2>5. a \notin {j \in N : j < a}
    OBVIOUS
  <2> QED
    BY <1>1, <2>3, <2>4, <2>5
<1>3. {j \in N : j < a} \subseteq N /\ a \notin {j \in N : j < a}
  OBVIOUS
<1> QED
  BY <1>1, <1>2, <1>3

LEMMA NewPlaces ==
    ASSUME NEW names, DifferentNames(names)
    PROVE  /\ New(names) \subseteq DOMAIN names /\ New(names) \subseteq Nat
           /\ IsFiniteSet(New(names)) /\ Cardinality(New(names)) \in Nat
           /\ New(names) # {} => Cardinality(New(names)) > 0
<1>1. PICK m \in Nat : DOMAIN names = 1 .. m
  BY DEF DifferentNames
<1>2. New(names) \subseteq 1 .. m
  BY <1>1 DEF New
<1>3. IsFiniteSet(1 .. m)
  BY FS_Interval
<1>4. IsFiniteSet(New(names)) /\ Cardinality(New(names)) \in Nat
  BY <1>2, <1>3, FS_Subset, FS_CardinalityType
<1>5. Cardinality(New(names)) = 0 => New(names) = {}
  BY <1>4, FS_EmptySet
<1> QED
  BY <1>1, <1>2, <1>4, <1>5

LEMMA OrderOfPlace ==
    ASSUME NEW names, DifferentNames(names), NEW k \in New(names)
    PROVE  OrderOf(names, names[k]) = Cardinality({j \in New(names) : j < k})
<1>1. PICK m \in Nat : /\ DOMAIN names = 1 .. m
                       /\ \A i, j \in 1 .. m : names[i] = names[j] => i = j
  BY DEF DifferentNames
<1>2. New(names) \subseteq 1 .. m
  BY <1>1 DEF New
<1>3. PositionOf(names, names[k]) = k
  BY <1>1, <1>2 DEF PositionOf
<1>4. New(names) \intersect (1 .. k - 1) = {j \in New(names) : j < k}
  BY <1>2
<1> QED
  BY <1>3, <1>4 DEF OrderOf

LEMMA OrdersDiffer ==
    ASSUME NEW names, DifferentNames(names), NEW k \in New(names)
    PROVE  /\ OrderOf(names, names[k]) \in 0 .. Cardinality(New(names)) - 1
           /\ \A l \in New(names) : OrderOf(names, names[k]) = OrderOf(names, names[l]) => k = l
<1> DEFINE N == New(names)
           Below(i) == Cardinality({j \in N : j < i})
<1>1. IsFiniteSet(N) /\ N \subseteq Nat /\ Cardinality(N) \in Nat
  BY NewPlaces
<1>2. ASSUME NEW i \in N
      PROVE  /\ OrderOf(names, names[i]) = Below(i) /\ Below(i) \in Nat /\ Below(i) < Cardinality(N)
             /\ \A j \in N : i < j => Below(i) < Below(j)
  <2>1. OrderOf(names, names[i]) = Below(i)
    BY OrderOfPlace
  <2> HIDE DEF N
  <2> QED
    BY <1>1, <2>1, FewerBelow
<1>3. ASSUME NEW l \in N, Below(k) = Below(l) PROVE k = l
  <2>1. k \in Nat /\ l \in Nat
    BY <1>1
  <2>2. /\ Below(k) \in Nat /\ Below(l) \in Nat
        /\ k < l => Below(k) < Below(l)
        /\ l < k => Below(l) < Below(k)
    BY <1>2
  <2> HIDE DEF Below
  <2> QED
    BY <1>3, <2>1, <2>2
<1> HIDE DEF N, Below
<1>4. ASSUME NEW l \in N, OrderOf(names, names[k]) = OrderOf(names, names[l]) PROVE k = l
  BY <1>2, <1>3, <1>4 DEF N
<1> QED
  BY <1>1, <1>2, <1>4 DEF N
-----------------------------------------------------------------------------
(***************************************************************************)
(* The invariant.  Of the parameters of a process: their numbers, flags    *)
(* and metadata; the defaults; the arrays.                                 *)
(***************************************************************************)
Parameter == [s_parameterNumber : Nat, s_spec : Specification, s_changed : BOOLEAN]

ParametersOK ==
    /\ parameters \in [DOMAIN parameters -> Parameter]
    /\ asMade \in [DOMAIN parameters -> Specification]
    /\ \A n \in DOMAIN parameters : IsName(n)
    /\ m_nextId \in Nat /\ eventSize \in 0 .. m_nextId
    /\ \A n \in DOMAIN parameters : parameters[n].s_parameterNumber < eventSize
    /\ \A m, n \in DOMAIN parameters :
          parameters[m].s_parameterNumber = parameters[n].s_parameterNumber => m = n
    /\ overwritten \subseteq DOMAIN parameters
    /\ \A n \in DOMAIN parameters :
          parameters[n].s_spec # asMade[n] => parameters[n].s_changed \/ n \in overwritten

DefaultsOK == m_defaultSpecification \in Specification /\ valid \subseteq DOMAIN parameters

ArrayOK(a) ==
    LET d == declared[a]
        names == paramArrays[a].m_Parameters IN
       /\ d.first \in Int /\ d.size \in Nat /\ d.first + d.size < UintMod
       /\ paramArrays[a].m_nFirstIndex = d.first
       /\ names \in Seq(DOMAIN parameters) /\ Len(names) = d.size
       /\ \A k \in 1 .. d.size : names[k] = Element(d.base, d.first, d.size, d.first + k - 1)

ArraysOK ==
    /\ DOMAIN paramArrays = ParameterArrays /\ DOMAIN declared = ParameterArrays
    /\ \A a \in ParameterArrays : ArrayOK(a)

(***************************************************************************)
(* Of its variables and their arrays:                                      *)
(***************************************************************************)
Variable ==
    [s_value : Values, s_units : Units, s_definitionChanged : BOOLEAN, s_valueChanged : BOOLEAN]

VariablesOK ==
    /\ m_dictionary \in [DOMAIN m_dictionary -> Variable]
    /\ seen \in [DOMAIN m_dictionary -> [s_value : Values, s_units : Units]]
    /\ newValues \subseteq DOMAIN m_dictionary /\ newUnits \subseteq DOMAIN m_dictionary
    /\ \A n \in DOMAIN m_dictionary : IsName(n)
    /\ Variables!OnlyInitializationsAreSilent

VariableArraysOK ==
    /\ DOMAIN variableArrays = VariableArrays
    /\ \A a \in VariableArrays :
          /\ variableArrays[a].m_nFirstIndex \in Int
          /\ variableArrays[a].m_TreeVariables \in Seq(DOMAIN m_dictionary)

(***************************************************************************)
(* Until user code begins, everything is as the lines read so far have it. *)
(***************************************************************************)
ParameterCommands == {"treeparameter", "treeparameterarray"}

VariableCommands == {"treevariable", "treevariablearray"}

LastUpTo(l, k, name, whats) ==
    /\ k \in 1 .. l
    /\ definitionFile[k].what \in whats /\ name \in NamesOfCommand(definitionFile[k])
    /\ \A j \in k + 1 .. l :
          definitionFile[j].what \in whats => name \notin NamesOfCommand(definitionFile[j])

ParametersAsRead ==
    \A n \in DOMAIN parameters :
       /\ ~ parameters[n].s_changed
       /\ \E k \in 1 .. line : /\ LastUpTo(line, k, n, ParameterCommands)
                              /\ parameters[n].s_spec = definitionFile[k].spec

VariablesAsRead ==
    \A n \in DOMAIN m_dictionary :
       \E k \in 1 .. line :
          /\ LastUpTo(line, k, n, VariableCommands)
          /\ m_dictionary[n] = Variables!Definition(definitionFile[k].value,
                                                    definitionFile[k].units)

AllRead ==
    \A k \in 1 .. line :
       /\ definitionFile[k].what \in ParameterCommands =>
             NamesOfCommand(definitionFile[k]) \subseteq DOMAIN parameters
       /\ definitionFile[k].what \notin ParameterCommands =>
             /\ definitionFile[k].what \in VariableCommands
             /\ NamesOfCommand(definitionFile[k]) \subseteq DOMAIN m_dictionary

FileOK ==
    /\ definitionFile \in DefinitionFiles /\ line \in 0 .. Len(definitionFile)
    /\ pc \in {"read", "user", "thrown"} /\ calls \in 0 .. MaxCalls
    /\ pc = "read" => calls = 0
    /\ pc = "user" => line = Len(definitionFile)

DictionariesInv ==
    /\ ParametersOK /\ DefaultsOK /\ ArraysOK
    /\ VariablesOK /\ VariableArraysOK
    /\ FileOK
    /\ pc # "thrown" /\ calls = 0 => ParametersAsRead /\ VariablesAsRead /\ AllRead
-----------------------------------------------------------------------------
(***************************************************************************)
(* It implies what the run checks.                                         *)
(***************************************************************************)
LEMMA InvTypes == DictionariesInv => TypeOK
<1> SUFFICES ASSUME DictionariesInv PROVE TypeOK
  OBVIOUS
<1>1. ParamTypeOK
  <2>1. ASSUME NEW n \in DOMAIN parameters
        PROVE  /\ IsName(n) /\ parameters[n].s_parameterNumber \in 0 .. m_nextId - 1
               /\ parameters[n].s_spec \in Specification /\ parameters[n].s_changed \in BOOLEAN
    <3>1. /\ parameters[n] \in Parameter /\ IsName(n)
          /\ parameters[n].s_parameterNumber < eventSize
          /\ m_nextId \in Nat /\ eventSize \in 0 .. m_nextId
      BY DEF DictionariesInv, ParametersOK
    <3> QED
      BY <3>1 DEF Parameter
  <2>2. /\ m_nextId \in Nat /\ eventSize \in 0 .. m_nextId
        /\ DOMAIN asMade = DOMAIN parameters /\ \A n \in DOMAIN asMade : asMade[n] \in Specification
        /\ overwritten \subseteq DOMAIN parameters
    BY DEF DictionariesInv, ParametersOK
  <2>3. m_defaultSpecification \in Specification /\ valid \subseteq DOMAIN parameters
    BY DEF DictionariesInv, DefaultsOK
  <2>4. ASSUME NEW a \in ParameterArrays
        PROVE  /\ paramArrays[a].m_nFirstIndex \in Int
               /\ paramArrays[a].m_Parameters \in Seq(DOMAIN parameters)
               /\ declared[a].first \in Int /\ declared[a].size \in Nat
    BY DEF DictionariesInv, ArraysOK, ArrayOK
  <2> QED
    BY <2>1, <2>2, <2>3, <2>4 DEF ParamTypeOK
<1>2. Variables!TypeOK
  <2>1. ASSUME NEW n \in DOMAIN m_dictionary
        PROVE  /\ Variables!IsName(n) /\ m_dictionary[n].s_value \in Values
               /\ m_dictionary[n].s_units \in Units
               /\ m_dictionary[n].s_definitionChanged \in BOOLEAN
               /\ m_dictionary[n].s_valueChanged \in BOOLEAN
    <3>1. m_dictionary[n] \in Variable /\ IsName(n)
      BY DEF DictionariesInv, VariablesOK
    <3> QED
      BY <3>1 DEF Variable, IsName, Variables!IsName
  <2>2. /\ DOMAIN seen = DOMAIN m_dictionary
        /\ \A n \in DOMAIN seen : seen[n] \in [s_value : Values, s_units : Units]
        /\ newValues \subseteq DOMAIN m_dictionary /\ newUnits \subseteq DOMAIN m_dictionary
    BY DEF DictionariesInv, VariablesOK
  <2>3. \A a \in VariableArrays :
           /\ variableArrays[a].m_nFirstIndex \in Int
           /\ variableArrays[a].m_TreeVariables \in Seq(DOMAIN m_dictionary)
    BY DEF DictionariesInv, VariableArraysOK
  <2> QED
    BY <2>1, <2>2, <2>3 DEF Variables!TypeOK
<1> QED
  BY <1>1, <1>2 DEF DictionariesInv, FileOK, TypeOK

LEMMA InvArrays == DictionariesInv => ArraysAsDeclared
<1> SUFFICES ASSUME DictionariesInv PROVE ArraysAsDeclared
  OBVIOUS
<1>1. ASSUME NEW a \in ParameterArrays, NEW index \in Int
      PROVE  LET d == declared[a]
                 Declared == d.first .. d.first + d.size - 1 IN
                /\ InRange(a, index) <=> index \in Declared
                /\ index \in Declared =>
                      /\ Known(At(a, index))
                      /\ At(a, index).base = d.base /\ At(a, index).index = index
                      /\ At(a, index).width = NumDigits(d.first, d.size)
                      /\ NumDigits(d.first, d.size) >= Digits(Abs(index))
  <2> DEFINE d == declared[a]
             names == paramArrays[a].m_Parameters
             k == index - d.first + 1
  <2>1. /\ d.first \in Int /\ d.size \in Nat /\ d.first + d.size < UintMod
        /\ paramArrays[a].m_nFirstIndex = d.first
        /\ names \in Seq(DOMAIN parameters) /\ Len(names) = d.size
        /\ \A j \in 1 .. d.size : names[j] = Element(d.base, d.first, d.size, d.first + j - 1)
    BY DEF DictionariesInv, ArraysOK, ArrayOK
  <2> HIDE DEF d, names
  <2>2. InRange(a, index) <=> k \in 1 .. d.size
    BY <2>1 DEF InRange, d, names
  <2>3. k \in Int /\ d.first + k - 1 = index
    BY <2>1
  <2>4. k \in 1 .. d.size <=> index \in d.first .. d.first + d.size - 1
    BY <2>1, <2>3
  <2>5. At(a, index) = names[k]
    BY <2>1 DEF At, d, names
  <2>6. ASSUME k \in 1 .. d.size
        PROVE  /\ Known(names[k]) /\ names[k].base = d.base /\ names[k].index = index
               /\ names[k].width = NumDigits(d.first, d.size)
    <3>1. names[k] \in DOMAIN parameters
      BY <2>1, <2>6
    <3>2. names[k] = Element(d.base, d.first, d.size, index)
      BY <2>1, <2>3, <2>6
    <3> QED
      BY <3>1, <3>2 DEF Known, Element
  <2>7. index \in d.first .. d.first + d.size - 1 =>
           NumDigits(d.first, d.size) >= Digits(Abs(index))
    BY <2>1, WidthHoldsIndices
  <2> HIDE DEF k
  <2> QED
    BY <2>2, <2>4, <2>5, <2>6, <2>7 DEF d
<1>2. ASSUME NEW a \in ParameterArrays,
             NEW index \in declared[a].first - 1 .. declared[a].first + declared[a].size
      PROVE  index \in Int
  BY DEF DictionariesInv, ArraysOK, ArrayOK
<1>3. ASSUME NEW a \in ParameterArrays,
             NEW index \in declared[a].first .. declared[a].first + declared[a].size - 1
      PROVE  index \in Int
  BY DEF DictionariesInv, ArraysOK, ArrayOK
<1> HIDE DEF DictionariesInv
<1>4. \A m, n \in DOMAIN parameters :
         /\ parameters[n].s_parameterNumber < eventSize
         /\ parameters[m].s_parameterNumber = parameters[n].s_parameterNumber => m = n
  BY DEF DictionariesInv, ParametersOK
<1> QED
  BY <1>1, <1>2, <1>3, <1>4 DEF ArraysAsDeclared

LEMMA InvSilent == DictionariesInv => OnlyInitializationsAreSilent
BY DEF DictionariesInv, ParametersOK, VariablesOK, OnlyInitializationsAreSilent

LEMMA InvAsInFile == DictionariesInv => DefinedAsInFile
<1> SUFFICES ASSUME DictionariesInv, pc = "user", calls = 0 PROVE DefinedAsInFile
  BY DEF DefinedAsInFile
<1>1. ParametersAsRead /\ VariablesAsRead /\ AllRead
  BY DEF DictionariesInv
<1>2. line = Len(definitionFile) /\ DOMAIN definitionFile = 1 .. line
  BY DictionariesAssumption DEF DictionariesInv, FileOK
<1>3. ASSUME NEW k, NEW n, NEW whats, LastUpTo(line, k, n, whats)
      PROVE  LastCommand(k, n, whats)
  BY <1>2, <1>3 DEF LastUpTo, LastCommand
<1>4. ASSUME NEW n \in DOMAIN parameters
      PROVE  \E k \in DOMAIN definitionFile :
                /\ LastCommand(k, n, {"treeparameter", "treeparameterarray"})
                /\ parameters[n].s_spec = definitionFile[k].spec /\ ~ parameters[n].s_changed
  BY <1>1, <1>2, <1>3 DEF ParametersAsRead, ParameterCommands
<1>5. ASSUME NEW n \in DOMAIN m_dictionary
      PROVE  \E k \in DOMAIN definitionFile :
                /\ LastCommand(k, n, {"treevariable", "treevariablearray"})
                /\ m_dictionary[n] = Variables!Definition(definitionFile[k].value,
                                                          definitionFile[k].units)
  BY <1>1, <1>2, <1>3 DEF VariablesAsRead, VariableCommands
<1>6. \A k \in DOMAIN definitionFile :
         LET names == NamesOfCommand(definitionFile[k]) IN
            IF definitionFile[k].what \in {"treeparameter", "treeparameterarray"}
            THEN names \subseteq DOMAIN parameters ELSE names \subseteq DOMAIN m_dictionary
  BY <1>1, <1>2 DEF AllRead, ParameterCommands
<1> QED
  BY <1>4, <1>5, <1>6 DEF DefinedAsInFile
-----------------------------------------------------------------------------
(***************************************************************************)
(* Parameters.  Initialize, of any list of names: the new ones get numbers *)
(* of their own, the others keep theirs, and all get the metadata.         *)
(***************************************************************************)
LEMMA InitializeAllKeeps ==
    ASSUME ParametersOK, NEW names, DifferentNames(names), NEW spec \in Specification,
           NEW next \in {m_nextId, AfterTemplate}, InitializeAll(names, spec, next)
    PROVE  /\ ParametersOK'
           /\ DOMAIN parameters' = DOMAIN parameters \union MadeOf(names)
           /\ \A n \in MadeOf(names) :
                 /\ parameters'[n].s_spec = spec
                 /\ parameters'[n].s_changed => n \in DOMAIN parameters /\ parameters[n].s_changed
           /\ \A n \in DOMAIN parameters : n \notin MadeOf(names) => parameters'[n] = parameters[n]
<1> DEFINE Made == {names[k] : k \in DOMAIN names}
           N == New(names)
<1>1. /\ N \subseteq DOMAIN names /\ IsFiniteSet(N) /\ Cardinality(N) \in Nat
      /\ N # {} => Cardinality(N) > 0
  BY NewPlaces
<1>2. \A n \in Made : IsName(n)
  BY DEF DifferentNames
<1>3. /\ m_nextId \in Nat /\ eventSize \in 0 .. m_nextId /\ next \in Nat /\ m_nextId <= next
      /\ m_nextId' = next + Cardinality(N)
      /\ eventSize' = IF N = {} THEN eventSize ELSE next + Cardinality(N)
  BY DEF ParametersOK, InitializeAll, AfterTemplate
<1>4. /\ m_nextId' \in Nat /\ eventSize' \in 0 .. m_nextId' /\ eventSize <= eventSize'
      /\ N # {} => eventSize' = next + Cardinality(N)
  <2> HIDE DEF N
  <2> QED
    BY <1>1, <1>3
<1>5. parameters' = [n \in DOMAIN parameters \union Made |->
                        IF n \notin Made THEN parameters[n]
                        ELSE IF n \in DOMAIN parameters THEN [parameters[n] EXCEPT !.s_spec = spec]
                        ELSE [s_parameterNumber |-> next + OrderOf(names, n), s_spec |-> spec,
                              s_changed |-> FALSE]]
  BY DEF InitializeAll, Known
<1>6. /\ asMade' = [n \in DOMAIN parameters \union Made |->
                        IF n \in DOMAIN parameters THEN asMade[n] ELSE spec]
      /\ overwritten' = overwritten \union
            {n \in DOMAIN parameters : n \in Made /\ parameters[n].s_spec # spec}
  BY DEF InitializeAll, Known
<1>7. DOMAIN parameters' = DOMAIN parameters \union Made
  BY <1>5
<1>8. ASSUME NEW n \in DOMAIN parameters
      PROVE  /\ parameters'[n] \in Parameter
             /\ parameters'[n].s_parameterNumber = parameters[n].s_parameterNumber
             /\ parameters'[n].s_parameterNumber \in Nat
             /\ parameters'[n].s_parameterNumber < eventSize
             /\ parameters'[n].s_changed = parameters[n].s_changed
             /\ n \notin Made => parameters'[n] = parameters[n]
             /\ n \in Made => parameters'[n].s_spec = spec
  <2>1. parameters[n] \in Parameter /\ parameters[n].s_parameterNumber < eventSize
    BY DEF ParametersOK
  <2>2. parameters'[n] = IF n \notin Made THEN parameters[n]
                         ELSE [parameters[n] EXCEPT !.s_spec = spec]
    BY <1>5
  <2> HIDE DEF Made
  <2> QED
    BY <2>1, <2>2 DEF Parameter
<1>9. ASSUME NEW n \in Made, n \notin DOMAIN parameters
      PROVE  /\ \E k \in N : n = names[k]
             /\ OrderOf(names, n) \in 0 .. Cardinality(N) - 1
             /\ parameters'[n] = [s_parameterNumber |-> next + OrderOf(names, n), s_spec |-> spec,
                                  s_changed |-> FALSE]
  <2>1. PICK k \in N : n = names[k]
    BY <1>9 DEF New, Known
  <2>2. OrderOf(names, names[k]) \in 0 .. Cardinality(N) - 1
    BY OrdersDiffer
  <2>3. parameters'[n] = [s_parameterNumber |-> next + OrderOf(names, n), s_spec |-> spec,
                          s_changed |-> FALSE]
    BY <1>5, <1>9
  <2> QED
    BY <2>1, <2>2, <2>3
<1>10. ASSUME NEW n \in Made, n \notin DOMAIN parameters
       PROVE  /\ parameters'[n] \in Parameter
              /\ parameters'[n].s_parameterNumber = next + OrderOf(names, n)
              /\ m_nextId <= parameters'[n].s_parameterNumber
              /\ parameters'[n].s_parameterNumber < eventSize'
              /\ ~ parameters'[n].s_changed /\ parameters'[n].s_spec = spec
  <2>1. PICK o : o = OrderOf(names, n)
    OBVIOUS
  <2>2. /\ o \in 0 .. Cardinality(N) - 1 /\ N # {}
        /\ parameters'[n] = [s_parameterNumber |-> next + o, s_spec |-> spec, s_changed |-> FALSE]
    BY <1>9, <1>10, <2>1
  <2> HIDE DEF N, Made
  <2>3. next + o \in Nat /\ m_nextId <= next + o /\ next + o < eventSize'
    BY <1>1, <1>3, <1>4, <2>2
  <2> QED
    BY <2>1, <2>2, <2>3 DEF Parameter
<1>11. ASSUME NEW m \in DOMAIN parameters', NEW n \in DOMAIN parameters',
              parameters'[m].s_parameterNumber = parameters'[n].s_parameterNumber
       PROVE  m = n
  <2>1. CASE m \in DOMAIN parameters /\ n \in DOMAIN parameters
    BY <1>8, <1>11, <2>1 DEF ParametersOK
  <2>2. CASE m \notin DOMAIN parameters /\ n \notin DOMAIN parameters
    <3>1. m \in Made /\ n \in Made
      BY <1>7, <2>2
    <3>2. PICK i \in N, j \in N : m = names[i] /\ n = names[j]
      BY <1>9, <2>2, <3>1
    <3>3. OrderOf(names, m) \in Nat /\ OrderOf(names, n) \in Nat
      <4>1. \A o \in 0 .. Cardinality(N) - 1 : o \in Nat
        OBVIOUS
      <4> QED
        BY <1>9, <2>2, <3>1, <4>1
    <3>4. next + OrderOf(names, m) = next + OrderOf(names, n)
      BY <1>10, <1>11, <2>2, <3>1
    <3>5. OrderOf(names, m) = OrderOf(names, n)
      BY <1>3, <3>3, <3>4
    <3> QED
      BY <3>2, <3>5, OrdersDiffer
  <2>3. ASSUME NEW a \in DOMAIN parameters, NEW b \in DOMAIN parameters', b \notin DOMAIN parameters
        PROVE  parameters'[a].s_parameterNumber # parameters'[b].s_parameterNumber
    <3>1. b \in Made
      BY <1>7, <2>3
    <3>2. m_nextId <= parameters'[b].s_parameterNumber /\ parameters'[b] \in Parameter
      BY <1>10, <2>3, <3>1
    <3>3. parameters'[a].s_parameterNumber < eventSize /\ parameters'[a].s_parameterNumber \in Nat
      BY <1>8
    <3>4. parameters'[b].s_parameterNumber \in Nat
      BY <3>2 DEF Parameter
    <3> QED
      BY <1>3, <3>2, <3>3, <3>4
  <2> QED
    BY <1>11, <2>1, <2>2, <2>3
<1>12. ASSUME NEW n \in DOMAIN parameters'
       PROVE  /\ parameters'[n] \in Parameter /\ IsName(n)
              /\ parameters'[n].s_parameterNumber < eventSize'
              /\ asMade'[n] \in Specification
              /\ parameters'[n].s_spec # asMade'[n] =>
                    parameters'[n].s_changed \/ n \in overwritten'
  <2>1. CASE n \in DOMAIN parameters
    <3>1. /\ asMade'[n] = asMade[n] /\ asMade[n] \in Specification /\ IsName(n)
          /\ parameters[n].s_spec # asMade[n] => parameters[n].s_changed \/ n \in overwritten
          /\ n \in overwritten => n \in overwritten'
          /\ n \in Made /\ parameters[n].s_spec # spec => n \in overwritten'
      BY <1>6, <2>1 DEF ParametersOK
    <3>2. parameters'[n].s_parameterNumber < eventSize'
      BY <1>3, <1>4, <1>8, <2>1
    <3> HIDE DEF Made
    <3> QED
      BY <1>8, <2>1, <3>1, <3>2
  <2>2. CASE n \notin DOMAIN parameters
    <3>1. n \in Made
      BY <1>7, <2>2
    <3> QED
      BY <1>2, <1>6, <1>10, <2>2, <3>1
  <2> QED
    BY <2>1, <2>2
<1>13. ParametersOK'
  <2>1. parameters' \in [DOMAIN parameters' -> Parameter]
    BY <1>5, <1>7, <1>12
  <2>2. asMade' \in [DOMAIN parameters' -> Specification]
    BY <1>6, <1>7, <1>12
  <2>3. overwritten' \subseteq DOMAIN parameters'
    BY <1>6, <1>7 DEF ParametersOK
  <2> QED
    BY <1>4, <1>11, <1>12, <2>1, <2>2, <2>3 DEF ParametersOK
<1>14. \A n \in Made :
          /\ parameters'[n].s_spec = spec
          /\ parameters'[n].s_changed => n \in DOMAIN parameters /\ parameters[n].s_changed
  BY <1>8, <1>10
<1> QED
  BY <1>7, <1>8, <1>13, <1>14 DEF MadeOf

\* Steps that change one parameter and not its number.
LEMMA ChangeKeeps ==
    ASSUME ParametersOK, NEW name \in DOMAIN parameters, NEW p \in Parameter,
           p.s_parameterNumber = parameters[name].s_parameterNumber,
           parameters' = [parameters EXCEPT ![name] = p],
           UNCHANGED <<m_nextId, eventSize>>,
           \/ UNCHANGED <<asMade, overwritten>> /\ p.s_changed
           \/ /\ asMade' = [asMade EXCEPT ![name] = p.s_spec]
              /\ overwritten' = overwritten \ {name}
    PROVE  ParametersOK' /\ DOMAIN parameters' = DOMAIN parameters
<1>1. /\ DOMAIN parameters' = DOMAIN parameters /\ DOMAIN asMade' = DOMAIN parameters
      /\ parameters' \in [DOMAIN parameters -> Parameter]
  BY DEF ParametersOK
<1>2. \A n \in DOMAIN parameters :
         parameters'[n].s_parameterNumber = parameters[n].s_parameterNumber
  BY DEF ParametersOK
<1>3. asMade' \in [DOMAIN parameters -> Specification]
  <2>1. p.s_spec \in Specification
    BY DEF Parameter
  <2> QED
    BY <2>1 DEF ParametersOK
<1>4. ASSUME NEW n \in DOMAIN parameters, parameters'[n].s_spec # asMade'[n]
      PROVE  parameters'[n].s_changed \/ n \in overwritten'
  BY <1>1, <1>4 DEF ParametersOK
<1> QED
  BY <1>1, <1>2, <1>3, <1>4 DEF ParametersOK

(***************************************************************************)
(* The metadata that user code can give a parameter.                       *)
(***************************************************************************)
LEMMA SpecificationsOfCalls ==
    ASSUME ParametersOK, DefaultsOK
    PROVE  Numbered \union Copied \union LikeAnother \subseteq Specification
<1>1. ASSUME NEW r \in Resolutions PROVE WithResolution(r) \in Specification
  <2>1. 2 ^ r \in Nat
    BY ParametersAssumption
  <2>2. m_defaultSpecification \in Specification
    BY DEF DefaultsOK
  <2>3. ASSUME NEW chans \in Nat, NEW low \in Int, NEW high \in Int
        PROVE  [m_defaultSpecification EXCEPT !.s_low = low, !.s_high = high, !.s_chans = chans]
                 \in Specification
    BY <2>2 DEF Specification
  <2>4. PICK low \in Int, high \in Int : low = 0 /\ high = 2 ^ r
    BY <2>1
  <2>5. [m_defaultSpecification EXCEPT !.s_low = low, !.s_high = high, !.s_chans = 2 ^ r]
          \in Specification
    BY <2>1, <2>3
  <2> QED
    BY <2>4, <2>5, Zenon DEF WithResolution
<1>2. ASSUME NEW low \in Limits, NEW high \in Limits, NEW u \in Units, NEW c \in Bins
      PROVE  FullySpecified(c, low, high, u) \in Specification
  BY ParametersAssumption DEF FullySpecified, Specification
<1>3. ASSUME NEW low \in Limits, NEW high \in Limits, NEW u \in Units
      PROVE  WithLimits(low, high, u) \in Specification
  BY ParametersAssumption DEF WithLimits, DefaultsOK, Specification
<1>4. ByDefault \in Specification /\ \A u \in Units : WithUnits(u) \in Specification
  BY DEF ByDefault, WithUnits, DefaultsOK, Specification
<1>5. LikeAnother \subseteq Specification
  BY DEF LikeAnother, ParametersOK, Parameter
<1> QED
  BY <1>1, <1>2, <1>3, <1>4, <1>5 DEF Numbered, Copied

LEMMA BinsOfWidthAreNat ==
    ASSUME NEW spec \in Specification, NEW width \in Int \ {0},
           NEW bins \in BinsOfWidth(spec, width)
    PROVE  bins \in Nat
<1> DEFINE range == spec.s_high - spec.s_low
<1>1. range \in Int
  BY DEF Specification
<1>2. \A n \in Int : Abs(n) \in Nat /\ (n # 0 => Abs(n) > 0)
  BY DEF Abs
<1>3. \A n \in Nat, d \in Nat : d > 0 => n \div d \in Nat
  OBVIOUS
<1>4. \/ bins = 0 \/ bins \in Bins
      \/ bins = Abs(range) \div Abs(width)
  BY DEF BinsOfWidth
<1> HIDE DEF range
<1> QED
  BY <1>1, <1>2, <1>3, <1>4, ParametersAssumption

(***************************************************************************)
(* An array that is not declared has no elements.                          *)
(***************************************************************************)
LEMMA NoArrayIsEmpty ==
    /\ NoDeclaration.first \in Int /\ NoDeclaration.size \in Nat
    /\ NoDeclaration.first + NoDeclaration.size < UintMod
    /\ NoArray.m_nFirstIndex = NoDeclaration.first
    /\ \A S : NoArray.m_Parameters \in Seq(S)
    /\ Len(NoArray.m_Parameters) = NoDeclaration.size
    /\ \A k : k \notin 1 .. NoDeclaration.size
<1>1. PICK none : none = ""
  OBVIOUS
<1>2. PICK z \in Nat : z = 0
  OBVIOUS
<1>3. PICK array, declaration : array = NoArray /\ declaration = NoDeclaration
  OBVIOUS
<1>4. /\ array = [m_nFirstIndex |-> z, m_Parameters |-> <<>>]
      /\ declaration = [base |-> none, first |-> z, size |-> z]
  BY <1>1, <1>2, <1>3, Zenon DEF NoArray, NoDeclaration
<1>5. /\ array.m_nFirstIndex = z /\ array.m_Parameters = <<>>
      /\ declaration.first = z /\ declaration.size = z
  BY <1>4
<1>6. /\ (\A S : <<>> \in Seq(S)) /\ Len(<<>>) = z /\ \A k : k \notin 1 .. z
      /\ z + z < UintMod
  BY <1>2, NamesAssumption
<1> QED
  BY <1>3, <1>5, <1>6

(***************************************************************************)
(* Arrays stay what they are while only parameters are added.              *)
(***************************************************************************)
LEMMA SameArrays ==
    ASSUME ArraysOK, UNCHANGED <<paramArrays, declared>>,
           DOMAIN parameters \subseteq DOMAIN parameters'
    PROVE  ArraysOK'
<1>1. \A s \in Seq(DOMAIN parameters) : s \in Seq(DOMAIN parameters')
  OBVIOUS
<1>2. ASSUME NEW a \in ParameterArrays PROVE ArrayOK(a)'
  <2>1. ArrayOK(a)
    BY DEF ArraysOK
  <2> QED
    BY <1>1, <2>1 DEF ArrayOK
<1> QED
  BY <1>2 DEF ArraysOK

\* What parameters, defaults and arrays have to be, together.
ParamPart == ParametersOK /\ DefaultsOK /\ ArraysOK

LEMMA InitializeKeeps ==
    ASSUME ParamPart, NEW name, IsName(name), NEW spec \in Specification, Initialize(name, spec)
    PROVE  /\ ParamPart' /\ DOMAIN parameters' = DOMAIN parameters \union {name}
           /\ parameters'[name].s_spec = spec
           /\ parameters'[name].s_changed =>
                 name \in DOMAIN parameters /\ parameters[name].s_changed
           /\ \A n \in DOMAIN parameters : n # name => parameters'[n] = parameters[n]
<1>1. /\ InitializeAll(<<name>>, spec, m_nextId)
      /\ UNCHANGED <<m_defaultSpecification, paramArrays, valid, declared>>
  BY DEF Initialize
<1>2. /\ ParametersOK' /\ DOMAIN parameters' = DOMAIN parameters \union MadeOf(<<name>>)
      /\ \A n \in MadeOf(<<name>>) :
            /\ parameters'[n].s_spec = spec
            /\ parameters'[n].s_changed => n \in DOMAIN parameters /\ parameters[n].s_changed
      /\ \A n \in DOMAIN parameters : n \notin MadeOf(<<name>>) => parameters'[n] = parameters[n]
  <2>1. ParametersOK /\ DifferentNames(<<name>>)
    BY OneNameIsDifferent DEF ParamPart
  <2> QED
    BY <1>1, <2>1, InitializeAllKeeps
<1>3. MadeOf(<<name>>) = {name}
  BY DEF MadeOf
<1>4. DefaultsOK' /\ ArraysOK'
  BY <1>1, <1>2, SameArrays DEF ParamPart, DefaultsOK
<1> QED
  BY <1>2, <1>3, <1>4 DEF ParamPart

LEMMA SetKeeps ==
    ASSUME ParamPart, NEW name \in DOMAIN parameters, Set(name)
    PROVE  ParamPart'
<1> DEFINE old == parameters[name].s_spec
<1>1. old \in Specification /\ parameters[name] \in Parameter
  BY DEF ParamPart, ParametersOK, Parameter
<1>2. PICK spec \in Specification : Sets(name, spec)
  <2> SUFFICES \E spec \in Specification : Sets(name, spec)
    OBVIOUS
  <2>1. ASSUME NEW n \in Nat PROVE [old EXCEPT !.s_chans = n] \in Specification
    BY <1>1 DEF Specification
  <2>2. ASSUME NEW n \in Int
        PROVE  /\ [old EXCEPT !.s_low = n] \in Specification
               /\ [old EXCEPT !.s_high = n] \in Specification
    BY <1>1 DEF Specification
  <2>3. ASSUME NEW u \in Units PROVE [old EXCEPT !.s_units = u] \in Specification
    BY <1>1 DEF Specification
  <2> HIDE DEF old
  <2>4. CASE \E bins \in Bins : setBins(name, bins)
    BY <2>1, <2>4, ParametersAssumption DEF setBins, old
  <2>5. CASE \E limit \in Limits : setStart(name, limit) \/ setStop(name, limit)
    BY <2>2, <2>5, ParametersAssumption DEF setStart, setStop, old
  <2>6. CASE \E units \in Units : setUnit(name, units)
    BY <2>3, <2>6 DEF setUnit, old
  <2>7. CASE \E width \in Widths : setInc(name, width)
    <3>1. PICK width \in Widths : setInc(name, width)
      BY <2>7
    <3>2. PICK bins \in BinsOfWidth(old, width) : Sets(name, [old EXCEPT !.s_chans = bins])
      BY <3>1 DEF setInc, old
    <3>3. bins \in Nat
      BY <1>1, BinsOfWidthAreNat, ParametersAssumption
    <3> QED
      BY <2>1, <3>2, <3>3
  <2> QED
    BY <2>4, <2>5, <2>6, <2>7 DEF Set
<1>3. PICK p : p = [parameters[name] EXCEPT !.s_spec = spec, !.s_changed = TRUE]
  OBVIOUS
<1>4. p \in Parameter /\ p.s_parameterNumber = parameters[name].s_parameterNumber /\ p.s_changed
  BY <1>1, <1>3 DEF Parameter
<1>5. /\ parameters' = [parameters EXCEPT ![name] = p]
      /\ UNCHANGED <<m_nextId, eventSize, m_defaultSpecification, paramArrays, valid, asMade,
                     overwritten, declared>>
  BY <1>2, <1>3 DEF Sets
<1>6. ParametersOK' /\ DOMAIN parameters' = DOMAIN parameters
  BY <1>4, <1>5, ChangeKeeps DEF ParamPart
<1> QED
  BY <1>5, <1>6, SameArrays DEF ParamPart, DefaultsOK

LEMMA FlagKeeps ==
    ASSUME ParamPart, NEW name \in DOMAIN parameters, setChanged(name) \/ resetChanged(name)
    PROVE  ParamPart'
<1>1. parameters[name] \in Parameter
  BY DEF ParamPart, ParametersOK
<1>2. PICK flag \in BOOLEAN : /\ parameters' = [parameters EXCEPT ![name].s_changed = flag]
                              /\ flag => UNCHANGED <<asMade, overwritten>>
                              /\ ~ flag =>
                                    /\ asMade' = [asMade EXCEPT ![name] = parameters[name].s_spec]
                                    /\ overwritten' = overwritten \ {name}
  BY DEF setChanged, resetChanged
<1>3. PICK p : p = [parameters[name] EXCEPT !.s_changed = flag]
  OBVIOUS
<1>4. /\ p \in Parameter /\ p.s_parameterNumber = parameters[name].s_parameterNumber
      /\ p.s_changed = flag /\ p.s_spec = parameters[name].s_spec
  BY <1>1, <1>3 DEF Parameter
<1>5. parameters' = [parameters EXCEPT ![name] = p]
  BY <1>2, <1>3
<1>6. UNCHANGED <<m_nextId, eventSize, m_defaultSpecification, paramArrays, valid, declared>>
  BY DEF setChanged, resetChanged
<1>7. ParametersOK' /\ DOMAIN parameters' = DOMAIN parameters
  <2>1. \/ UNCHANGED <<asMade, overwritten>> /\ p.s_changed
        \/ /\ asMade' = [asMade EXCEPT ![name] = p.s_spec]
           /\ overwritten' = overwritten \ {name}
    BY <1>2, <1>4
  <2> QED
    BY <1>4, <1>5, <1>6, <2>1, ChangeKeeps DEF ParamPart
<1> QED
  BY <1>6, <1>7, SameArrays DEF ParamPart, DefaultsOK

\* Steps that leave the parameters alone, but for their values.
LEMMA OtherKeeps ==
    ASSUME ParamPart, UNCHANGED <<parameters, m_nextId, eventSize, asMade, overwritten, paramArrays,
                                  declared>>,
           m_defaultSpecification' \in Specification, valid' \subseteq DOMAIN parameters
    PROVE  ParamPart'
<1>1. ParametersOK'
  BY DEF ParamPart, ParametersOK
<1> QED
  BY <1>1, SameArrays DEF ParamPart, DefaultsOK

LEMMA SetDefaultsKeeps ==
    ASSUME ParamPart, SetDefaults
    PROVE  ParamPart'
<1>1. PICK spec \in Specification : SetsDefaults(spec)
  <2> SUFFICES \E spec \in Specification : SetsDefaults(spec)
    OBVIOUS
  <2> DEFINE old == m_defaultSpecification
  <2>1. old \in Specification
    BY DEF ParamPart, DefaultsOK
  <2>2. ASSUME NEW low \in Limits, NEW high \in Limits
        PROVE  [old EXCEPT !.s_low = low, !.s_high = high] \in Specification
    BY <2>1, ParametersAssumption DEF Specification
  <2>3. ASSUME NEW bins \in Bins PROVE [old EXCEPT !.s_chans = bins] \in Specification
    BY <2>1, ParametersAssumption DEF Specification
  <2>4. ASSUME NEW units \in Units PROVE [old EXCEPT !.s_units = units] \in Specification
    BY <2>1 DEF Specification
  <2> HIDE DEF old
  <2> QED
    BY <2>2, <2>3, <2>4 DEF SetDefaults, setDefaultLimits, setDefaultBins, setDefaultUnits, old
<1> QED
  BY <1>1, OtherKeeps DEF SetsDefaults, ParamPart, DefaultsOK

LEMMA ValuesKeep ==
    ASSUME ParamPart,
           \/ \E name \in DOMAIN parameters : setValue(name)
           \/ nextEvent
           \/ \E a \in ParameterArrays : ResetArray(a)
    PROVE  ParamPart'
BY OtherKeeps DEF setValue, nextEvent, ResetArray, ParamPart, DefaultsOK

LEMMA InitializeArrayKeeps ==
    ASSUME ParamPart, NEW a \in ParameterArrays, NEW base \in Bases, NEW shape \in ArrayShapes,
           NEW spec \in Specification, NEW takes \in BOOLEAN,
           InitializeArray(a, base, shape, spec, takes)
    PROVE  ParamPart'
<1>1. shape.first \in Int /\ shape.size \in Nat /\ shape.first + shape.size < UintMod
  BY ParametersAssumption
<1>2. PICK names : names = Elements(base, shape.first, shape.size)
  OBVIOUS
<1>3. /\ DifferentNames(names) /\ DOMAIN names = 1 .. shape.size
      /\ \A k \in 1 .. shape.size :
            names[k] = Element(base, shape.first, shape.size, shape.first + k - 1)
  BY <1>1, <1>2, ElementNames, ElementsAreDifferent
<1>4. PICK next \in {m_nextId, AfterTemplate} : InitializeAll(names, spec, next)
  BY <1>2 DEF InitializeArray
<1>5. ParametersOK' /\ DOMAIN parameters' = DOMAIN parameters \union MadeOf(names)
  <2>1. ParametersOK
    BY DEF ParamPart
  <2> QED
    <3>1. DifferentNames(names) /\ InitializeAll(names, spec, next)
      BY <1>3, <1>4
    <3> QED
      BY <2>1, <3>1, InitializeAllKeeps
<1>6. names \in Seq(DOMAIN parameters') /\ Len(names) = shape.size
  <2>1. names = [k \in 1 .. shape.size |-> names[k]]
    BY <1>2 DEF Elements
  <2>2. names \in [1 .. shape.size -> DOMAIN parameters']
    BY <1>3, <1>5, <2>1 DEF MadeOf
  <2> QED
    BY <1>1, <2>2
<1>7. /\ paramArrays' = [paramArrays EXCEPT ![a] = [m_nFirstIndex |-> shape.first,
                                                     m_Parameters |-> names]]
      /\ declared' = [declared EXCEPT ![a] = [base |-> base, first |-> shape.first,
                                              size |-> shape.size]]
      /\ UNCHANGED <<m_defaultSpecification, valid>>
  BY <1>2 DEF InitializeArray, CreateParameters
<1>8. DOMAIN paramArrays = ParameterArrays /\ DOMAIN declared = ParameterArrays
  BY DEF ParamPart, ArraysOK
<1>9. ASSUME NEW b \in ParameterArrays PROVE ArrayOK(b)'
  <2>1. CASE b = a
    <3>1. /\ paramArrays'[b] = [m_nFirstIndex |-> shape.first, m_Parameters |-> names]
          /\ declared'[b] = [base |-> base, first |-> shape.first, size |-> shape.size]
      BY <1>7, <1>8, <2>1
    <3> QED
      BY <1>1, <1>3, <1>6, <3>1 DEF ArrayOK
  <2>2. CASE b # a
    <3>1. paramArrays'[b] = paramArrays[b] /\ declared'[b] = declared[b]
      BY <1>7, <1>8, <2>2
    <3>2. ArrayOK(b)
      BY DEF ParamPart, ArraysOK
    <3>3. \A s \in Seq(DOMAIN parameters) : s \in Seq(DOMAIN parameters')
      BY <1>5
    <3> QED
      BY <3>1, <3>2, <3>3 DEF ArrayOK
  <2> QED
    BY <2>1, <2>2
<1>10. ArraysOK'
  BY <1>7, <1>8, <1>9 DEF ArraysOK
<1> QED
  BY <1>5, <1>7, <1>10 DEF ParamPart, DefaultsOK

LEMMA DeleteParametersKeeps ==
    ASSUME ParamPart, NEW a \in ParameterArrays, DeleteParameters(a)
    PROVE  ParamPart'
<1>1. /\ UNCHANGED <<parameters, m_nextId, eventSize, m_defaultSpecification, valid, asMade,
                     overwritten>>
      /\ paramArrays' = [paramArrays EXCEPT ![a] = NoArray]
      /\ declared' = [declared EXCEPT ![a] = NoDeclaration]
  BY DEF DeleteParameters
<1>2. DOMAIN paramArrays = ParameterArrays /\ DOMAIN declared = ParameterArrays
  BY DEF ParamPart, ArraysOK
<1>3. ASSUME NEW b \in ParameterArrays PROVE ArrayOK(b)'
  <2>1. CASE b = a
    <3>1. paramArrays'[b] = NoArray /\ declared'[b] = NoDeclaration
      BY <1>1, <1>2, <2>1
    <3> QED
      BY <3>1, NoArrayIsEmpty DEF ArrayOK
  <2>2. CASE b # a
    <3>1. paramArrays'[b] = paramArrays[b] /\ declared'[b] = declared[b] /\ ArrayOK(b)
      BY <1>1, <1>2, <2>2 DEF ParamPart, ArraysOK
    <3> QED
      BY <1>1, <3>1 DEF ArrayOK
  <2> QED
    BY <2>1, <2>2
<1> QED
  BY <1>1, <1>2, <1>3 DEF ParamPart, ParametersOK, DefaultsOK, ArraysOK

LEMMA UserParametersKeep ==
    ASSUME ParamPart, UseParameters \/ UseParameterArrays
    PROVE  ParamPart'
<1>1. Numbered \union Copied \union LikeAnother \subseteq Specification
  BY SpecificationsOfCalls DEF ParamPart
<1>2. CASE UseParameters
  <2>1. ASSUME NEW name \in ParameterNames, NEW spec \in Numbered \union Copied \union LikeAnother,
               Initialize(name, spec)
        PROVE  ParamPart'
    BY <1>1, <2>1, InitializeKeeps, ParametersAssumption
  <2>2. ASSUME NEW name \in DOMAIN parameters,
               Set(name) \/ setChanged(name) \/ resetChanged(name) \/ setValue(name)
        PROVE  ParamPart'
    BY <2>2, SetKeeps, FlagKeeps, ValuesKeep
  <2> QED
    BY <1>2, <2>1, <2>2, SetDefaultsKeeps, ValuesKeep DEF UseParameters
<1>3. CASE UseParameterArrays
  <2>1. PICK a \in ParameterArrays :
           \/ \E base \in Bases, shape \in ArrayShapes :
                 \/ \E spec \in Numbered : InitializeArray(a, base, shape, spec, TRUE)
                 \/ \E spec \in Copied : InitializeArray(a, base, shape, spec, FALSE)
           \/ DeleteParameters(a)
           \/ ResetArray(a)
    BY <1>3 DEF UseParameterArrays
  <2>2. ASSUME NEW base \in Bases, NEW shape \in ArrayShapes, NEW spec \in Numbered \union Copied,
               NEW takes \in BOOLEAN, InitializeArray(a, base, shape, spec, takes)
        PROVE  ParamPart'
    BY <1>1, <2>2, InitializeArrayKeeps
  <2> QED
    BY <2>1, <2>2, DeleteParametersKeeps, ValuesKeep
<1> QED
  BY <1>2, <1>3
-----------------------------------------------------------------------------
(***************************************************************************)
(* Variables.                                                              *)
(***************************************************************************)
LEMMA VariablesInitialized ==
    ASSUME VariablesOK, NEW names, \A n \in names : IsName(n),
           NEW value \in Values, NEW units \in Units, Variables!InitializeAll(names, value, units)
    PROVE  /\ VariablesOK'
           /\ DOMAIN m_dictionary' = DOMAIN m_dictionary \union names
           /\ \A n \in names : m_dictionary'[n] =
                 IF n \in DOMAIN m_dictionary
                 THEN [m_dictionary[n] EXCEPT !.s_value = value, !.s_units = units]
                 ELSE Variables!Definition(value, units)
           /\ \A n \in DOMAIN m_dictionary : n \notin names => m_dictionary'[n] = m_dictionary[n]
<1>1. /\ m_dictionary' =
            [n \in DOMAIN m_dictionary \union names |->
                IF n \notin names THEN m_dictionary[n]
                ELSE IF n \in DOMAIN m_dictionary
                THEN [m_dictionary[n] EXCEPT !.s_value = value, !.s_units = units]
                ELSE Variables!Definition(value, units)]
      /\ seen' = [n \in DOMAIN m_dictionary \union names |->
                     IF n \in DOMAIN m_dictionary THEN seen[n]
                     ELSE Variables!Contents(value, units)]
      /\ newValues' = newValues \union
            {n \in DOMAIN m_dictionary : n \in names /\ m_dictionary[n].s_value # value}
      /\ newUnits' = newUnits \union
            {n \in DOMAIN m_dictionary : n \in names /\ m_dictionary[n].s_units # units}
  BY DEF Variables!InitializeAll, Variables!Defined
<1>2. /\ Variables!Definition(value, units) \in Variable
      /\ Variables!Definition(value, units).s_value = value
      /\ Variables!Definition(value, units).s_units = units
  BY DEF Variables!Definition, Variable
<1>3. /\ Variables!Contents(value, units) \in [s_value : Values, s_units : Units]
      /\ Variables!Contents(value, units).s_value = value
      /\ Variables!Contents(value, units).s_units = units
  BY DEF Variables!Contents
<1>4. ASSUME NEW n \in DOMAIN m_dictionary,
             NEW v, v = [m_dictionary[n] EXCEPT !.s_value = value, !.s_units = units]
      PROVE  /\ v \in Variable /\ v.s_value = value /\ v.s_units = units
             /\ v.s_valueChanged = m_dictionary[n].s_valueChanged
             /\ v.s_definitionChanged = m_dictionary[n].s_definitionChanged
  <2>1. m_dictionary[n] \in Variable
    BY DEF VariablesOK
  <2> QED
    BY <1>4, <2>1 DEF Variable
<1>5. /\ DOMAIN m_dictionary' = DOMAIN m_dictionary \union names
      /\ DOMAIN seen' = DOMAIN m_dictionary \union names
  BY <1>1
<1>6. ASSUME NEW n \in names
      PROVE  /\ m_dictionary'[n] \in Variable
             /\ m_dictionary'[n].s_value = value /\ m_dictionary'[n].s_units = units
             /\ seen'[n] = IF n \in DOMAIN m_dictionary THEN seen[n]
                           ELSE Variables!Contents(value, units)
             /\ m_dictionary'[n] = IF n \in DOMAIN m_dictionary
                  THEN [m_dictionary[n] EXCEPT !.s_value = value, !.s_units = units]
                  ELSE Variables!Definition(value, units)
  <2>1. /\ m_dictionary'[n] = IF n \in DOMAIN m_dictionary
             THEN [m_dictionary[n] EXCEPT !.s_value = value, !.s_units = units]
             ELSE Variables!Definition(value, units)
        /\ seen'[n] = IF n \in DOMAIN m_dictionary THEN seen[n]
                      ELSE Variables!Contents(value, units)
    BY <1>1
  <2> QED
    BY <1>2, <1>4, <2>1
<1>7. ASSUME NEW n \in DOMAIN m_dictionary, n \notin names
      PROVE  m_dictionary'[n] = m_dictionary[n] /\ seen'[n] = seen[n]
  BY <1>1, <1>7
<1>8. VariablesOK'
  <2>1. m_dictionary' \in [DOMAIN m_dictionary' -> Variable]
    <3>1. \A n \in DOMAIN m_dictionary' : m_dictionary'[n] \in Variable
      BY <1>5, <1>6, <1>7 DEF VariablesOK
    <3> QED
      BY <1>1, <1>5, <3>1
  <2>2. seen' \in [DOMAIN m_dictionary' -> [s_value : Values, s_units : Units]]
    <3>1. \A n \in DOMAIN m_dictionary' : seen'[n] \in [s_value : Values, s_units : Units]
      BY <1>3, <1>5, <1>6, <1>7 DEF VariablesOK
    <3> QED
      BY <1>1, <1>5, <3>1
  <2>3. \A n \in DOMAIN m_dictionary' : IsName(n)
    BY <1>5 DEF VariablesOK
  <2>4. Variables!OnlyInitializationsAreSilent'
    <3>1. ASSUME NEW n \in DOMAIN m_dictionary'
          PROVE  /\ m_dictionary'[n].s_value # seen'[n].s_value =>
                       m_dictionary'[n].s_valueChanged \/ n \in newValues'
                 /\ m_dictionary'[n].s_units # seen'[n].s_units =>
                       m_dictionary'[n].s_definitionChanged \/ n \in newUnits'
      <4>1. CASE n \notin DOMAIN m_dictionary
        <5>1. n \in names
          BY <1>5, <4>1
        <5> QED
          BY <1>3, <1>6, <4>1, <5>1
      <4>2. CASE n \in DOMAIN m_dictionary
        <5>1. /\ m_dictionary[n].s_value # seen[n].s_value =>
                    m_dictionary[n].s_valueChanged \/ n \in newValues
              /\ m_dictionary[n].s_units # seen[n].s_units =>
                    m_dictionary[n].s_definitionChanged \/ n \in newUnits
          BY <4>2 DEF VariablesOK, Variables!OnlyInitializationsAreSilent
        <5>2. /\ n \in newValues => n \in newValues'
              /\ n \in newUnits => n \in newUnits'
              /\ n \in names /\ m_dictionary[n].s_value # value => n \in newValues'
              /\ n \in names /\ m_dictionary[n].s_units # units => n \in newUnits'
              /\ seen'[n] = seen[n]
          BY <1>1, <4>2
        <5>3. CASE n \in names
          <6>1. /\ m_dictionary'[n].s_valueChanged = m_dictionary[n].s_valueChanged
                /\ m_dictionary'[n].s_definitionChanged = m_dictionary[n].s_definitionChanged
            BY <1>4, <1>6, <4>2, <5>3
          <6>2. m_dictionary'[n].s_value = value /\ m_dictionary'[n].s_units = units
            BY <1>6, <5>3
          <6> QED
            BY <5>1, <5>2, <5>3, <6>1, <6>2
        <5>4. CASE n \notin names
          <6>1. m_dictionary'[n] = m_dictionary[n]
            BY <1>7, <4>2, <5>4
          <6> QED
            BY <5>1, <5>2, <6>1
        <5> QED
          BY <5>3, <5>4
      <4> QED
        BY <4>1, <4>2
    <3> QED
      BY <3>1 DEF Variables!OnlyInitializationsAreSilent
  <2>5. newValues' \subseteq DOMAIN m_dictionary' /\ newUnits' \subseteq DOMAIN m_dictionary'
    BY <1>1, <1>5 DEF VariablesOK
  <2> QED
    BY <2>1, <2>2, <2>3, <2>4, <2>5 DEF VariablesOK
<1> QED
  BY <1>5, <1>6, <1>7, <1>8

LEMMA VariablesConstructed ==
    ASSUME VariablesOK, NEW names, \A n \in names : IsName(n), Variables!ConstructAll(names)
    PROVE  VariablesOK' /\ DOMAIN m_dictionary' = DOMAIN m_dictionary \union names
<1>1. /\ m_dictionary' = [n \in DOMAIN m_dictionary \union names |->
                             IF n \in DOMAIN m_dictionary THEN m_dictionary[n]
                             ELSE Variables!Definition(0, NoUnits)]
      /\ seen' = [n \in DOMAIN m_dictionary \union names |->
                     IF n \in DOMAIN m_dictionary THEN seen[n] ELSE Variables!Contents(0, NoUnits)]
      /\ UNCHANGED <<newValues, newUnits>>
  BY DEF Variables!ConstructAll, Variables!Defined
<1>2. ASSUME NEW value \in Values, NEW units \in Units
      PROVE  /\ Variables!Definition(value, units) \in Variable
             /\ Variables!Definition(value, units).s_value
                   = Variables!Contents(value, units).s_value
             /\ Variables!Definition(value, units).s_units
                   = Variables!Contents(value, units).s_units
             /\ Variables!Contents(value, units) \in [s_value : Values, s_units : Units]
  BY DEF Variables!Definition, Variables!Contents, Variable
<1>3. 0 \in Values /\ NoUnits \in Units
  BY DictionariesAssumption
<1>4. PICK def, contents : /\ def = Variables!Definition(0, NoUnits)
                           /\ contents = Variables!Contents(0, NoUnits)
  OBVIOUS
<1>5. /\ def \in Variable /\ contents \in [s_value : Values, s_units : Units]
      /\ def.s_value = contents.s_value /\ def.s_units = contents.s_units
  BY <1>2, <1>3, <1>4
<1>6. /\ m_dictionary' = [n \in DOMAIN m_dictionary \union names |->
                             IF n \in DOMAIN m_dictionary THEN m_dictionary[n] ELSE def]
      /\ seen' = [n \in DOMAIN m_dictionary \union names |->
                     IF n \in DOMAIN m_dictionary THEN seen[n] ELSE contents]
      /\ UNCHANGED <<newValues, newUnits>>
  BY <1>1, <1>4
<1> QED
  BY <1>5, <1>6 DEF VariablesOK, Variables!OnlyInitializationsAreSilent

\* Arrays stay what they are while only variables are added.
LEMMA SameVariableArrays ==
    ASSUME VariableArraysOK, UNCHANGED variableArrays,
           DOMAIN m_dictionary \subseteq DOMAIN m_dictionary'
    PROVE  VariableArraysOK'
<1>1. \A s \in Seq(DOMAIN m_dictionary) : s \in Seq(DOMAIN m_dictionary')
  OBVIOUS
<1> QED
  BY <1>1 DEF VariableArraysOK

VariablePart == VariablesOK /\ VariableArraysOK

LEMMA VariablesMadeKeep ==
    ASSUME VariablePart, NEW name, IsName(name),
           \/ Variables!Construct(name)
           \/ \E units \in Units : Variables!ConstructWithUnits(name, units)
           \/ \E value \in Values, units \in Units : Variables!Initialize(name, value, units)
    PROVE  VariablePart'
<1>1. \A n \in {name} : IsName(n)
  OBVIOUS
<1>2. CASE Variables!Construct(name)
  BY <1>1, <1>2, VariablesConstructed, SameVariableArrays DEF Variables!Construct, VariablePart
<1>3. ASSUME NEW value \in Values, NEW units \in Units,
             Variables!InitializeAll({name}, value, units), UNCHANGED variableArrays
      PROVE  VariablePart'
  <2>1. VariablesOK' /\ DOMAIN m_dictionary' = DOMAIN m_dictionary \union {name}
    BY <1>1, <1>3, VariablesInitialized DEF VariablePart
  <2> QED
    BY <1>3, <2>1, SameVariableArrays DEF VariablePart
<1>4. ASSUME NEW units \in Units, Variables!ConstructWithUnits(name, units)
      PROVE  VariablePart'
  <2>1. (IF name \in DOMAIN m_dictionary THEN m_dictionary[name].s_value ELSE 0) \in Values
    BY DictionariesAssumption DEF VariablePart, VariablesOK, Variable
  <2> QED
    BY <1>3, <1>4, <2>1 DEF Variables!ConstructWithUnits, Variables!Defined
<1> QED
  BY <1>2, <1>3, <1>4 DEF Variables!Initialize

\* Steps that change one variable.
LEMMA VariableChanged ==
    ASSUME VariablePart, NEW name \in DOMAIN m_dictionary, NEW v \in Variable,
           m_dictionary' = [m_dictionary EXCEPT ![name] = v], UNCHANGED variableArrays,
           \/ /\ UNCHANGED <<seen, newValues, newUnits>>
              /\ ~ v.s_valueChanged => /\ v.s_value = m_dictionary[name].s_value
                                       /\ ~ m_dictionary[name].s_valueChanged
              /\ ~ v.s_definitionChanged => /\ v.s_units = m_dictionary[name].s_units
                                            /\ ~ m_dictionary[name].s_definitionChanged
           \/ /\ seen' = [seen EXCEPT ![name] = Variables!Contents(v.s_value, v.s_units)]
              /\ newValues' = newValues \ {name} /\ newUnits' = newUnits \ {name}
    PROVE  VariablePart'
<1>1. /\ DOMAIN m_dictionary' = DOMAIN m_dictionary /\ m_dictionary'[name] = v
      /\ \A n \in DOMAIN m_dictionary : n # name => m_dictionary'[n] = m_dictionary[n]
      /\ m_dictionary' \in [DOMAIN m_dictionary -> Variable]
  BY DEF VariablePart, VariablesOK
<1>2. /\ Variables!Contents(v.s_value, v.s_units) \in [s_value : Values, s_units : Units]
      /\ Variables!Contents(v.s_value, v.s_units).s_value = v.s_value
      /\ Variables!Contents(v.s_value, v.s_units).s_units = v.s_units
  BY DEF Variables!Contents, Variable
<1>3. /\ seen' \in [DOMAIN m_dictionary -> [s_value : Values, s_units : Units]]
      /\ \A n \in DOMAIN m_dictionary : n # name => seen'[n] = seen[n]
  BY <1>2 DEF VariablePart, VariablesOK
<1>4. /\ v.s_value # seen'[name].s_value => v.s_valueChanged \/ name \in newValues'
      /\ v.s_units # seen'[name].s_units => v.s_definitionChanged \/ name \in newUnits'
  BY <1>2 DEF VariablePart, VariablesOK, Variables!OnlyInitializationsAreSilent
<1>5. VariablesOK'
  BY <1>1, <1>3, <1>4 DEF VariablePart, VariablesOK, Variables!OnlyInitializationsAreSilent
<1> QED
  BY <1>1, <1>5, SameVariableArrays DEF VariablePart

LEMMA VariableStepsKeep ==
    ASSUME VariablePart, NEW name \in DOMAIN m_dictionary,
           \/ \E value \in Values : Variables!setValue(name, value)
           \/ \E rhs \in DOMAIN m_dictionary : Variables!Assign(name, rhs)
           \/ \E units \in Units : Variables!setUnit(name, units)
           \/ Variables!resetChanged(name)
    PROVE  VariablePart'
<1>1. m_dictionary[name] \in Variable
  BY DEF VariablePart, VariablesOK
<1>2. ASSUME NEW value \in Values, Variables!setValue(name, value) PROVE VariablePart'
  <2>1. PICK v : v = [m_dictionary[name] EXCEPT !.s_value = value, !.s_valueChanged = TRUE]
    OBVIOUS
  <2>2. /\ v \in Variable /\ v.s_valueChanged /\ v.s_units = m_dictionary[name].s_units
        /\ v.s_definitionChanged = m_dictionary[name].s_definitionChanged
    BY <1>1, <2>1 DEF Variable
  <2>3. /\ m_dictionary' = [m_dictionary EXCEPT ![name] = v]
        /\ UNCHANGED <<variableArrays, seen, newValues, newUnits>>
    BY <1>2, <2>1 DEF Variables!setValue, Variables!histories
  <2>4. /\ ~ v.s_valueChanged => /\ v.s_value = m_dictionary[name].s_value
                                 /\ ~ m_dictionary[name].s_valueChanged
        /\ ~ v.s_definitionChanged => /\ v.s_units = m_dictionary[name].s_units
                                      /\ ~ m_dictionary[name].s_definitionChanged
    BY <2>2
  <2> QED
    BY <2>2, <2>3, <2>4, VariableChanged
<1>3. ASSUME NEW rhs \in DOMAIN m_dictionary, Variables!Assign(name, rhs) PROVE VariablePart'
  <2>1. m_dictionary[rhs].s_value \in Values
    BY DEF VariablePart, VariablesOK, Variable
  <2> QED
    BY <1>2, <1>3, <2>1 DEF Variables!Assign
<1>4. ASSUME NEW units \in Units, Variables!setUnit(name, units) PROVE VariablePart'
  <2>1. PICK v : v = [m_dictionary[name] EXCEPT !.s_units = units, !.s_definitionChanged = TRUE]
    OBVIOUS
  <2>2. /\ v \in Variable /\ v.s_definitionChanged /\ v.s_value = m_dictionary[name].s_value
        /\ v.s_valueChanged = m_dictionary[name].s_valueChanged
    BY <1>1, <2>1 DEF Variable
  <2>3. /\ m_dictionary' = [m_dictionary EXCEPT ![name] = v]
        /\ UNCHANGED <<variableArrays, seen, newValues, newUnits>>
    BY <1>4, <2>1 DEF Variables!setUnit, Variables!histories
  <2>4. /\ ~ v.s_valueChanged => /\ v.s_value = m_dictionary[name].s_value
                                 /\ ~ m_dictionary[name].s_valueChanged
        /\ ~ v.s_definitionChanged => /\ v.s_units = m_dictionary[name].s_units
                                      /\ ~ m_dictionary[name].s_definitionChanged
    BY <2>2
  <2> QED
    BY <2>2, <2>3, <2>4, VariableChanged
<1>5. ASSUME Variables!resetChanged(name) PROVE VariablePart'
  <2>1. PICK v : v = [m_dictionary[name] EXCEPT !.s_valueChanged = FALSE,
                                                !.s_definitionChanged = FALSE]
    OBVIOUS
  <2>2. /\ v \in Variable
        /\ v.s_value = m_dictionary[name].s_value /\ v.s_units = m_dictionary[name].s_units
    BY <1>1, <2>1 DEF Variable
  <2>3. /\ m_dictionary' = [m_dictionary EXCEPT ![name] = v]
        /\ seen' = [seen EXCEPT ![name] = Variables!Contents(v.s_value, v.s_units)]
        /\ newValues' = newValues \ {name} /\ newUnits' = newUnits \ {name}
        /\ UNCHANGED variableArrays
    BY <1>5, <2>1, <2>2 DEF Variables!resetChanged
  <2> QED
    BY <2>2, <2>3, VariableChanged
<1> QED
  BY <1>2, <1>3, <1>4, <1>5

\* An array gets objects for variables that there are.
LEMMA VariableArrayBuilt ==
    ASSUME VariableArraysOK, NEW a \in VariableArrays, NEW array,
           DOMAIN m_dictionary \subseteq DOMAIN m_dictionary',
           variableArrays' = [variableArrays EXCEPT ![a] = array],
           array.m_nFirstIndex \in Int, array.m_TreeVariables \in Seq(DOMAIN m_dictionary')
    PROVE  VariableArraysOK'
<1>1. \A s \in Seq(DOMAIN m_dictionary) : s \in Seq(DOMAIN m_dictionary')
  OBVIOUS
<1>2. ASSUME NEW b \in VariableArrays
      PROVE  /\ variableArrays'[b].m_nFirstIndex \in Int
             /\ variableArrays'[b].m_TreeVariables \in Seq(DOMAIN m_dictionary')
  <2>1. variableArrays'[b] = IF b = a THEN array ELSE variableArrays[b]
    BY DEF VariableArraysOK
  <2> QED
    BY <1>1, <2>1 DEF VariableArraysOK
<1> QED
  BY <1>2 DEF VariableArraysOK

LEMMA VariableArraysMadeKeep ==
    ASSUME VariablePart, NEW a \in VariableArrays, NEW base \in Bases, NEW shape \in ArrayShapes,
           \/ Variables!ConstructArray(a, base, shape)
           \/ \E value \in Values, units \in Units :
                 Variables!InitializeArray(a, base, shape, value, units)
    PROVE  VariablePart'
<1>1. shape.first \in Int /\ shape.size \in Nat
  BY ParametersAssumption
<1>2. PICK elements : elements = Elements(base, shape.first, shape.size)
  OBVIOUS
<1>3. PICK names : names = {elements[k] : k \in DOMAIN elements}
  OBVIOUS
<1>4. /\ DOMAIN elements = 1 .. shape.size /\ elements = [k \in 1 .. shape.size |-> elements[k]]
      /\ \A n \in names : IsName(n)
  <2>1. PICK first \in Int, size \in Nat : first = shape.first /\ size = shape.size
    BY <1>1
  <2>2. elements = Elements(base, first, size)
    BY <1>2, <2>1
  <2>3. /\ DOMAIN elements = 1 .. size /\ elements = [k \in 1 .. size |-> elements[k]]
        /\ \A k \in DOMAIN elements : IsName(elements[k])
    BY <2>2, NamesOfArray
  <2> QED
    BY <1>3, <2>1, <2>3
<1>5. Variables!Elements(base, shape.first, shape.size) = elements
  BY <1>2, SameElements
<1>6. /\ \/ Variables!ConstructAll(names)
         \/ \E value \in Values, units \in Units : Variables!InitializeAll(names, value, units)
      /\ variableArrays' = [variableArrays EXCEPT ![a] = [m_nFirstIndex |-> shape.first,
                                                           m_TreeVariables |-> elements]]
  BY <1>3, <1>5 DEF Variables!ConstructArray, Variables!InitializeArray, Variables!BuildArray,
                    Variables!NamesOf
<1>7. VariablesOK' /\ DOMAIN m_dictionary' = DOMAIN m_dictionary \union names
  BY <1>4, <1>6, VariablesConstructed, VariablesInitialized DEF VariablePart
<1>8. elements \in Seq(DOMAIN m_dictionary')
  <2>1. elements \in [1 .. shape.size -> DOMAIN m_dictionary']
    BY <1>3, <1>4, <1>7
  <2> QED
    BY <1>1, <2>1
<1>9. VariableArraysOK'
  <2>1. PICK array : array = [m_nFirstIndex |-> shape.first, m_TreeVariables |-> elements]
    OBVIOUS
  <2>2. array.m_nFirstIndex \in Int /\ array.m_TreeVariables \in Seq(DOMAIN m_dictionary')
    BY <1>1, <1>8, <2>1
  <2>3. variableArrays' = [variableArrays EXCEPT ![a] = array]
    BY <1>6, <2>1
  <2> QED
    BY <1>7, <2>2, <2>3, VariableArrayBuilt DEF VariablePart
<1> QED
  BY <1>7, <1>9 DEF VariablePart

LEMMA VariableArraysKeep ==
    ASSUME VariablePart, NEW a \in VariableArrays,
           \/ Variables!DestroyArray(a)
           \/ \E rhs \in VariableArrays : Variables!CopyArray(a, rhs)
    PROVE  VariablePart'
<1>1. UNCHANGED <<m_dictionary, seen, newValues, newUnits>>
  BY DEF Variables!DestroyArray, Variables!CopyArray, Variables!histories
<1>2. VariablesOK'
  BY <1>1 DEF VariablePart, VariablesOK, Variables!OnlyInitializationsAreSilent
<1>3. CASE Variables!DestroyArray(a)
  <2>1. PICK array : array = Variables!NoArray
    OBVIOUS
  <2>2. array.m_nFirstIndex \in Int /\ array.m_TreeVariables = <<>>
    BY <2>1 DEF Variables!NoArray
  <2>3. array.m_TreeVariables \in Seq(DOMAIN m_dictionary')
    BY <2>2
  <2> QED
    BY <1>1, <1>2, <1>3, <2>1, <2>2, <2>3, VariableArrayBuilt
       DEF Variables!DestroyArray, VariablePart
<1>4. ASSUME NEW rhs \in VariableArrays, Variables!CopyArray(a, rhs) PROVE VariablePart'
  <2>1. /\ variableArrays[rhs].m_nFirstIndex \in Int
        /\ variableArrays[rhs].m_TreeVariables \in Seq(DOMAIN m_dictionary')
    BY <1>1 DEF VariablePart, VariableArraysOK
  <2> QED
    BY <1>1, <1>2, <1>4, <2>1, VariableArrayBuilt DEF Variables!CopyArray, VariablePart
<1> QED
  BY <1>3, <1>4

LEMMA AssignArrayKeeps ==
    ASSUME VariablePart, NEW a \in VariableArrays, NEW rhs \in VariableArrays,
           Variables!AssignArray(a, rhs)
    PROVE  VariablePart'
<1>1. PICK left, right : /\ left = variableArrays[a].m_TreeVariables
                         /\ right = variableArrays[rhs].m_TreeVariables
  OBVIOUS
<1>2. left \in Seq(DOMAIN m_dictionary) /\ right \in Seq(DOMAIN m_dictionary)
  BY <1>1 DEF VariablePart, VariableArraysOK
<1>3. Len(left) = Len(right) /\ UNCHANGED <<variableArrays, seen, newValues, newUnits>>
  BY <1>1 DEF Variables!AssignArray, Variables!SameShape, Variables!histories
<1>4. DOMAIN m_dictionary' = DOMAIN m_dictionary
  BY DEF Variables!AssignArray
<1>5. ASSUME NEW n \in DOMAIN m_dictionary
      PROVE  /\ m_dictionary'[n] \in Variable
             /\ m_dictionary'[n].s_units = m_dictionary[n].s_units
             /\ m_dictionary'[n].s_definitionChanged = m_dictionary[n].s_definitionChanged
             /\ ~ m_dictionary'[n].s_valueChanged => m_dictionary'[n] = m_dictionary[n]
  <2>1. m_dictionary[n] \in Variable
    BY DEF VariablePart, VariablesOK
  <2>2. CASE \E k \in DOMAIN left : left[k] = n
    <3>1. PICK k : k = CHOOSE j \in DOMAIN left : left[j] = n
      OBVIOUS
    <3>2. k \in DOMAIN left
      BY <2>2, <3>1
    <3>3. right[k] \in DOMAIN m_dictionary
      BY <1>2, <1>3, <3>2
    <3>4. m_dictionary[right[k]].s_value \in Values
      BY <3>3 DEF VariablePart, VariablesOK, Variable
    <3>5. m_dictionary'[n] = [m_dictionary[n] EXCEPT !.s_value = m_dictionary[right[k]].s_value,
                                                     !.s_valueChanged = TRUE]
      BY <1>1, <2>2, <3>1 DEF Variables!AssignArray
    <3> QED
      BY <2>1, <3>4, <3>5 DEF Variable
  <2>3. CASE ~ \E k \in DOMAIN left : left[k] = n
    <3>1. m_dictionary'[n] = m_dictionary[n]
      BY <1>1, <2>3 DEF Variables!AssignArray
    <3> QED
      BY <2>1, <3>1
  <2> QED
    BY <2>2, <2>3
<1>6. m_dictionary' \in [DOMAIN m_dictionary' -> Variable]
  <2>1. m_dictionary' = [n \in DOMAIN m_dictionary |-> m_dictionary'[n]]
    BY DEF Variables!AssignArray
  <2> QED
    BY <1>4, <1>5, <2>1
<1>7. VariablesOK'
  BY <1>3, <1>4, <1>5, <1>6 DEF VariablePart, VariablesOK, Variables!OnlyInitializationsAreSilent
<1> QED
  BY <1>3, <1>4, <1>7, SameVariableArrays DEF VariablePart

LEMMA SamePart ==
    /\ ParamPart /\ UNCHANGED paramVars => ParamPart'
    /\ VariablePart /\ UNCHANGED variableVars => VariablePart'
    /\ ParamPart <=> ParametersOK /\ DefaultsOK /\ ArraysOK
    /\ ParamPart' <=> ParametersOK' /\ DefaultsOK' /\ ArraysOK'
    /\ VariablePart <=> VariablesOK /\ VariableArraysOK
    /\ VariablePart' <=> VariablesOK' /\ VariableArraysOK'
<1>1. ASSUME ParamPart, UNCHANGED paramVars PROVE ParamPart'
  BY <1>1, OtherKeeps DEF paramVars, ParamPart, DefaultsOK
<1>2. ASSUME VariablePart, UNCHANGED variableVars PROVE VariablePart'
  <2>1. VariablesOK'
    BY <1>2 DEF variableVars, VariablePart, VariablesOK, Variables!OnlyInitializationsAreSilent
  <2> QED
    BY <1>2, <2>1, SameVariableArrays DEF variableVars, VariablePart
<1> QED
  BY <1>1, <1>2 DEF ParamPart, VariablePart

LEMMA UserVariablesKeep ==
    ASSUME VariablePart, UseVariables \/ UseVariableArrays
    PROVE  VariablePart'
<1>1. CASE UseVariables
  BY <1>1, VariablesMadeKeep, VariableStepsKeep, DictionariesAssumption DEF UseVariables
<1>2. CASE UseVariableArrays
  BY <1>2, VariableArraysMadeKeep, VariableArraysKeep, AssignArrayKeeps DEF UseVariableArrays
<1> QED
  BY <1>1, <1>2
-----------------------------------------------------------------------------
(***************************************************************************)
(* Lines of the definition file.  What a command has, by its kind.         *)
(***************************************************************************)
Reading == pc = "read" /\ line < Len(definitionFile)

LEMMA CommandHas ==
    ASSUME FileOK, Reading, LineDone
    PROVE  /\ Command.what = "treeparameter" =>
                 Command.name \in ParameterNames /\ Command.spec \in Specification
           /\ Command.what = "treeparameterarray" =>
                 /\ Command.base \in Bases /\ Command.spec \in Specification
                 /\ Command.elements \in Nat /\ Command.firstindex \in Int
           /\ Command.what = "treevariable" =>
                 /\ Command.name \in VariableNames
                 /\ Command.value \in Values /\ Command.units \in Units
           /\ Command.what = "treevariablearray" =>
                 /\ Command.base \in Bases /\ Command.value \in Values /\ Command.units \in Units
                 /\ Command.elements \in Nat /\ Command.firstindex \in Int
           /\ FileOK' /\ line' = line + 1 /\ line \in Nat /\ pc' = "read" /\ calls' = 0
<1>1. definitionFile \in Seq(Commands) /\ line \in 0 .. Len(definitionFile)
  BY DictionariesAssumption DEF FileOK, Reading
<1>2. Command \in Commands
  BY <1>1 DEF Command, Reading
<1>3. FileOK' /\ line' = line + 1 /\ line \in Nat /\ pc' = "read" /\ calls' = 0
  BY <1>1, DictionariesAssumption DEF LineDone, FileOK, Reading
<1> QED
  BY <1>2, <1>3 DEF Commands

\* The last line that names it is still that, or is the new one.
LEMMA LastExtends ==
    ASSUME line \in Nat, NEW k, NEW name, NEW whats, LastUpTo(line, k, name, whats),
           Command.what \in whats => name \notin NamesOfCommand(Command)
    PROVE  LastUpTo(line + 1, k, name, whats)
<1>1. \A j \in k + 1 .. line + 1 : j \in k + 1 .. line \/ j = line + 1
  BY DEF LastUpTo
<1>2. k \in 1 .. line + 1
  BY DEF LastUpTo
<1> QED
  BY <1>1, <1>2 DEF LastUpTo, Command

LEMMA LastIsNew ==
    ASSUME line \in Nat, NEW name, NEW whats,
           Command.what \in whats, name \in NamesOfCommand(Command)
    PROVE  LastUpTo(line + 1, line + 1, name, whats)
BY DEF LastUpTo, Command

LEMMA ParametersMade ==
    ASSUME ParamPart, NEW names, DifferentNames(names), NEW spec \in Specification,
           NEW next \in {m_nextId, AfterTemplate}, InitializeAll(names, spec, next),
           UNCHANGED <<m_defaultSpecification, paramArrays, valid, declared>>,
           NEW made, made = MadeOf(names)
    PROVE  /\ ParamPart' /\ DOMAIN parameters' = DOMAIN parameters \union made
           /\ \A n \in made :
                 /\ parameters'[n].s_spec = spec
                 /\ parameters'[n].s_changed => n \in DOMAIN parameters /\ parameters[n].s_changed
           /\ \A n \in DOMAIN parameters : n \notin made => parameters'[n] = parameters[n]
<1>1. ParametersOK /\ DifferentNames(names) /\ InitializeAll(names, spec, next)
  BY DEF ParamPart
<1>2. /\ ParametersOK' /\ DOMAIN parameters' = DOMAIN parameters \union MadeOf(names)
      /\ \A n \in MadeOf(names) :
            /\ parameters'[n].s_spec = spec
            /\ parameters'[n].s_changed => n \in DOMAIN parameters /\ parameters[n].s_changed
      /\ \A n \in DOMAIN parameters : n \notin MadeOf(names) => parameters'[n] = parameters[n]
  BY <1>1, InitializeAllKeeps
<1>3. DefaultsOK' /\ ArraysOK'
  BY <1>2, SameArrays DEF ParamPart, DefaultsOK
<1> QED
  BY <1>2, <1>3 DEF ParamPart

\* A command makes parameters, all at once.
LEMMA ParametersRead ==
    ASSUME DictionariesInv, Reading, LineDone, Command.what \in ParameterCommands,
           NEW made, made = NamesOfCommand(Command),
           ParamPart', DOMAIN parameters' = DOMAIN parameters \union made,
           \A n \in made :
              /\ parameters'[n].s_spec = Command.spec
              /\ parameters'[n].s_changed => n \in DOMAIN parameters /\ parameters[n].s_changed,
           \A n \in DOMAIN parameters : n \notin made => parameters'[n] = parameters[n],
           UNCHANGED variableVars
    PROVE  DictionariesInv'
<1>1. FileOK' /\ line' = line + 1 /\ line \in Nat /\ pc' = "read" /\ calls' = 0
  BY CommandHas DEF DictionariesInv
<1>2. ParametersAsRead /\ VariablesAsRead /\ AllRead
  BY DEF DictionariesInv, FileOK, Reading
<1>3. ParametersOK' /\ DefaultsOK' /\ ArraysOK'
  BY DEF ParamPart
<1>4. VariablesOK' /\ VariableArraysOK'
  BY DEF DictionariesInv, VariablesOK, VariableArraysOK,
         Variables!OnlyInitializationsAreSilent, variableVars
<1>5. definitionFile' = definitionFile /\ m_dictionary' = m_dictionary
  BY DEF LineDone, variableVars
<1>6. ASSUME NEW n \in DOMAIN parameters'
      PROVE  /\ ~ parameters'[n].s_changed
             /\ \E k \in 1 .. line + 1 : /\ LastUpTo(line + 1, k, n, ParameterCommands)
                                        /\ parameters'[n].s_spec = definitionFile[k].spec
  <2>1. CASE n \in made
    <3>1. LastUpTo(line + 1, line + 1, n, ParameterCommands)
      BY <1>1, <2>1, LastIsNew
    <3>2. parameters'[n].s_spec = definitionFile[line + 1].spec /\ line + 1 \in 1 .. line + 1
      BY <1>1, <2>1 DEF Command
    <3>3. ~ parameters'[n].s_changed
      BY <1>2, <2>1 DEF ParametersAsRead
    <3> QED
      BY <3>1, <3>2, <3>3
  <2>2. CASE n \notin made
    <3>1. n \in DOMAIN parameters /\ parameters'[n] = parameters[n]
      BY <2>2
    <3>2. PICK k \in 1 .. line : /\ LastUpTo(line, k, n, ParameterCommands)
                                /\ parameters[n].s_spec = definitionFile[k].spec
      BY <1>2, <3>1 DEF ParametersAsRead
    <3>3. LastUpTo(line + 1, k, n, ParameterCommands) /\ k \in 1 .. line + 1
      BY <1>1, <2>2, <3>2, LastExtends
    <3> QED
      BY <1>2, <3>1, <3>2, <3>3 DEF ParametersAsRead
  <2> QED
    BY <2>1, <2>2
<1>7. ParametersAsRead'
  BY <1>1, <1>5, <1>6 DEF ParametersAsRead, LastUpTo, NamesOfCommand
<1>8. ASSUME NEW n \in DOMAIN m_dictionary
      PROVE  \E k \in 1 .. line + 1 :
                /\ LastUpTo(line + 1, k, n, VariableCommands)
                /\ m_dictionary[n] = Variables!Definition(definitionFile[k].value,
                                                          definitionFile[k].units)
  <2>1. PICK k \in 1 .. line :
           /\ LastUpTo(line, k, n, VariableCommands)
           /\ m_dictionary[n] = Variables!Definition(definitionFile[k].value,
                                                     definitionFile[k].units)
    BY <1>2 DEF VariablesAsRead
  <2>2. Command.what \notin VariableCommands
    BY DEF ParameterCommands, VariableCommands
  <2>3. LastUpTo(line + 1, k, n, VariableCommands) /\ k \in 1 .. line + 1
    BY <1>1, <2>1, <2>2, LastExtends
  <2> QED
    BY <2>1, <2>3
<1>9. VariablesAsRead'
  BY <1>1, <1>5, <1>8 DEF VariablesAsRead, LastUpTo, NamesOfCommand
<1>10. AllRead'
  <2>1. \A k \in 1 .. line + 1 : k \in 1 .. line \/ (k = line + 1 /\ definitionFile[k] = Command)
    BY <1>1 DEF Command
  <2> QED
    BY <1>1, <1>2, <1>5, <2>1 DEF AllRead
<1> QED
  BY <1>1, <1>3, <1>4, <1>7, <1>9, <1>10 DEF DictionariesInv

Again(d, value, units) == [d EXCEPT !.s_value = value, !.s_units = units]

LEMMA DefinedAgain ==
    ASSUME NEW v, NEW u, NEW value, NEW units
    PROVE  Again(Variables!Definition(v, u), value, units) = Variables!Definition(value, units)
<1>1. PICK no : no = FALSE
  OBVIOUS
<1>2. PICK d, def, again : /\ d = Variables!Definition(v, u)
                           /\ def = Variables!Definition(value, units)
                           /\ again = Again(d, value, units)
  OBVIOUS
<1>3. /\ d = [s_value |-> v, s_units |-> u, s_definitionChanged |-> no, s_valueChanged |-> no]
      /\ def = [s_value |-> value, s_units |-> units, s_definitionChanged |-> no,
                s_valueChanged |-> no]
  BY <1>1, <1>2, Zenon DEF Variables!Definition
<1>4. PICK once : once = [d EXCEPT !.s_value = value]
  OBVIOUS
<1>5. once = [s_value |-> value, s_units |-> u, s_definitionChanged |-> no, s_valueChanged |-> no]
  BY <1>3, <1>4
<1>6. again = [once EXCEPT !.s_units = units]
  BY <1>2, <1>4 DEF Again
<1>7. again = def
  BY <1>3, <1>5, <1>6
<1> QED
  BY <1>2, <1>7

\* A command makes variables, all at once.
LEMMA VariablesRead ==
    ASSUME DictionariesInv, Reading, LineDone,
           Command.what \in VariableCommands, Command.value \in Values, Command.units \in Units,
           \A n \in NamesOfCommand(Command) : IsName(n),
           Variables!InitializeAll(NamesOfCommand(Command), Command.value, Command.units),
           UNCHANGED <<variableArrays, paramVars>>
    PROVE  DictionariesInv'
<1> DEFINE Made == NamesOfCommand(Command)
<1>1. FileOK' /\ line' = line + 1 /\ line \in Nat /\ pc' = "read" /\ calls' = 0
  BY CommandHas DEF DictionariesInv
<1>2. ParametersAsRead /\ VariablesAsRead /\ AllRead
  BY DEF DictionariesInv, FileOK, Reading
<1>3. PICK value \in Values, units \in Units : value = Command.value /\ units = Command.units
  OBVIOUS
<1>4. /\ VariablesOK' /\ DOMAIN m_dictionary' = DOMAIN m_dictionary \union Made
      /\ \A n \in Made : m_dictionary'[n] =
            IF n \in DOMAIN m_dictionary
            THEN [m_dictionary[n] EXCEPT !.s_value = value, !.s_units = units]
            ELSE Variables!Definition(value, units)
      /\ \A n \in DOMAIN m_dictionary : n \notin Made => m_dictionary'[n] = m_dictionary[n]
  <2>1. VariablesOK /\ Variables!InitializeAll(Made, value, units)
    BY <1>3 DEF DictionariesInv
  <2> HIDE DEF Made
  <2>2. \A n \in Made : IsName(n)
    BY DEF Made
  <2> QED
    BY <2>1, <2>2, VariablesInitialized
<1>5. VariableArraysOK'
  BY <1>4, SameVariableArrays DEF DictionariesInv
<1>6. ParametersOK' /\ DefaultsOK' /\ ArraysOK'
  BY SameArrays DEF DictionariesInv, paramVars, ParametersOK, DefaultsOK
<1>7. definitionFile' = definitionFile /\ parameters' = parameters
  BY DEF LineDone, paramVars
<1>8. ASSUME NEW n \in DOMAIN parameters
      PROVE  /\ ~ parameters[n].s_changed
             /\ \E k \in 1 .. line + 1 : /\ LastUpTo(line + 1, k, n, ParameterCommands)
                                        /\ parameters[n].s_spec = definitionFile[k].spec
  <2>1. PICK k \in 1 .. line : /\ LastUpTo(line, k, n, ParameterCommands)
                              /\ parameters[n].s_spec = definitionFile[k].spec
    BY <1>2 DEF ParametersAsRead
  <2>2. Command.what \notin ParameterCommands
    BY DEF ParameterCommands, VariableCommands
  <2>3. LastUpTo(line + 1, k, n, ParameterCommands) /\ k \in 1 .. line + 1
    BY <1>1, <2>1, <2>2, LastExtends
  <2> QED
    BY <1>2, <2>1, <2>3 DEF ParametersAsRead
<1>9. ParametersAsRead'
  BY <1>1, <1>7, <1>8 DEF ParametersAsRead, LastUpTo, NamesOfCommand
<1>10. ASSUME NEW n \in Made PROVE m_dictionary'[n] = Variables!Definition(value, units)
  <2>1. CASE n \notin DOMAIN m_dictionary
    BY <1>4, <2>1
  <2>2. CASE n \in DOMAIN m_dictionary
    <3>1. PICK v, u : m_dictionary[n] = Variables!Definition(v, u)
      BY <1>2, <2>2 DEF VariablesAsRead
    <3>2. m_dictionary'[n] = Again(m_dictionary[n], value, units)
      BY <1>4, <2>2 DEF Again
    <3> QED
      BY <3>1, <3>2, DefinedAgain
  <2> QED
    BY <2>1, <2>2
<1>11. ASSUME NEW n \in DOMAIN m_dictionary'
       PROVE  \E k \in 1 .. line + 1 :
                 /\ LastUpTo(line + 1, k, n, VariableCommands)
                 /\ m_dictionary'[n] = Variables!Definition(definitionFile[k].value,
                                                            definitionFile[k].units)
  <2>1. CASE n \in Made
    <3>1. LastUpTo(line + 1, line + 1, n, VariableCommands)
      BY <1>1, <2>1, LastIsNew
    <3>2. m_dictionary'[n] = Variables!Definition(Command.value, Command.units)
      BY <1>3, <1>10, <2>1
    <3>3. definitionFile[line + 1] = Command /\ line + 1 \in 1 .. line + 1
      BY <1>1 DEF Command
    <3> QED
      BY <3>1, <3>2, <3>3
  <2>2. CASE n \notin Made
    <3>1. n \in DOMAIN m_dictionary /\ m_dictionary'[n] = m_dictionary[n]
      BY <1>4, <2>2
    <3>2. PICK k \in 1 .. line :
             /\ LastUpTo(line, k, n, VariableCommands)
             /\ m_dictionary[n] = Variables!Definition(definitionFile[k].value,
                                                       definitionFile[k].units)
      BY <1>2, <3>1 DEF VariablesAsRead
    <3>3. LastUpTo(line + 1, k, n, VariableCommands) /\ k \in 1 .. line + 1
      BY <1>1, <2>2, <3>2, LastExtends
    <3> QED
      BY <3>1, <3>2, <3>3
  <2> QED
    BY <2>1, <2>2
<1>12. VariablesAsRead'
  BY <1>1, <1>7, <1>11 DEF VariablesAsRead, LastUpTo, NamesOfCommand
<1>13. AllRead'
  <2>1. \A k \in 1 .. line + 1 : k \in 1 .. line \/ (k = line + 1 /\ definitionFile[k] = Command)
    BY <1>1 DEF Command
  <2>2. Command.what \notin ParameterCommands
    BY DEF ParameterCommands, VariableCommands
  <2> QED
    BY <1>1, <1>2, <1>4, <1>7, <2>1, <2>2 DEF AllRead
<1> QED
  BY <1>1, <1>4, <1>5, <1>6, <1>9, <1>12, <1>13 DEF DictionariesInv
LEMMA ReadLineKeeps ==
    ASSUME DictionariesInv, ReadLine
    PROVE  DictionariesInv'
<1>1. CASE TreeParameterCommand
  <2>1. Reading /\ LineDone /\ UNCHANGED variableVars /\ Initialize(Command.name, Command.spec)
    BY <1>1 DEF TreeParameterCommand, IsCommand, Reading
  <2>2. /\ Command.name \in ParameterNames /\ Command.spec \in Specification
        /\ Command.what \in ParameterCommands
    BY <1>1, <2>1, CommandHas
       DEF TreeParameterCommand, IsCommand, DictionariesInv, ParameterCommands
  <2>3. PICK name \in ParameterNames, spec \in Specification :
           name = Command.name /\ spec = Command.spec
    BY <2>2
  <2>4. PICK made : made = {name}
    OBVIOUS
  <2>5. NamesOfCommand(Command) = made
    BY <1>1, <2>3, <2>4 DEF TreeParameterCommand, IsCommand, NamesOfCommand
  <2>6. /\ ParamPart' /\ DOMAIN parameters' = DOMAIN parameters \union made
        /\ \A n \in made :
              /\ parameters'[n].s_spec = spec
              /\ parameters'[n].s_changed => n \in DOMAIN parameters /\ parameters[n].s_changed
        /\ \A n \in DOMAIN parameters : n \notin made => parameters'[n] = parameters[n]
    <3>1. ParamPart /\ IsName(name) /\ Initialize(name, spec)
      BY <2>1, <2>3, ParametersAssumption DEF DictionariesInv, ParamPart
    <3>2. /\ ParamPart' /\ DOMAIN parameters' = DOMAIN parameters \union {name}
          /\ parameters'[name].s_spec = spec
          /\ parameters'[name].s_changed =>
                name \in DOMAIN parameters /\ parameters[name].s_changed
          /\ \A n \in DOMAIN parameters : n # name => parameters'[n] = parameters[n]
      BY <3>1, InitializeKeeps
    <3> QED
      BY <2>4, <3>2
  <2> QED
    BY <2>1, <2>2, <2>3, <2>5, <2>6, ParametersRead
<1>2. CASE TreeParameterArrayCommand
  <2>1. Reading /\ LineDone /\ UNCHANGED variableVars
    BY <1>2 DEF TreeParameterArrayCommand, IsCommand, Reading, variableVars
  <2>2. /\ Command.base \in Bases /\ Command.spec \in Specification
        /\ Command.elements \in Nat /\ Command.firstindex \in Int
        /\ Command.what \in ParameterCommands
    BY <1>2, <2>1, CommandHas
       DEF TreeParameterArrayCommand, IsCommand, DictionariesInv, ParameterCommands
  <2>3. PICK spec \in Specification : spec = Command.spec
    BY <2>2
  <2>4. PICK elements, made :
           /\ elements = Elements(Command.base, Command.firstindex, Command.elements)
           /\ made = {elements[k] : k \in DOMAIN elements}
    OBVIOUS
  <2>5. NamesOfCommand(Command) = made
    <3>1. Command.what = "treeparameterarray"
      BY <1>2 DEF TreeParameterArrayCommand, IsCommand
    <3>2. NamesOfCommand(Command) = Variables!NamesOf(elements)
      BY <2>4, <3>1 DEF NamesOfCommand
    <3> QED
      BY <2>4, <3>2 DEF Variables!NamesOf
  <2>6. /\ DifferentNames(elements) /\ InitializeAll(elements, spec, AfterTemplate)
        /\ UNCHANGED <<m_defaultSpecification, paramArrays, valid, declared>>
    BY <1>2, <2>2, <2>3, <2>4, ElementsAreDifferent DEF TreeParameterArrayCommand
  <2>7. /\ ParamPart' /\ DOMAIN parameters' = DOMAIN parameters \union made
        /\ \A n \in made :
              /\ parameters'[n].s_spec = spec
              /\ parameters'[n].s_changed => n \in DOMAIN parameters /\ parameters[n].s_changed
        /\ \A n \in DOMAIN parameters : n \notin made => parameters'[n] = parameters[n]
    <3>1. ParamPart
      BY DEF DictionariesInv, ParamPart
    <3>2. PICK next \in {m_nextId, AfterTemplate} : next = AfterTemplate
      OBVIOUS
    <3>3. /\ DifferentNames(elements) /\ InitializeAll(elements, spec, next)
          /\ made = MadeOf(elements)
      BY <2>4, <2>6, <3>2 DEF MadeOf
    <3> QED
      BY <2>6, <3>1, <3>3, ParametersMade
  <2> QED
    BY <2>1, <2>2, <2>3, <2>5, <2>7, ParametersRead
<1>3. CASE TreeVariableCommand
  <2>1. /\ Reading /\ LineDone /\ UNCHANGED <<variableArrays, paramVars>>
        /\ Variables!InitializeAll({Command.name}, Command.value, Command.units)
    BY <1>3 DEF TreeVariableCommand, IsCommand, Reading, Variables!Initialize
  <2>2. /\ Command.name \in VariableNames /\ Command.value \in Values /\ Command.units \in Units
        /\ Command.what \in VariableCommands
    BY <1>3, <2>1, CommandHas
       DEF TreeVariableCommand, IsCommand, DictionariesInv, VariableCommands
  <2>3. NamesOfCommand(Command) = {Command.name}
    BY <1>3 DEF TreeVariableCommand, IsCommand, NamesOfCommand
  <2>4. \A n \in NamesOfCommand(Command) : IsName(n)
    BY <2>2, <2>3, DictionariesAssumption
  <2> QED
    BY <2>1, <2>2, <2>3, <2>4, VariablesRead
<1>4. CASE TreeVariableArrayCommand
  <2>1. Reading /\ LineDone /\ UNCHANGED <<variableArrays, paramVars>>
    BY <1>4 DEF TreeVariableArrayCommand, IsCommand, Reading
  <2>2. /\ Command.base \in Bases /\ Command.value \in Values /\ Command.units \in Units
        /\ Command.elements \in Nat /\ Command.firstindex \in Int
        /\ Command.what \in VariableCommands
    BY <1>4, <2>1, CommandHas
       DEF TreeVariableArrayCommand, IsCommand, DictionariesInv, VariableCommands
  <2>3. PICK elements : elements = Elements(Command.base, Command.firstindex, Command.elements)
    OBVIOUS
  <2>4. NamesOfCommand(Command) = Variables!NamesOf(elements)
    <3>1. Command.what = "treevariablearray"
      BY <1>4 DEF TreeVariableArrayCommand, IsCommand
    <3> QED
      BY <2>3, <3>1 DEF NamesOfCommand
  <2>5. \A n \in NamesOfCommand(Command) : IsName(n)
    BY <2>2, <2>3, <2>4, NamesOfArray DEF Variables!NamesOf
  <2>6. Variables!InitializeAll(NamesOfCommand(Command), Command.value, Command.units)
    BY <1>4, <2>3, <2>4 DEF TreeVariableArrayCommand
  <2> QED
    BY <2>1, <2>2, <2>5, <2>6, VariablesRead
<1>5. CASE Fail
  <2>1. /\ pc' = "thrown" /\ pc = "read"
        /\ UNCHANGED <<definitionFile, line, calls, paramVars, variableVars>>
    BY <1>5 DEF Fail, IsCommand
  <2>2. FileOK'
    BY <2>1 DEF DictionariesInv, FileOK
  <2> QED
    BY <2>1, <2>2, SamePart DEF DictionariesInv
<1> QED
  BY <1>1, <1>2, <1>3, <1>4, <1>5 DEF ReadLine

LEMMA ReadDoneKeeps ==
    ASSUME DictionariesInv, ReadDone
    PROVE  DictionariesInv'
<1>1. /\ pc' = "user" /\ pc = "read" /\ line = Len(definitionFile)
      /\ UNCHANGED <<definitionFile, line, calls, paramVars, variableVars>>
  BY DEF ReadDone
<1>2. FileOK'
  BY <1>1 DEF DictionariesInv, FileOK
<1>3. ParametersAsRead /\ VariablesAsRead /\ AllRead
  BY <1>1 DEF DictionariesInv, FileOK
<1>4. ParametersAsRead' /\ VariablesAsRead' /\ AllRead'
  BY <1>1, <1>3 DEF ParametersAsRead, VariablesAsRead, AllRead, LastUpTo, NamesOfCommand,
                    paramVars, variableVars
<1> QED
  BY <1>1, <1>2, <1>4, SamePart DEF DictionariesInv

LEMMA UserCodeKeeps ==
    ASSUME DictionariesInv, UserCode
    PROVE  DictionariesInv'
<1>1. FileOK' /\ calls' # 0
  BY DictionariesAssumption DEF DictionariesInv, FileOK, UserCode, Calls
<1>2. ParamPart /\ VariablePart
  BY DEF DictionariesInv, ParamPart, VariablePart
<1>3. ParamPart' /\ VariablePart'
  <2>1. CASE (UseParameters \/ UseParameterArrays) /\ UNCHANGED variableVars
    BY <1>2, <2>1, UserParametersKeep, SamePart
  <2>2. CASE (UseVariables \/ UseVariableArrays) /\ UNCHANGED paramVars
    BY <1>2, <2>2, UserVariablesKeep, SamePart
  <2> QED
    BY <2>1, <2>2 DEF UserCode
<1> QED
  BY <1>1, <1>3 DEF DictionariesInv, ParamPart, VariablePart
-----------------------------------------------------------------------------
(***************************************************************************)
(* The theorems.                                                           *)
(***************************************************************************)
LEMMA InitInv == Init => DictionariesInv
<1> SUFFICES ASSUME Init PROVE DictionariesInv
  OBVIOUS
<1>1. ParametersOK /\ DefaultsOK
  BY ParametersAssumption DEF Init, ParamInit, ParametersOK, DefaultsOK
<1>2. ArraysOK
  <2>1. /\ paramArrays = [a \in ParameterArrays |-> NoArray]
        /\ declared = [a \in ParameterArrays |-> NoDeclaration]
    BY DEF Init, ParamInit
  <2>2. ASSUME NEW a \in ParameterArrays PROVE ArrayOK(a)
    <3>1. paramArrays[a] = NoArray /\ declared[a] = NoDeclaration
      BY <2>1
    <3> QED
      BY <3>1, NoArrayIsEmpty DEF ArrayOK
  <2> QED
    BY <2>1, <2>2 DEF ArraysOK
<1>3. VariablesOK
  BY DEF Init, Variables!Init, VariablesOK, Variables!OnlyInitializationsAreSilent
<1>4. VariableArraysOK
  <2>1. PICK array : array = Variables!NoArray
    OBVIOUS
  <2>2. array.m_nFirstIndex \in Int /\ array.m_TreeVariables \in Seq(DOMAIN m_dictionary)
    BY <2>1 DEF Variables!NoArray
  <2> QED
    BY <2>1, <2>2 DEF Init, Variables!Init, VariableArraysOK
<1>5. FileOK
  BY DictionariesAssumption DEF Init, FileOK
<1>6. ParametersAsRead /\ VariablesAsRead /\ AllRead
  BY DEF Init, ParamInit, Variables!Init, ParametersAsRead, VariablesAsRead, AllRead
<1> QED
  BY <1>1, <1>2, <1>3, <1>4, <1>5, <1>6 DEF DictionariesInv

LEMMA StepInv == DictionariesInv /\ [Next]_vars => DictionariesInv'
<1> SUFFICES ASSUME DictionariesInv, [Next]_vars PROVE DictionariesInv'
  OBVIOUS
<1>1. CASE UNCHANGED vars
  <2>1. UNCHANGED <<paramVars, variableVars>> /\ UNCHANGED <<definitionFile, line, pc, calls>>
    BY <1>1 DEF vars, fileVars
  <2>2. FileOK'
    BY <2>1 DEF DictionariesInv, FileOK
  <2>3. pc # "thrown" /\ calls = 0 => ParametersAsRead' /\ VariablesAsRead' /\ AllRead'
    BY <2>1 DEF DictionariesInv, ParametersAsRead, VariablesAsRead, AllRead, LastUpTo,
                NamesOfCommand, paramVars, variableVars
  <2> QED
    BY <2>1, <2>2, <2>3, SamePart DEF DictionariesInv
<1>2. CASE Next
  BY <1>2, ReadLineKeeps, ReadDoneKeeps, UserCodeKeeps DEF Next
<1> QED
  BY <1>1, <1>2

LEMMA DictionariesInvHolds == Spec => []DictionariesInv
<1> QED
  BY InitInv, StepInv, PTL DEF Spec

(***************************************************************************)
(* Whatever the definition file says and user code calls, dictionaries and *)
(* arrays have what their types say: every object of an array stands for a *)
(* parameter or a variable that there is, and no number, nor the place in  *)
(* the event, is beyond those that were given out.                         *)
(***************************************************************************)
THEOREM DictionariesTypeCorrect == Spec => []TypeOK
BY DictionariesInvHolds, InvTypes, PTL

(***************************************************************************)
(* A CTreeParameterArray has the indices it was last declared with and no  *)
(* others, whose names are filled to one width that has room for every     *)
(* index although CreateParameters takes first index plus size unsigned,   *)
(* and no two parameters share a place in the event: makeSharedData gives  *)
(* each new name the next number, and one that is known keeps its own.     *)
(***************************************************************************)
THEOREM ArraysStayAsDeclared == Spec => []ArraysAsDeclared
BY DictionariesInvHolds, InvArrays, PTL

(***************************************************************************)
(* Whoever looks at the flags of parameters and variables only misses what *)
(* initializations of existing ones change, by any object or line of the   *)
(* file and since any reset of the flags, and nothing else.                *)
(***************************************************************************)
THEOREM SilentChangesAreInitializations == Spec => []OnlyInitializationsAreSilent
BY DictionariesInvHolds, InvSilent, PTL

(***************************************************************************)
(* When CTCLParameterReader::read returns, each name has what the last     *)
(* command of the file says that names it, alone or as an element of an    *)
(* array, nothing is flagged as changed and no name of the file is left    *)
(* out.                                                                    *)
(***************************************************************************)
THEOREM FileIsFollowed == Spec => []DefinedAsInFile
BY DictionariesInvHolds, InvAsInFile, PTL
=============================================================================
