------------------------- MODULE DefinitionsProofs -------------------------
(***************************************************************************)
(* Names and numbers in a parameter to parameter run, for any workers,     *)
(* definition files, input files and user code.                            *)
(***************************************************************************)
EXTENDS Definitions, FiniteSetTheorems, TLAPS

-----------------------------------------------------------------------------
(***************************************************************************)
(* Least and greatest numbers.                                             *)
(***************************************************************************)
LEMMA NatMinimum ==
    ASSUME NEW S, S \subseteq Nat, S # {}
    PROVE  \E x \in S : \A y \in S : x <= y
<1> DEFINE R == StrictSubsetOrdering(Nat)
           Below(n) == {i \in Nat : i < n}
           T == {Below(n) : n \in S}
<1>1. IsWellFoundedOn(R, FiniteSubsetsOf(Nat))
  BY FS_StrictSubsetOrderingWellFounded
<1>2. T \subseteq FiniteSubsetsOf(Nat) /\ T # {}
  <2>1. ASSUME NEW n \in S PROVE Below(n) \subseteq Nat /\ IsFiniteSet(Below(n))
    <3>1. Below(n) \in SUBSET Nat /\ n \in Nat /\ \A i \in Below(n) : i <= n
      OBVIOUS
    <3> QED
      BY <3>1, FS_BoundedSetOfNaturals
  <2> QED
    BY <2>1 DEF FiniteSubsetsOf
<1>3. PICK x \in T : \A y \in T : ~ (<<y, x>> \in R)
  <2> HIDE DEF R, T
  <2> QED
    BY <1>1, <1>2, WFMin
<1>4. PICK n \in S : x = Below(n)
  OBVIOUS
<1>5. ASSUME NEW m \in S, m < n PROVE FALSE
  <2>1. Below(m) \subseteq Below(n) /\ m \in Below(n) /\ m \notin Below(m)
    BY <1>5
  <2>2. Below(m) \in SUBSET Nat /\ Below(n) \in SUBSET Nat /\ Below(m) # Below(n)
    BY <2>1
  <2>3. <<Below(m), Below(n)>> \in R
    <3> HIDE DEF Below
    <3> QED
      BY <2>1, <2>2 DEF StrictSubsetOrdering
  <2> QED
    BY <1>3, <1>4, <2>3
<1>6. ASSUME NEW m \in S PROVE n <= m
  BY <1>5
<1> QED
  BY <1>6

LEMMA Largest ==
    ASSUME NEW n \in Nat \ {0}, NEW f \in [1 .. n -> Nat]
    PROVE  \E k \in 1 .. n : \A i \in 1 .. n : f[i] <= f[k]
<1> DEFINE P(j) == \E k \in 1 .. j : \A i \in 1 .. j : f[i] <= f[k]
           Bad == {j \in 1 .. n : ~ P(j)}
<1>1. ASSUME Bad # {} PROVE FALSE
  <2>1. PICK j \in Bad : \A i \in Bad : j <= i
    <3>1. Bad \subseteq Nat
      OBVIOUS
    <3> QED
      BY <1>1, <3>1, NatMinimum
  <2>2. CASE j = 1
    <3>1. f[1] \in Nat
      OBVIOUS
    <3>2. P(1)
      BY <3>1
    <3> QED
      BY <2>1, <2>2, <3>2
  <2>3. CASE j # 1
    <3>1. j - 1 \in 1 .. n /\ j \in 1 .. n /\ ~ P(j)
      BY <2>1, <2>3
    <3>2. P(j - 1)
      <4>1. j - 1 \notin Bad
        <5> HIDE DEF Bad
        <5> QED
          BY <2>1, <3>1
      <4> HIDE DEF P
      <4> QED
        BY <3>1, <4>1
    <3>3. PICK k \in 1 .. j - 1 : \A i \in 1 .. j - 1 : f[i] <= f[k]
      BY <3>2
    <3>4. f[k] \in Nat /\ f[j] \in Nat /\ \A i \in 1 .. j : f[i] \in Nat
      BY <3>1, <3>3
    <3>5. \A i \in 1 .. j : i \in 1 .. j - 1 \/ i = j
      BY <3>1
    <3>6. CASE f[j] <= f[k]
      <4>1. k \in 1 .. j /\ \A i \in 1 .. j : f[i] <= f[k]
        BY <3>1, <3>3, <3>5, <3>6
      <4> QED
        BY <3>1, <4>1
    <3>7. CASE f[k] < f[j]
      <4>1. j \in 1 .. j /\ \A i \in 1 .. j : f[i] <= f[j]
        BY <3>1, <3>3, <3>4, <3>5, <3>7
      <4> QED
        BY <3>1, <4>1
    <3> QED
      BY <3>4, <3>6, <3>7
  <2> QED
    BY <2>2, <2>3
<1>2. P(n)
  <2>1. n \in 1 .. n
    OBVIOUS
  <2> QED
    BY <1>1, <2>1
<1> QED
  BY <1>2

LEMMA Last ==
    ASSUME NEW n \in Nat, NEW K, K \subseteq 1 .. n, K # {}
    PROVE  \E k \in K : \A i \in K : i <= k
<1>1. PICK a \in K : TRUE
  OBVIOUS
<1>2. n \in Nat \ {0} /\ a \in 1 .. n
  BY <1>1
<1> DEFINE f == [i \in 1 .. n |-> IF i \in K THEN i ELSE 0]
<1>3. f \in [1 .. n -> Nat]
  OBVIOUS
<1>4. PICK k \in 1 .. n : \A i \in 1 .. n : f[i] <= f[k]
  <2> HIDE DEF f
  <2> QED
    BY <1>2, <1>3, Largest
<1>5. k \in K
  <2>1. f[a] = a /\ f[a] <= f[k]
    BY <1>2, <1>4
  <2> QED
    BY <1>2, <2>1
<1>6. ASSUME NEW i \in K PROVE i <= k
  <2>1. f[i] = i /\ f[k] = k /\ f[i] <= f[k]
    BY <1>4, <1>5
  <2> QED
    BY <2>1
<1> QED
  BY <1>5, <1>6
-----------------------------------------------------------------------------
(***************************************************************************)
(* Numbers.  A process has one for each of its names, different ones, all  *)
(* below the next.                                                         *)
(***************************************************************************)
Numbering(d, next) ==
    /\ IsNumbering(d) /\ next \in Nat
    /\ \A n \in DOMAIN d : d[n] < next
    /\ \A n, m \in DOMAIN d : d[n] = d[m] => n = m

\* It has those of base.
Extends(d, base) ==
    \A n \in DOMAIN base : n \in DOMAIN d /\ d[n] = base[n]

New(d, names) == {k \in DOMAIN names : names[k] \notin DOMAIN d}

NextAfter(d, next, names) == next + Cardinality(New(d, names))

\* The places of new names that are numbered before n is, which is at its last.
Before(d, names, n) ==
    {j \in New(d, names) : \E k \in New(d, names) : j < k /\ names[k] = n}

LEMMA NewIsFinite ==
    ASSUME NEW d, NEW names \in Seq(Parameters)
    PROVE  /\ New(d, names) \subseteq 1 .. Len(names)
           /\ IsFiniteSet(New(d, names)) /\ Cardinality(New(d, names)) \in Nat
<1>1. New(d, names) \subseteq 1 .. Len(names) /\ Len(names) \in Nat
  BY DEF New
<1>2. IsFiniteSet(1 .. Len(names))
  BY <1>1, FS_Interval
<1>3. IsFiniteSet(New(d, names))
  BY <1>1, <1>2, FS_Subset
<1> QED
  BY <1>1, <1>3, FS_CardinalityType

\* The last place of a new name is not before itself.
LEMMA LastPlace ==
    ASSUME NEW d, NEW names \in Seq(Parameters), NEW n, NEW k \in New(d, names), names[k] = n
    PROVE  \E l \in New(d, names) : /\ names[l] = n
                                    /\ Before(d, names, n) = {j \in New(d, names) : j < l}
<1> DEFINE K == {i \in New(d, names) : names[i] = n}
<1>1. New(d, names) \subseteq 1 .. Len(names) /\ Len(names) \in Nat
  BY NewIsFinite
<1>2. PICK l \in K : \A i \in K : i <= l
  <2>1. K \subseteq 1 .. Len(names) /\ K # {}
    BY <1>1
  <2> HIDE DEF K
  <2> QED
    BY <1>1, <2>1, Last
<1>3. Before(d, names, n) = {j \in New(d, names) : j < l}
  <2>1. ASSUME NEW j \in New(d, names)
        PROVE  (\E i \in New(d, names) : j < i /\ names[i] = n) <=> j < l
    <3>1. ASSUME NEW i \in New(d, names), j < i, names[i] = n PROVE j < l
      <4>1. i <= l
        BY <1>2, <3>1
      <4>2. i \in Nat /\ j \in Nat /\ l \in Nat
        BY <1>1, <1>2
      <4> QED
        BY <3>1, <4>1, <4>2
    <3> QED
      BY <1>2, <3>1
  <2> QED
    BY <2>1 DEF Before
<1> QED
  BY <1>2, <1>3

\* There are fewer places below a than below a place above a.
LEMMA FewerBelow ==
    ASSUME NEW N, IsFiniteSet(N), N \subseteq Nat, NEW a \in N
    PROVE  /\ Cardinality({j \in N : j < a}) \in Nat
           /\ Cardinality({j \in N : j < a}) < Cardinality(N)
           /\ \A b \in N : a < b => Cardinality({j \in N : j < a}) < Cardinality({j \in N : j < b})
<1>1. ASSUME NEW S, NEW T, S \subseteq T, IsFiniteSet(T), a \in T, a \notin S
      PROVE  Cardinality(S) < Cardinality(T) /\ Cardinality(S) \in Nat
  <2>1. /\ IsFiniteSet(S) /\ Cardinality(S) <= Cardinality(T)
        /\ Cardinality(S) = Cardinality(T) => S = T
    BY <1>1, FS_Subset
  <2>2. Cardinality(S) \in Nat /\ Cardinality(T) \in Nat
    BY <1>1, <2>1, FS_CardinalityType
  <2> QED
    BY <1>1, <2>1, <2>2
<1>2. {j \in N : j < a} \subseteq N /\ a \notin {j \in N : j < a}
  OBVIOUS
<1>3. ASSUME NEW b \in N, a < b
      PROVE  Cardinality({j \in N : j < a}) < Cardinality({j \in N : j < b})
  <2>1. {j \in N : j < b} \subseteq N
    OBVIOUS
  <2>2. IsFiniteSet({j \in N : j < b})
    BY <2>1, FS_Subset
  <2>3. a \in {j \in N : j < b} /\ {j \in N : j < a} \subseteq {j \in N : j < b}
    <3>1. a \in Nat /\ b \in Nat
      OBVIOUS
    <3>2. ASSUME NEW j \in N, j < a PROVE j < b
      <4>1. j \in Nat
        OBVIOUS
      <4> QED
        BY <1>3, <3>1, <3>2, <4>1
    <3> QED
      BY <1>3, <3>2
  <2> QED
    BY <1>1, <1>2, <2>2, <2>3
<1> QED
  BY <1>1, <1>2, <1>3

LEMMA PlacesDiffer ==
    ASSUME NEW d, NEW names \in Seq(Parameters), NEW k \in New(d, names)
    PROVE  /\ Cardinality(Before(d, names, names[k])) \in Nat
           /\ Cardinality(Before(d, names, names[k])) < Cardinality(New(d, names))
           /\ \A l \in New(d, names) :
                 names[k] # names[l] => Cardinality(Before(d, names, names[k]))
                                          # Cardinality(Before(d, names, names[l]))
<1> DEFINE N == New(d, names)
<1>1. IsFiniteSet(N) /\ N \subseteq Nat
  BY NewIsFinite
<1>2. PICK a \in N : names[a] = names[k] /\ Before(d, names, names[k]) = {j \in N : j < a}
  BY LastPlace
<1>3. ASSUME NEW l \in N, names[k] # names[l]
      PROVE  Cardinality(Before(d, names, names[k])) # Cardinality(Before(d, names, names[l]))
  <2>1. PICK b \in N : names[b] = names[l] /\ Before(d, names, names[l]) = {j \in N : j < b}
    BY LastPlace
  <2>2. a # b /\ a \in Nat /\ b \in Nat
    BY <1>1, <1>2, <1>3, <2>1
  <2> HIDE DEF N
  <2>3. /\ Cardinality({j \in N : j < a}) \in Nat /\ Cardinality({j \in N : j < b}) \in Nat
        /\ a < b => Cardinality({j \in N : j < a}) < Cardinality({j \in N : j < b})
        /\ b < a => Cardinality({j \in N : j < b}) < Cardinality({j \in N : j < a})
    BY <1>1, FewerBelow
  <2> QED
    BY <1>2, <2>1, <2>2, <2>3
<1>4. /\ Cardinality({j \in N : j < a}) \in Nat
      /\ Cardinality({j \in N : j < a}) < Cardinality(N)
  <2> HIDE DEF N
  <2> QED
    BY <1>1, FewerBelow
<1> QED
  BY <1>2, <1>3, <1>4

(***************************************************************************)
(* AllDefined: what had a number keeps it, and the names that had none get *)
(* different ones, from next on.                                           *)
(***************************************************************************)
LEMMA DefinedNumbers ==
    ASSUME NEW d, NEW next, Numbering(d, next), NEW names \in Seq(Parameters),
           NEW e, e = AllDefined(d, next, names)
    PROVE  /\ Numbering(e, NextAfter(d, next, names))
           /\ Extends(e, d)
           /\ DOMAIN e = DOMAIN d \union {names[k] : k \in DOMAIN names}
<1> DEFINE N == New(d, names)
           at(n) == Cardinality(Before(d, names, n))
<1>1. e = [n \in DOMAIN d \union {names[k] : k \in N} |->
             IF n \in DOMAIN d THEN d[n] ELSE next + at(n)]
  BY DEF AllDefined, New, Before
<1>2. DOMAIN e = DOMAIN d \union {names[k] : k \in DOMAIN names}
  BY <1>1 DEF New
<1>3. \A k \in DOMAIN names : names[k] \in Parameters
  OBVIOUS
<1>4. /\ IsNumbering(d) /\ next \in Nat
      /\ \A n \in DOMAIN d : d[n] \in Nat /\ d[n] < next
      /\ \A n, m \in DOMAIN d : d[n] = d[m] => n = m
  BY DEF Numbering, IsNumbering
<1>5. \A n \in DOMAIN d : n \in DOMAIN e /\ e[n] = d[n]
  BY <1>1
<1>6. \A n \in DOMAIN e \ DOMAIN d : e[n] = next + at(n) /\ \E k \in N : n = names[k]
  <2> HIDE DEF at
  <2> QED
    BY <1>1
<1>7. /\ Cardinality(N) \in Nat
      /\ \A k \in N : at(names[k]) \in Nat /\ at(names[k]) < Cardinality(N)
      /\ \A k, l \in N : names[k] # names[l] => at(names[k]) # at(names[l])
  BY NewIsFinite, PlacesDiffer
<1> HIDE DEF N, at
<1>8. \A n \in DOMAIN e \ DOMAIN d : at(n) \in Nat /\ at(n) < Cardinality(N)
  BY <1>6, <1>7
<1>9. \A n, m \in DOMAIN e \ DOMAIN d : n # m => at(n) # at(m)
  BY <1>6, <1>7
<1>10. NextAfter(d, next, names) = next + Cardinality(N)
  BY DEF NextAfter, N
<1>11. ASSUME NEW n \in DOMAIN e
       PROVE  e[n] \in Nat /\ e[n] < next + Cardinality(N) /\ (n \notin DOMAIN d => next <= e[n])
  <2>1. CASE n \in DOMAIN d
    BY <1>4, <1>5, <1>7, <2>1
  <2>2. CASE n \notin DOMAIN d
    BY <1>4, <1>6, <1>7, <1>8, <2>2
  <2> QED
    BY <2>1, <2>2
<1>12. ASSUME NEW n \in DOMAIN e, NEW m \in DOMAIN e, e[n] = e[m] PROVE n = m
  <2>1. CASE n \in DOMAIN d /\ m \in DOMAIN d
    BY <1>4, <1>5, <1>12, <2>1
  <2>2. CASE n \notin DOMAIN d /\ m \notin DOMAIN d
    <3>1. at(n) = at(m)
      BY <1>4, <1>6, <1>8, <1>12, <2>2
    <3> QED
      BY <1>9, <2>2, <3>1
  <2>3. CASE n \in DOMAIN d /\ m \notin DOMAIN d
    BY <1>4, <1>5, <1>11, <1>12, <2>3
  <2>4. CASE n \notin DOMAIN d /\ m \in DOMAIN d
    BY <1>4, <1>5, <1>11, <1>12, <2>4
  <2> QED
    BY <2>1, <2>2, <2>3, <2>4
<1>13. DOMAIN e \subseteq Parameters
  BY <1>2, <1>3, <1>4 DEF IsNumbering
<1>14. Numbering(e, NextAfter(d, next, names))
  BY <1>4, <1>7, <1>10, <1>11, <1>12, <1>13 DEF Numbering, IsNumbering
<1> QED
  BY <1>2, <1>5, <1>14 DEF Extends
-----------------------------------------------------------------------------
(***************************************************************************)
(* The invariant.  What one process knows:                                 *)
(***************************************************************************)
Mentioned(upTo, name) ==
    \E k \in 1 .. upTo :
       definitionFile[k].what = "treevariable" /\ definitionFile[k].name = name

LastDefined(upTo, name, v) ==
    \E k \in 1 .. upTo :
       /\ definitionFile[k] = [what |-> "treevariable", name |-> name, value |-> v]
       /\ \A j \in k + 1 .. upTo :
             definitionFile[j].what = "treevariable" => definitionFile[j].name # name

Steers(r, name) == r \in Workers /\ name \in steered[r]

VariablesFollow(r) ==
    /\ IsVariables(variables[r])
    /\ \A n \in Variables :
          Mentioned(line[r], n) /\ ~ Steers(r, n) =>
             n \in DOMAIN variables[r] /\ LastDefined(line[r], n, variables[r][n])
    /\ r = Outputter => \A n \in DOMAIN variables[r] : Mentioned(line[r], n)

RankOK(r) ==
    /\ pc[r] \in {"read", "construct", "params", "vars", "ready", "process", "run", "thrown"}
    /\ line[r] \in 0 .. Len(definitionFile)
    /\ pc[r] \notin {"read", "thrown"} => line[r] = Len(definitionFile)
    /\ Numbering(dictionary[r], m_nextId[r])
    /\ VariablesFollow(r)

WorkerOK(w) ==
    /\ \A k \in DOMAIN m_parameterMap[w] :
          k \in Nat /\ m_parameterMap[w][k] \in DOMAIN dictionary[w] \union {NoParameter}
    /\ pc[w] \in {"vars", "ready", "process"} =>
          inputParameters # <<>> /\ m_parameterMap[w] = MapOf(inputParameters)
    /\ IsVariables(m_variableMap[w])
    /\ IsEvent(event[w]) /\ DOMAIN event[w] \subseteq DOMAIN dictionary[w]
    /\ input[w] \in InputEvents \union {NoFunction}
    /\ steered[w] \subseteq Variables

(***************************************************************************)
(* What the processes have in common: the definition file, read up to some *)
(* line by the one who is furthest.  numbers[k] and nexts[k] are what      *)
(* everyone has after k lines, whenever it is there.                       *)
(***************************************************************************)
AfterLine(d, next, c, d2, next2) ==
    \/ /\ c.what = "treeparameter"
       /\ d2 = AllDefined(d, next, <<c.name>>) /\ next2 = NextAfter(d, next, <<c.name>>)
    \/ /\ c.what = "treeparameterarray"
       /\ d2 = AllDefined(d, next + 1, c.names) /\ next2 = NextAfter(d, next + 1, c.names)
    \/ /\ c.what \in {"treevariable", "error"}
       /\ d2 = d /\ next2 = next

ReadUpTo(m, numbers, nexts) ==
    /\ m \in 0 .. Len(definitionFile)
    /\ numbers[0] = NoFunction /\ nexts[0] = 1
    /\ \A k \in 1 .. m :
          AfterLine(numbers[k - 1], nexts[k - 1], definitionFile[k], numbers[k], nexts[k])

Follows(r, m, numbers, nexts) ==
    /\ pc[r] = "read" => line[r] <= m
    /\ pc[r] = "read" \/ (r = Outputter /\ pc[r] # "thrown") =>
          dictionary[r] = numbers[line[r]] /\ m_nextId[r] = nexts[line[r]]
    /\ pc[r] \notin {"read", "thrown"} =>
          m = Len(definitionFile) /\ Extends(dictionary[r], numbers[m])

\* Someone who had these numbers, and among others those of base, sent e.
SentAs(e, base) ==
    \E d, next : /\ Numbering(d, next) /\ Extends(d, base)
                 /\ DOMAIN e.meant \subseteq DOMAIN d
                 /\ e.sent = {<<d[n], e.meant[n]>> : n \in DOMAIN e.meant}

Common(m, numbers, nexts) ==
    /\ ReadUpTo(m, numbers, nexts)
    /\ \A r \in Ranks : Follows(r, m, numbers, nexts)
    /\ IF pc[Outputter] = "run" THEN head.parameters = numbers[m]
                                ELSE DOMAIN head.parameters = {}
    /\ \A e \in written : m = Len(definitionFile) /\ SentAs(e, numbers[m])

ReadInCommon == \E m, numbers, nexts : Common(m, numbers, nexts)

Shape ==
    /\ definitionFile \in DefinitionFiles
    /\ inputParameters \in InputParameters /\ inputVariables \in InputVariables
    /\ DOMAIN pc = Ranks /\ DOMAIN line = Ranks /\ DOMAIN dictionary = Ranks
    /\ DOMAIN m_nextId = Ranks /\ DOMAIN variables = Ranks
    /\ DOMAIN m_parameterMap = Workers /\ DOMAIN m_variableMap = Workers
    /\ DOMAIN event = Workers /\ DOMAIN input = Workers /\ DOMAIN steered = Workers
    /\ pc = [r \in Ranks |-> pc[r]] /\ line = [r \in Ranks |-> line[r]]
    /\ m_nextId = [r \in Ranks |-> m_nextId[r]]
    /\ steered = [w \in Workers |-> steered[w]]
    /\ \A e \in written : IsEvent(e.meant) /\ e.sent \subseteq Nat \X Values
    /\ taken \in 0 .. MaxEvents

HeadOK ==
    /\ IsNumbering(head.parameters) /\ IsVariables(head.variables)
    /\ pc[Outputter] = "run" => head.variables = variables[Outputter]

DefinitionsInv ==
    /\ Shape
    /\ \A r \in Ranks : RankOK(r)
    /\ \A w \in Workers : WorkerOK(w)
    /\ HeadOK
    /\ ReadInCommon
-----------------------------------------------------------------------------
LEMMA InvTypes == DefinitionsInv => TypeOK
<1> SUFFICES ASSUME DefinitionsInv PROVE TypeOK
  OBVIOUS
<1>1. /\ Shape /\ HeadOK
      /\ \A r \in Ranks : RankOK(r)
      /\ \A w \in Workers : WorkerOK(w)
  BY DEF DefinitionsInv
<1>2. \A r \in Ranks : /\ pc[r] \in {"read", "construct", "params", "vars", "ready", "process",
                                     "run", "thrown"}
                       /\ line[r] \in Nat /\ m_nextId[r] \in Nat
                       /\ IsNumbering(dictionary[r]) /\ IsVariables(variables[r])
  BY <1>1 DEF RankOK, Numbering, VariablesFollow
<1>3. \A w \in Workers :
         /\ \A k \in DOMAIN m_parameterMap[w] :
               k \in Nat /\ m_parameterMap[w][k] \in Parameters \union {NoParameter}
         /\ IsVariables(m_variableMap[w]) /\ IsEvent(event[w])
         /\ input[w] \in InputEvents \union {NoFunction}
         /\ steered[w] \subseteq Variables
  <2>1. ASSUME NEW w \in Workers PROVE DOMAIN dictionary[w] \subseteq Parameters
    BY <1>2 DEF Ranks, IsNumbering
  <2> QED
    BY <1>1, <2>1 DEF WorkerOK
<1>4. /\ pc \in [Ranks -> {"read", "construct", "params", "vars", "ready", "process", "run",
                           "thrown"}]
      /\ line \in [Ranks -> Nat] /\ m_nextId \in [Ranks -> Nat]
  BY <1>1, <1>2 DEF Shape
<1> QED
  BY <1>1, <1>2, <1>3, <1>4 DEF TypeOK, Shape, HeadOK

LEMMA InvNumbersAgree == DefinitionsInv => NumbersAgree
<1> SUFFICES ASSUME DefinitionsInv, NEW w \in Defining, NEW n \in DOMAIN head.parameters
             PROVE  n \in DOMAIN dictionary[w] /\ dictionary[w][n] = head.parameters[n]
  BY DEF NumbersAgree
<1>1. PICK m, numbers, nexts : Common(m, numbers, nexts)
  BY DEF DefinitionsInv, ReadInCommon
<1>2. head.parameters = numbers[m]
  BY <1>1 DEF Common
<1>3. Extends(dictionary[w], numbers[m])
  BY <1>1 DEF Common, Follows, Defining, Ranks
<1> QED
  BY <1>2, <1>3 DEF Extends

LEMMA InvReadsBack == DefinitionsInv => ReadsBack
<1> SUFFICES ASSUME DefinitionsInv, pc[Outputter] = "run", NEW e \in written
             PROVE  {nv \in (DOMAIN head.parameters) \X Values :
                       <<head.parameters[nv[1]], nv[2]>> \in e.sent}
                      = {<<n, e.meant[n]>> : n \in DOMAIN e.meant \intersect DOMAIN head.parameters}
  BY DEF ReadsBack
<1>1. PICK m, numbers, nexts : Common(m, numbers, nexts)
  BY DEF DefinitionsInv, ReadInCommon
<1>2. head.parameters = numbers[m] /\ SentAs(e, head.parameters)
  BY <1>1 DEF Common
<1>3. PICK d, next : /\ Numbering(d, next) /\ Extends(d, head.parameters)
                     /\ DOMAIN e.meant \subseteq DOMAIN d
                     /\ e.sent = {<<d[n], e.meant[n]>> : n \in DOMAIN e.meant}
  BY <1>2 DEF SentAs
<1>4. PICK h, meant : h = head.parameters /\ meant = e.meant
  OBVIOUS
<1>5. ASSUME NEW nv \in (DOMAIN h) \X Values, <<h[nv[1]], nv[2]>> \in e.sent
      PROVE  \E n \in DOMAIN meant \intersect DOMAIN h : nv = <<n, meant[n]>>
  <2>1. PICK n \in DOMAIN meant : <<h[nv[1]], nv[2]>> = <<d[n], meant[n]>>
    BY <1>3, <1>4, <1>5
  <2>2. nv[1] \in DOMAIN d /\ d[nv[1]] = d[n] /\ n \in DOMAIN d /\ nv[1] \in DOMAIN h
    BY <1>3, <1>4, <2>1 DEF Extends
  <2>3. nv[1] = n
    BY <1>3, <2>2 DEF Numbering
  <2> QED
    BY <2>1, <2>2, <2>3
<1>6. ASSUME NEW n \in DOMAIN meant \intersect DOMAIN h
      PROVE  <<n, meant[n]>> \in (DOMAIN h) \X Values /\ <<h[n], meant[n]>> \in e.sent
  <2>1. meant[n] \in Values
    BY <1>4 DEF DefinitionsInv, Shape, IsEvent
  <2>2. d[n] = h[n]
    BY <1>3, <1>4 DEF Extends
  <2> QED
    BY <1>3, <1>4, <2>1, <2>2
<1> QED
  BY <1>4, <1>5, <1>6

LEMMA InvSteered == DefinitionsInv => SteeredAsDefined
<1> SUFFICES ASSUME DefinitionsInv PROVE SteeredAsDefined
  OBVIOUS
<1>1. definitionFile \in Seq(Lines)
  BY DefinitionsAssumption DEF DefinitionsInv, Shape
<1>2. DOMAIN definitionFile = 1 .. Len(definitionFile)
  BY <1>1
<1>3. \A n, v : /\ FileDefines(n) <=> Mentioned(Len(definitionFile), n)
                /\ DefinedLast(n, v) <=> LastDefined(Len(definitionFile), n, v)
  BY <1>2 DEF FileDefines, Mentioned, DefinedLast, LastDefined
<1>4. ASSUME NEW r \in Ranks, pc[r] \notin {"read", "thrown"}
      PROVE  /\ \A n \in Variables :
                   FileDefines(n) /\ ~ Steers(r, n) =>
                      n \in DOMAIN variables[r] /\ DefinedLast(n, variables[r][n])
             /\ r = Outputter => \A n \in DOMAIN variables[r] : FileDefines(n)
             /\ DOMAIN variables[r] \subseteq Variables
  <2>1. line[r] = Len(definitionFile) /\ VariablesFollow(r)
    BY <1>4 DEF DefinitionsInv, RankOK
  <2> QED
    BY <1>3, <2>1 DEF VariablesFollow, IsVariables
<1>5. ASSUME pc[Outputter] = "run"
      PROVE  /\ \A n \in Variables : FileDefines(n) => n \in DOMAIN head.variables
             /\ \A n \in DOMAIN head.variables : DefinedLast(n, head.variables[n])
  <2>1. head.variables = variables[Outputter]
    BY <1>5 DEF DefinitionsInv, HeadOK
  <2>2. Outputter \in Ranks /\ \A n : ~ Steers(Outputter, n)
    BY DefinitionsAssumption DEF Ranks, Steers
  <2> QED
    BY <1>4, <1>5, <2>1, <2>2
<1>6. ASSUME NEW w \in Defining, NEW n \in Variables \ steered[w], FileDefines(n)
      PROVE  DefinedLast(n, variables[w][n])
  BY <1>4, <1>6 DEF Defining, Ranks, Steers
<1> QED
  BY <1>5, <1>6 DEF SteeredAsDefined
-----------------------------------------------------------------------------
(***************************************************************************)
(* The first state.                                                        *)
(***************************************************************************)
LEMMA DefinitionsInit == Init => DefinitionsInv
<1> SUFFICES ASSUME Init PROVE DefinitionsInv
  OBVIOUS
<1>1. DOMAIN NoFunction = {} /\ Numbering(NoFunction, 1) /\ IsVariables(NoFunction)
      /\ IsEvent(NoFunction) /\ IsNumbering(NoFunction)
  BY DEF NoFunction, Numbering, IsNumbering, IsVariables, IsEvent
<1>2. \A r \in Ranks : /\ pc[r] = "read" /\ line[r] = 0 /\ dictionary[r] = NoFunction
                       /\ m_nextId[r] = 1 /\ variables[r] = NoFunction
  BY DEF Init
<1>3. \A w \in Workers : /\ m_parameterMap[w] = NoFunction /\ m_variableMap[w] = NoFunction
                         /\ event[w] = NoFunction /\ input[w] = NoFunction /\ steered[w] = {}
  BY DEF Init
<1>4. Outputter \in Ranks /\ \A w \in Workers : w \in Ranks
  BY DEF Ranks
<1>5. definitionFile \in Seq(Lines)
  BY DefinitionsAssumption DEF Init
<1>6. Len(definitionFile) \in Nat
  BY <1>5
<1>7. Shape
  BY DefinitionsAssumption DEF Init, Shape
<1>8. \A r \in Ranks : RankOK(r)
  <2>1. ASSUME NEW r \in Ranks PROVE VariablesFollow(r)
    <3>1. \A n : ~ Mentioned(0, n)
      BY DEF Mentioned
    <3> QED
      BY <1>1, <1>2, <3>1 DEF VariablesFollow
  <2> QED
    BY <1>1, <1>2, <1>6, <2>1 DEF RankOK
<1>9. \A w \in Workers : WorkerOK(w)
  BY <1>1, <1>2, <1>3, <1>4 DEF WorkerOK
<1>10. HeadOK
  <2>1. head.parameters = NoFunction /\ head.variables = NoFunction
    BY DEF Init
  <2> QED
    BY <1>1, <1>2, <1>4, <2>1 DEF HeadOK
<1>11. ReadInCommon
  <2>1. PICK numbers, nexts : numbers = [k \in {0} |-> NoFunction] /\ nexts = [k \in {0} |-> 1]
    OBVIOUS
  <2>2. ReadUpTo(0, numbers, nexts)
    BY <1>6, <2>1 DEF ReadUpTo
  <2>3. \A r \in Ranks : Follows(r, 0, numbers, nexts)
    BY <1>2, <2>1 DEF Follows
  <2>4. DOMAIN head.parameters = {} /\ written = {} /\ pc[Outputter] # "run"
    BY <1>1, <1>2, <1>4 DEF Init
  <2>5. Common(0, numbers, nexts)
    BY <2>2, <2>3, <2>4 DEF Common
  <2> QED
    BY <2>5 DEF ReadInCommon
<1> QED
  BY <1>7, <1>8, <1>9, <1>10, <1>11 DEF DefinitionsInv
-----------------------------------------------------------------------------
(***************************************************************************)
(* Reading a line.                                                         *)
(***************************************************************************)
LEMMA LineKinds ==
    ASSUME NEW c \in Lines
    PROVE  \/ c.what = "treeparameter" /\ c.name \in Parameters
           \/ c.what = "treeparameterarray" /\ c.names \in Seq(Parameters)
           \/ /\ c.what = "treevariable" /\ c.name \in Variables /\ c.value \in Values
              /\ c = [what |-> "treevariable", name |-> c.name, value |-> c.value]
           \/ c.what = "error"
<1>1. CASE c \in [what : {"treeparameter"}, name : Parameters]
  BY <1>1
<1>2. CASE c \in [what : {"treeparameterarray"}, names : Seq(Parameters)]
  BY <1>2
<1>3. CASE c \in [what : {"treevariable"}, name : Variables, value : Values]
  BY <1>3
<1>4. CASE c \in [what : {"error"}]
  BY <1>4
<1> QED
  BY <1>1, <1>2, <1>3, <1>4 DEF Lines

\* What it does to numbers is a function, which keeps them different.
LEMMA AfterLineIsUnique ==
    ASSUME NEW d, NEW next, NEW c, NEW d1, NEW next1, NEW d2, NEW next2,
           AfterLine(d, next, c, d1, next1), AfterLine(d, next, c, d2, next2)
    PROVE  d1 = d2 /\ next1 = next2
BY DEF AfterLine

LEMMA AfterLineNumbers ==
    ASSUME NEW d, NEW next, Numbering(d, next), NEW c \in Lines, NEW d2, NEW next2,
           AfterLine(d, next, c, d2, next2)
    PROVE  Numbering(d2, next2) /\ Extends(d2, d)
<1>1. CASE c.what = "treeparameter"
  <2>1. PICK names : names = <<c.name>>
    OBVIOUS
  <2>2. names \in Seq(Parameters)
    BY <1>1, <2>1, LineKinds
  <2>3. d2 = AllDefined(d, next, names) /\ next2 = NextAfter(d, next, names)
    BY <1>1, <2>1 DEF AfterLine
  <2> QED
    BY <2>2, <2>3, DefinedNumbers
<1>2. CASE c.what = "treeparameterarray"
  <2>1. PICK names : names = c.names
    OBVIOUS
  <2>2. names \in Seq(Parameters)
    BY <1>2, <2>1, LineKinds
  <2>3. d2 = AllDefined(d, next + 1, names) /\ next2 = NextAfter(d, next + 1, names)
    BY <1>2, <2>1 DEF AfterLine
  <2>4. Numbering(d, next + 1)
    BY DEF Numbering, IsNumbering
  <2> QED
    BY <2>2, <2>3, <2>4, DefinedNumbers
<1>3. CASE c.what \in {"treevariable", "error"}
  <2>1. d2 = d /\ next2 = next
    BY <1>3 DEF AfterLine
  <2> QED
    BY <2>1 DEF Extends
<1> QED
  BY <1>1, <1>2, <1>3, LineKinds

LEMMA ReadLineDoes ==
    ASSUME DefinitionsInv, NEW r \in Ranks, ReadLine(r), NEW c, c = definitionFile[line[r] + 1]
    PROVE  /\ pc[r] = "read" /\ line[r] < Len(definitionFile) /\ line[r] \in Nat /\ c \in Lines
           /\ UNCHANGED <<given, m_parameterMap, m_variableMap, event, input, head, written,
                          taken, steered>>
           /\ line' = [line EXCEPT ![r] = @ + 1] /\ line'[r] = line[r] + 1
           /\ AfterLine(dictionary[r], m_nextId[r], c, dictionary'[r], m_nextId'[r])
           /\ variables'[r] = IF c.what = "treevariable" THEN With(variables[r], c.name, c.value)
                                                         ELSE variables[r]
           /\ pc'[r] = IF c.what = "error" THEN "thrown" ELSE "read"
           /\ \A q \in Ranks \ {r} : /\ pc'[q] = pc[q] /\ line'[q] = line[q]
                                     /\ dictionary'[q] = dictionary[q]
                                     /\ m_nextId'[q] = m_nextId[q]
                                     /\ variables'[q] = variables[q]
           /\ DOMAIN dictionary' = Ranks /\ DOMAIN variables' = Ranks
           /\ pc' = [q \in Ranks |-> pc'[q]] /\ line' = [q \in Ranks |-> line'[q]]
           /\ m_nextId' = [q \in Ranks |-> m_nextId'[q]]
<1>1. /\ Shape /\ RankOK(r)
      /\ definitionFile \in Seq(Lines)
  BY DefinitionsAssumption DEF DefinitionsInv, Shape
<1>2. /\ pc[r] = "read" /\ line[r] < Len(definitionFile) /\ line[r] \in Nat /\ c \in Lines
      /\ UNCHANGED <<given, m_parameterMap, m_variableMap, event, input, head, written,
                     taken, steered>>
      /\ line' = [line EXCEPT ![r] = @ + 1]
  BY <1>1 DEF ReadLine, RankOK
<1>3. /\ line'[r] = line[r] + 1 /\ \A q \in Ranks \ {r} : line'[q] = line[q]
      /\ line' = [q \in Ranks |-> line'[q]]
  BY <1>1, <1>2 DEF Shape
<1>4. ASSUME NEW names, NEW next, MakeParameters(r, next, names)
      PROVE  /\ dictionary'[r] = AllDefined(dictionary[r], next, names)
             /\ m_nextId'[r] = NextAfter(dictionary[r], next, names)
             /\ \A q \in Ranks \ {r} : dictionary'[q] = dictionary[q] /\ m_nextId'[q] = m_nextId[q]
             /\ DOMAIN dictionary' = Ranks /\ m_nextId' = [q \in Ranks |-> m_nextId'[q]]
  BY <1>1, <1>4 DEF MakeParameters, Shape, NextAfter, New
<1>5. CASE /\ c.what = "treeparameter"
           /\ MakeParameters(r, m_nextId[r], <<c.name>>)
           /\ UNCHANGED <<pc, variables>>
  BY <1>1, <1>2, <1>3, <1>4, <1>5 DEF AfterLine, Shape
<1>6. CASE /\ c.what = "treeparameterarray"
           /\ MakeArray(r, c.names)
           /\ UNCHANGED <<pc, variables>>
  BY <1>1, <1>2, <1>3, <1>4, <1>6 DEF AfterLine, Shape, MakeArray
<1>7. CASE /\ c.what = "treevariable"
           /\ variables' = [variables EXCEPT ![r] = With(@, c.name, c.value)]
           /\ UNCHANGED <<pc, dictionary, m_nextId>>
  <2>1. /\ variables'[r] = With(variables[r], c.name, c.value)
        /\ \A q \in Ranks \ {r} : variables'[q] = variables[q]
        /\ DOMAIN variables' = Ranks
    BY <1>1, <1>7 DEF Shape
  <2> QED
    BY <1>1, <1>2, <1>3, <1>7, <2>1 DEF AfterLine, Shape
<1>8. CASE /\ c.what = "error"
           /\ pc' = [pc EXCEPT ![r] = "thrown"]
           /\ UNCHANGED <<dictionary, m_nextId, variables>>
  <2>1. /\ pc'[r] = "thrown" /\ \A q \in Ranks \ {r} : pc'[q] = pc[q]
        /\ pc' = [q \in Ranks |-> pc'[q]]
    BY <1>1, <1>8 DEF Shape
  <2> QED
    BY <1>1, <1>2, <1>3, <1>8, <2>1 DEF AfterLine, Shape
<1> QED
  BY <1>5, <1>6, <1>7, <1>8 DEF ReadLine

\* The one who is furthest finds out what the others will have.
LEMMA ReadLineCommon ==
    ASSUME DefinitionsInv, NEW r \in Ranks, ReadLine(r)
    PROVE  ReadInCommon'
<1>1. PICK m, numbers, nexts : Common(m, numbers, nexts)
  BY DEF DefinitionsInv, ReadInCommon
<1>2. PICK l, c, d2, next2, size : /\ l = line[r] /\ c = definitionFile[l + 1]
                                   /\ d2 = dictionary'[r] /\ next2 = m_nextId'[r]
                                   /\ size = Len(definitionFile)
  OBVIOUS
<1>3. /\ pc[r] = "read" /\ l < size /\ l \in Nat /\ c \in Lines
      /\ UNCHANGED <<given, head, written>>
      /\ line'[r] = l + 1
      /\ AfterLine(dictionary[r], m_nextId[r], c, d2, next2)
      /\ pc'[r] = IF c.what = "error" THEN "thrown" ELSE "read"
      /\ \A q \in Ranks \ {r} : /\ pc'[q] = pc[q] /\ line'[q] = line[q]
                                /\ dictionary'[q] = dictionary[q]
                                /\ m_nextId'[q] = m_nextId[q]
  BY <1>2, ReadLineDoes
<1>4. /\ Follows(r, m, numbers, nexts) /\ ReadUpTo(m, numbers, nexts)
      /\ size \in Nat /\ m \in 0 .. size
  <2>1. definitionFile \in Seq(Lines)
    BY DefinitionsAssumption DEF DefinitionsInv, Shape
  <2> QED
    BY <1>1, <1>2, <2>1 DEF Common, ReadUpTo
<1>5. l <= m /\ dictionary[r] = numbers[l] /\ m_nextId[r] = nexts[l]
  BY <1>2, <1>3, <1>4 DEF Follows
<1>6. PICK m2, numbers2, nexts2 :
         /\ m2 = IF l = m THEN l + 1 ELSE m
         /\ numbers2 = [k \in 0 .. size |-> IF l = m /\ k = l + 1 THEN d2 ELSE numbers[k]]
         /\ nexts2 = [k \in 0 .. size |-> IF l = m /\ k = l + 1 THEN next2 ELSE nexts[k]]
  OBVIOUS
<1>7. /\ m2 \in 0 .. size /\ m <= m2 /\ l + 1 <= m2 /\ l + 1 \in 0 .. size
      /\ m = size => m2 = m
      /\ \A k \in 0 .. m : k \in 0 .. size /\ numbers2[k] = numbers[k] /\ nexts2[k] = nexts[k]
  BY <1>3, <1>4, <1>5, <1>6
<1>8. numbers2[l + 1] = d2 /\ nexts2[l + 1] = next2
  <2>1. CASE l = m
    BY <1>6, <1>7, <2>1
  <2>2. CASE l # m
    <3>1. l + 1 \in 1 .. m /\ (l + 1) - 1 = l
      BY <1>3, <1>4, <1>5, <2>2
    <3>2. AfterLine(numbers[(l + 1) - 1], nexts[(l + 1) - 1], definitionFile[l + 1], numbers[l + 1],
                    nexts[l + 1])
      BY <1>4, <3>1 DEF ReadUpTo
    <3>3. AfterLine(dictionary[r], m_nextId[r], c, numbers[l + 1], nexts[l + 1])
      BY <1>2, <1>5, <3>1, <3>2
    <3>4. numbers[l + 1] = d2 /\ nexts[l + 1] = next2
      BY <1>3, <3>3, AfterLineIsUnique
    <3> QED
      BY <1>7, <3>1, <3>4
  <2> QED
    BY <2>1, <2>2
<1>9. ReadUpTo(m2, numbers2, nexts2)
  <2>1. numbers2[0] = NoFunction /\ nexts2[0] = 1
    BY <1>4, <1>7 DEF ReadUpTo
  <2>2. ASSUME NEW k \in 1 .. m2
        PROVE  AfterLine(numbers2[k - 1], nexts2[k - 1], definitionFile[k], numbers2[k], nexts2[k])
    <3>1. CASE k \in 1 .. m
      <4>1. k \in 0 .. m /\ k - 1 \in 0 .. m
        BY <1>4, <3>1
      <4> QED
        BY <1>4, <1>7, <3>1, <4>1 DEF ReadUpTo
    <3>2. CASE k \notin 1 .. m
      <4>1. l = m /\ k = l + 1 /\ k - 1 = l
        BY <1>3, <1>4, <1>6, <3>2
      <4>2. numbers2[l] = dictionary[r] /\ nexts2[l] = m_nextId[r]
        BY <1>3, <1>5, <1>7
      <4> QED
        BY <1>2, <1>3, <1>8, <4>1, <4>2
    <3> QED
      BY <3>1, <3>2
  <2> QED
    BY <1>2, <1>7, <2>1, <2>2 DEF ReadUpTo
<1>10. ReadUpTo(m2, numbers2, nexts2)'
  BY <1>3, <1>9 DEF ReadUpTo, given
<1>11. ASSUME NEW q \in Ranks PROVE Follows(q, m2, numbers2, nexts2)'
  <2>1. CASE q = r
    BY <1>2, <1>3, <1>7, <1>8, <2>1 DEF Follows
  <2>2. CASE q # r
    <3>1. Follows(q, m, numbers, nexts) /\ line[q] \in 0 .. size
          /\ (pc[q] \notin {"read", "thrown"} => line[q] = size)
      BY <1>1, <1>2 DEF Common, DefinitionsInv, RankOK
    <3>2. /\ pc'[q] = pc[q] /\ line'[q] = line[q] /\ dictionary'[q] = dictionary[q]
          /\ m_nextId'[q] = m_nextId[q] /\ Len(definitionFile') = size
      BY <1>2, <1>3, <2>2 DEF given
    <3>3. line[q] <= m => numbers2[line[q]] = numbers[line[q]] /\ nexts2[line[q]] = nexts[line[q]]
      BY <1>7, <3>1
    <3>4. pc[q] = "read" => line[q] <= m2
      BY <1>4, <1>7, <3>1 DEF Follows
    <3>5. pc[q] \notin {"read", "thrown"} => /\ line[q] <= m /\ m = size /\ m2 = size
                                             /\ Extends(dictionary[q], numbers2[m2])
      <4>1. ASSUME pc[q] \notin {"read", "thrown"}
            PROVE  /\ m = size /\ m2 = size /\ line[q] <= m
                   /\ Extends(dictionary[q], numbers2[m2])
        <5>1. m = size /\ m2 = m /\ Extends(dictionary[q], numbers[m]) /\ line[q] <= m
          BY <1>2, <1>4, <1>7, <3>1, <4>1 DEF Follows
        <5>2. numbers2[m] = numbers[m]
          BY <1>4, <1>7
        <5> QED
          BY <5>1, <5>2
      <4> QED
        BY <4>1
    <3>6. pc[q] = "read" \/ (q = Outputter /\ pc[q] # "thrown") =>
             dictionary[q] = numbers2[line[q]] /\ m_nextId[q] = nexts2[line[q]]
      BY <3>1, <3>3, <3>5 DEF Follows
    <3> QED
      BY <3>2, <3>4, <3>5, <3>6 DEF Follows
  <2> QED
    BY <2>1, <2>2
<1>12. Outputter \in Ranks
  BY DEF Ranks
<1>13. (IF pc[Outputter] = "run" THEN head.parameters = numbers2[m2]
                                 ELSE DOMAIN head.parameters = {})'
  <2>1. CASE pc'[Outputter] = "run"
    <3>1. pc[Outputter] = "run" /\ r # Outputter
      BY <1>3, <1>12, <2>1
    <3>2. m = size /\ m2 = m /\ numbers2[m2] = numbers[m]
      BY <1>1, <1>2, <1>4, <1>7, <1>12, <3>1 DEF Common, Follows
    <3> QED
      BY <1>1, <1>3, <2>1, <3>1, <3>2 DEF Common
  <2>2. CASE pc'[Outputter] # "run"
    <3>1. pc[Outputter] # "run"
      BY <1>3, <1>12, <2>2
    <3> QED
      BY <1>1, <1>3, <2>2, <3>1 DEF Common
  <2> QED
    BY <2>1, <2>2
<1>14. ASSUME NEW e \in written PROVE m2 = size /\ SentAs(e, numbers2[m2])
  <2>1. m = size /\ SentAs(e, numbers[m])
    BY <1>1, <1>2 DEF Common
  <2> QED
    BY <1>4, <1>7, <2>1
<1>15. Common(m2, numbers2, nexts2)'
  BY <1>2, <1>3, <1>10, <1>11, <1>13, <1>14 DEF Common, given, Ranks
<1> QED
  BY <1>15 DEF ReadInCommon

LEMMA MentionedNext ==
    ASSUME NEW l \in Nat, NEW n
    PROVE  Mentioned(l + 1, n)
             <=> \/ Mentioned(l, n)
                 \/ /\ definitionFile[l + 1].what = "treevariable"
                    /\ definitionFile[l + 1].name = n
<1>1. \A k : k \in 1 .. l + 1 <=> (k \in 1 .. l \/ k = l + 1)
  OBVIOUS
<1> QED
  BY <1>1 DEF Mentioned

LEMMA LastDefinedNext ==
    ASSUME NEW l \in Nat, NEW n, NEW v
    PROVE  /\ definitionFile[l + 1] = [what |-> "treevariable", name |-> n, value |-> v]
                => LastDefined(l + 1, n, v)
           /\ /\ LastDefined(l, n, v)
              /\ definitionFile[l + 1].what = "treevariable" => definitionFile[l + 1].name # n
              => LastDefined(l + 1, n, v)
<1>1. ASSUME definitionFile[l + 1] = [what |-> "treevariable", name |-> n, value |-> v]
      PROVE  LastDefined(l + 1, n, v)
  <2>1. l + 1 \in 1 .. l + 1 /\ (l + 1) + 1 .. l + 1 = {}
    OBVIOUS
  <2> QED
    BY <1>1, <2>1 DEF LastDefined
<1>2. ASSUME LastDefined(l, n, v),
             definitionFile[l + 1].what = "treevariable" => definitionFile[l + 1].name # n
      PROVE  LastDefined(l + 1, n, v)
  <2>1. PICK k \in 1 .. l :
           /\ definitionFile[k] = [what |-> "treevariable", name |-> n, value |-> v]
           /\ \A j \in k + 1 .. l :
                 definitionFile[j].what = "treevariable" => definitionFile[j].name # n
    BY <1>2 DEF LastDefined
  <2>2. k \in 1 .. l + 1 /\ \A j \in k + 1 .. l + 1 : j \in k + 1 .. l \/ j = l + 1
    OBVIOUS
  <2>3. \A j \in k + 1 .. l + 1 :
           definitionFile[j].what = "treevariable" => definitionFile[j].name # n
    BY <1>2, <2>1, <2>2
  <2> QED
    BY <2>1, <2>2, <2>3 DEF LastDefined
<1> QED
  BY <1>1, <1>2

LEMMA ReadLineKeeps ==
    ASSUME DefinitionsInv, NEW r \in Ranks, ReadLine(r)
    PROVE  DefinitionsInv'
<1>1. PICK l, c, size : /\ l = line[r] /\ c = definitionFile[l + 1]
                        /\ size = Len(definitionFile)
  OBVIOUS
<1>2. /\ pc[r] = "read" /\ l < size /\ l \in Nat /\ c \in Lines
      /\ UNCHANGED <<given, m_parameterMap, m_variableMap, event, input, head, written,
                     taken, steered>>
      /\ line'[r] = l + 1
      /\ AfterLine(dictionary[r], m_nextId[r], c, dictionary'[r], m_nextId'[r])
      /\ variables'[r] = IF c.what = "treevariable" THEN With(variables[r], c.name, c.value)
                                                    ELSE variables[r]
      /\ pc'[r] = IF c.what = "error" THEN "thrown" ELSE "read"
      /\ \A q \in Ranks \ {r} : /\ pc'[q] = pc[q] /\ line'[q] = line[q]
                                /\ dictionary'[q] = dictionary[q]
                                /\ m_nextId'[q] = m_nextId[q]
                                /\ variables'[q] = variables[q]
      /\ DOMAIN dictionary' = Ranks /\ DOMAIN variables' = Ranks
      /\ pc' = [q \in Ranks |-> pc'[q]] /\ line' = [q \in Ranks |-> line'[q]]
      /\ m_nextId' = [q \in Ranks |-> m_nextId'[q]]
  BY <1>1, ReadLineDoes
<1>3. /\ Shape /\ HeadOK /\ size \in Nat
      /\ \A q \in Ranks : RankOK(q)
      /\ \A w \in Workers : WorkerOK(w)
  <2>1. definitionFile \in Seq(Lines)
    BY DefinitionsAssumption DEF DefinitionsInv, Shape
  <2> QED
    BY <1>1, <2>1 DEF DefinitionsInv
<1>4. Numbering(dictionary'[r], m_nextId'[r]) /\ Extends(dictionary'[r], dictionary[r])
  BY <1>2, <1>3, AfterLineNumbers DEF RankOK
<1>5. Shape'
  <2>1. DOMAIN pc' = Ranks /\ DOMAIN line' = Ranks /\ DOMAIN m_nextId' = Ranks
    BY <1>2
  <2> QED
    BY <1>2, <1>3, <2>1 DEF Shape, given, Ranks
<1>6. VariablesFollow(r)'
  <2>1. VariablesFollow(r) /\ IsVariables(variables[r])
    BY <1>3 DEF RankOK, VariablesFollow
  <2>2. definitionFile' = definitionFile /\ steered' = steered
    BY <1>2 DEF given
  <2>3. \A n, v : /\ Mentioned(l + 1, n)' <=> Mentioned(l + 1, n)
                  /\ LastDefined(l + 1, n, v)' <=> LastDefined(l + 1, n, v)
                  /\ Steers(r, n)' <=> Steers(r, n)
    BY <2>2 DEF Mentioned, LastDefined, Steers
  <2>4. CASE c.what = "treevariable"
    <3>1. /\ c.name \in Variables /\ c.value \in Values
          /\ c = [what |-> "treevariable", name |-> c.name, value |-> c.value]
      BY <1>2, <2>4, LineKinds
    <3>2. /\ DOMAIN variables'[r] = DOMAIN variables[r] \union {c.name}
          /\ variables'[r][c.name] = c.value
          /\ \A n \in DOMAIN variables[r] \ {c.name} : variables'[r][n] = variables[r][n]
      BY <1>2, <2>4 DEF With
    <3>3. IsVariables(variables'[r])
      BY <2>1, <3>1, <3>2 DEF IsVariables
    <3>4. LastDefined(l + 1, c.name, c.value) /\ Mentioned(l + 1, c.name)
      BY <1>1, <1>2, <2>4, <3>1, LastDefinedNext, MentionedNext
    <3>5. ASSUME NEW n \in Variables, Mentioned(l + 1, n), ~ Steers(r, n)
          PROVE  n \in DOMAIN variables'[r] /\ LastDefined(l + 1, n, variables'[r][n])
      <4>1. CASE n = c.name
        BY <3>2, <3>4, <4>1
      <4>2. CASE n # c.name
        <5>1. Mentioned(l, n)
          BY <1>1, <1>2, <3>5, <4>2, MentionedNext
        <5>2. n \in DOMAIN variables[r] /\ LastDefined(l, n, variables[r][n])
          BY <1>1, <2>1, <3>5, <5>1 DEF VariablesFollow
        <5>3. LastDefined(l + 1, n, variables[r][n])
          BY <1>1, <1>2, <4>2, <5>2, LastDefinedNext
        <5> QED
          BY <3>2, <4>2, <5>2, <5>3
      <4> QED
        BY <4>1, <4>2
    <3>6. ASSUME r = Outputter, NEW n \in DOMAIN variables'[r] PROVE Mentioned(l + 1, n)
      <4>1. CASE n = c.name
        BY <3>4, <4>1
      <4>2. CASE n # c.name
        <5>1. Mentioned(l, n)
          BY <1>1, <2>1, <3>2, <3>6, <4>2 DEF VariablesFollow
        <5> QED
          BY <1>2, <5>1, MentionedNext
      <4> QED
        BY <4>1, <4>2
    <3> QED
      BY <1>2, <2>3, <3>3, <3>5, <3>6 DEF VariablesFollow, IsVariables
  <2>5. CASE c.what # "treevariable"
    <3>1. variables'[r] = variables[r]
      BY <1>2, <2>5
    <3>2. \A n : Mentioned(l + 1, n) <=> Mentioned(l, n)
      BY <1>1, <1>2, <2>5, MentionedNext
    <3>3. \A n, v : LastDefined(l, n, v) => LastDefined(l + 1, n, v)
      BY <1>1, <1>2, <2>5, LastDefinedNext
    <3> QED
      BY <1>1, <1>2, <2>1, <2>3, <3>1, <3>2, <3>3 DEF VariablesFollow, IsVariables
  <2> QED
    BY <2>4, <2>5
<1>7. ASSUME NEW q \in Ranks PROVE RankOK(q)'
  <2>1. CASE q = r
    <3>1. /\ pc'[r] \in {"read", "thrown"} /\ l + 1 \in 0 .. size /\ line'[r] = l + 1
          /\ Len(definitionFile') = size
      BY <1>1, <1>2, <1>3 DEF given
    <3> QED
      BY <1>4, <1>6, <2>1, <3>1 DEF RankOK
  <2>2. CASE q # r
    <3>1. RankOK(q)
      BY <1>3
    <3>2. /\ pc'[q] = pc[q] /\ line'[q] = line[q] /\ dictionary'[q] = dictionary[q]
          /\ m_nextId'[q] = m_nextId[q] /\ variables'[q] = variables[q]
          /\ UNCHANGED <<definitionFile, steered>>
      BY <1>2, <2>2 DEF given
    <3> QED
      BY <3>1, <3>2 DEF RankOK, VariablesFollow, Mentioned, LastDefined, Steers
  <2> QED
    BY <2>1, <2>2
<1>8. ASSUME NEW w \in Workers PROVE WorkerOK(w)'
  <2>1. /\ WorkerOK(w)
        /\ UNCHANGED <<inputParameters, m_parameterMap, m_variableMap, event, input, steered>>
    BY <1>2, <1>3 DEF given
  <2>2. DOMAIN dictionary[w] \subseteq DOMAIN dictionary'[w]
    BY <1>2, <1>4 DEF Ranks, Extends
  <2>3. pc'[w] \in {"vars", "ready", "process"} => pc[w] \in {"vars", "ready", "process"}
    BY <1>2 DEF Ranks
  <2> QED
    BY <2>1, <2>2, <2>3 DEF WorkerOK, MapOf, MapSize
<1>9. HeadOK'
  <2>1. pc'[Outputter] = "run" => /\ pc[Outputter] = "run"
                                  /\ variables'[Outputter] = variables[Outputter]
    BY <1>2 DEF Ranks
  <2> QED
    BY <1>2, <1>3, <2>1 DEF HeadOK
<1>10. ReadInCommon'
  BY ReadLineCommon
<1> QED
  BY <1>5, <1>7, <1>8, <1>9, <1>10 DEF DefinitionsInv, Ranks
-----------------------------------------------------------------------------
(***************************************************************************)
(* The end of the definition file, and the head of the output file.        *)
(***************************************************************************)
LEMMA ReadDoneKeeps ==
    ASSUME DefinitionsInv, NEW r \in Ranks, ReadDone(r)
    PROVE  DefinitionsInv'
<1>1. /\ pc[r] = "read" /\ line[r] = Len(definitionFile) /\ pc' = [pc EXCEPT ![r] = "construct"]
      /\ UNCHANGED <<given, line, dictionary, m_nextId, variables, m_parameterMap,
                     m_variableMap, event, input, head, written, taken, steered>>
  BY DEF ReadDone
<1>2. /\ Shape /\ HeadOK
      /\ \A q \in Ranks : RankOK(q)
      /\ \A w \in Workers : WorkerOK(w)
  BY DEF DefinitionsInv
<1>3. /\ pc'[r] = "construct" /\ \A q \in Ranks \ {r} : pc'[q] = pc[q]
      /\ DOMAIN pc' = Ranks /\ pc' = [q \in Ranks |-> pc'[q]]
  BY <1>1, <1>2 DEF Shape
<1>4. Shape'
  BY <1>1, <1>2, <1>3 DEF Shape, given
<1>5. ASSUME NEW q \in Ranks PROVE RankOK(q)'
  <2>1. RankOK(q) /\ VariablesFollow(q)'
    BY <1>1, <1>2 DEF RankOK, VariablesFollow, Mentioned, LastDefined, Steers, given
  <2>2. q = r => line[q] = Len(definitionFile)
    BY <1>1
  <2> QED
    BY <1>1, <1>3, <2>1, <2>2 DEF RankOK, given
<1>6. ASSUME NEW w \in Workers PROVE WorkerOK(w)'
  <2>1. WorkerOK(w)
    BY <1>2
  <2>2. pc'[w] \in {"vars", "ready", "process"} => pc[w] \in {"vars", "ready", "process"}
    BY <1>3 DEF Ranks
  <2> QED
    BY <1>1, <2>1, <2>2 DEF WorkerOK, MapOf, MapSize, given
<1>7. Outputter \in Ranks /\ (pc'[Outputter] = "run" <=> pc[Outputter] = "run")
  BY <1>1, <1>3 DEF Ranks
<1>8. HeadOK'
  BY <1>1, <1>2, <1>7 DEF HeadOK
<1>9. ReadInCommon'
  <2>1. PICK m, numbers, nexts : Common(m, numbers, nexts)
    BY DEF DefinitionsInv, ReadInCommon
  <2>2. definitionFile \in Seq(Lines)
    BY <1>2, DefinitionsAssumption DEF Shape
  <2>3. ASSUME NEW q \in Ranks PROVE Follows(q, m, numbers, nexts)'
    <3>1. Follows(q, m, numbers, nexts)
      BY <2>1 DEF Common
    <3>2. CASE q = r
      <4>1. line[r] <= m /\ dictionary[r] = numbers[line[r]] /\ m_nextId[r] = nexts[line[r]]
        BY <1>1, <3>1, <3>2 DEF Follows
      <4>2. m = Len(definitionFile)
        BY <1>1, <2>1, <2>2, <4>1 DEF Common, ReadUpTo
      <4>3. Extends(dictionary[r], numbers[m])
        BY <1>1, <4>1, <4>2 DEF Extends
      <4> QED
        BY <1>1, <1>3, <3>2, <4>1, <4>2, <4>3 DEF Follows, given
    <3>3. CASE q # r
      BY <1>1, <1>3, <3>1, <3>3 DEF Follows, given
    <3> QED
      BY <3>2, <3>3
  <2>4. ReadUpTo(m, numbers, nexts)'
    BY <1>1, <2>1 DEF Common, ReadUpTo, given
  <2>5. Common(m, numbers, nexts)'
    BY <1>1, <1>7, <2>1, <2>3, <2>4 DEF Common, given
  <2> QED
    BY <2>5 DEF ReadInCommon
<1> QED
  BY <1>4, <1>5, <1>6, <1>8, <1>9 DEF DefinitionsInv

LEMMA OpenOutputKeeps ==
    ASSUME DefinitionsInv, OpenOutput
    PROVE  DefinitionsInv'
<1>1. /\ pc[Outputter] = "construct" /\ pc' = [pc EXCEPT ![Outputter] = "run"]
      /\ head'.parameters = dictionary[Outputter] /\ head'.variables = variables[Outputter]
      /\ UNCHANGED <<given, line, dictionary, m_nextId, variables, m_parameterMap,
                     m_variableMap, event, input, written, taken, steered>>
  BY DEF OpenOutput
<1>2. /\ Shape
      /\ \A q \in Ranks : RankOK(q)
      /\ \A w \in Workers : WorkerOK(w)
  BY DEF DefinitionsInv
<1>3. /\ pc'[Outputter] = "run" /\ \A q \in Ranks \ {Outputter} : pc'[q] = pc[q]
      /\ DOMAIN pc' = Ranks /\ pc' = [q \in Ranks |-> pc'[q]]
      /\ Outputter \in Ranks /\ Outputter \notin Workers
  BY <1>1, <1>2, DefinitionsAssumption DEF Shape, Ranks
<1>4. Shape'
  BY <1>1, <1>2, <1>3 DEF Shape, given
<1>5. ASSUME NEW q \in Ranks PROVE RankOK(q)'
  <2>1. RankOK(q) /\ VariablesFollow(q)'
    BY <1>1, <1>2 DEF RankOK, VariablesFollow, Mentioned, LastDefined, Steers, given
  <2>2. q = Outputter => line[q] = Len(definitionFile)
    BY <1>1, <2>1 DEF RankOK
  <2> QED
    BY <1>1, <1>3, <2>1, <2>2 DEF RankOK, given
<1>6. ASSUME NEW w \in Workers PROVE WorkerOK(w)'
  <2>1. WorkerOK(w)
    BY <1>2
  <2>2. pc'[w] = pc[w]
    BY <1>3 DEF Ranks
  <2> QED
    BY <1>1, <2>1, <2>2 DEF WorkerOK, MapOf, MapSize, given
<1>7. HeadOK'
  <2>1. IsNumbering(dictionary[Outputter]) /\ IsVariables(variables[Outputter])
    BY <1>2, <1>3 DEF RankOK, Numbering, VariablesFollow
  <2> QED
    BY <1>1, <2>1 DEF HeadOK
<1>8. ReadInCommon'
  <2>1. PICK m, numbers, nexts : Common(m, numbers, nexts)
    BY DEF DefinitionsInv, ReadInCommon
  <2>2. ASSUME NEW q \in Ranks PROVE Follows(q, m, numbers, nexts)'
    <3>1. Follows(q, m, numbers, nexts)
      BY <2>1 DEF Common
    <3> QED
      BY <1>1, <1>3, <3>1 DEF Follows, given
  <2>3. ReadUpTo(m, numbers, nexts)'
    BY <1>1, <2>1 DEF Common, ReadUpTo, given
  <2>4. head'.parameters = numbers[m]
    <3>1. Follows(Outputter, m, numbers, nexts) /\ line[Outputter] = Len(definitionFile)
      BY <1>1, <1>2, <1>3, <2>1 DEF Common, RankOK
    <3> QED
      BY <1>1, <3>1 DEF Follows
  <2>5. Common(m, numbers, nexts)'
    BY <1>1, <1>3, <2>1, <2>2, <2>3, <2>4 DEF Common, given
  <2> QED
    BY <2>5 DEF ReadInCommon
<1> QED
  BY <1>4, <1>5, <1>6, <1>7, <1>8 DEF DefinitionsInv
-----------------------------------------------------------------------------
(***************************************************************************)
(* The steps of a worker that has read the definition file.                *)
(***************************************************************************)
OnlyOf(w) ==
    /\ pc[w] \notin {"read", "thrown"}
    /\ UNCHANGED <<given, line, head>>
    /\ \A q \in Ranks \ {w} : /\ pc'[q] = pc[q] /\ dictionary'[q] = dictionary[q]
                              /\ m_nextId'[q] = m_nextId[q] /\ variables'[q] = variables[q]
    /\ \A q \in Workers \ {w} : /\ m_parameterMap'[q] = m_parameterMap[q]
                                /\ m_variableMap'[q] = m_variableMap[q]
                                /\ event'[q] = event[q] /\ input'[q] = input[q]
                                /\ steered'[q] = steered[q]

LEMMA WorkerKeeps ==
    ASSUME DefinitionsInv, NEW w \in Workers, OnlyOf(w), Shape',
           pc'[w] \in {"construct", "params", "vars", "ready", "process", "thrown"},
           Numbering(dictionary'[w], m_nextId'[w]), Extends(dictionary'[w], dictionary[w]),
           VariablesFollow(w)', WorkerOK(w)',
           \A e \in written' :
              \/ e \in written
              \/ /\ DOMAIN e.meant \subseteq DOMAIN dictionary[w]
                 /\ e.sent = {<<dictionary[w][n], e.meant[n]>> : n \in DOMAIN e.meant}
    PROVE  DefinitionsInv'
<1>1. /\ HeadOK
      /\ \A q \in Ranks : RankOK(q)
      /\ \A v \in Workers : WorkerOK(v)
      /\ w \in Ranks /\ Outputter \in Ranks /\ Outputter # w
  BY DefinitionsAssumption DEF DefinitionsInv, Ranks
<1>2. ASSUME NEW q \in Ranks PROVE RankOK(q)'
  <2>1. RankOK(q)
    BY <1>1
  <2>2. CASE q = w
    BY <2>1, <2>2 DEF OnlyOf, RankOK, given
  <2>3. CASE q # w
    <3>1. q \in Workers => steered'[q] = steered[q]
      BY <2>3 DEF OnlyOf
    <3>2. /\ pc'[q] = pc[q] /\ dictionary'[q] = dictionary[q] /\ m_nextId'[q] = m_nextId[q]
          /\ variables'[q] = variables[q] /\ line' = line /\ definitionFile' = definitionFile
      BY <2>3 DEF OnlyOf, given
    <3>3. VariablesFollow(q)'
      BY <2>1, <3>1, <3>2 DEF RankOK, VariablesFollow, Mentioned, LastDefined, Steers
    <3> QED
      BY <2>1, <3>2, <3>3 DEF RankOK
  <2> QED
    BY <2>2, <2>3
<1>3. ASSUME NEW v \in Workers PROVE WorkerOK(v)'
  <2>1. CASE v = w
    BY <2>1 DEF WorkerOK
  <2>2. CASE v # w
    <3>1. /\ pc'[v] = pc[v] /\ dictionary'[v] = dictionary[v] /\ inputParameters' = inputParameters
          /\ m_parameterMap'[v] = m_parameterMap[v] /\ m_variableMap'[v] = m_variableMap[v]
          /\ event'[v] = event[v] /\ input'[v] = input[v] /\ steered'[v] = steered[v]
      BY <2>2 DEF OnlyOf, given, Ranks
    <3>2. inputParameters' = inputParameters
      BY <3>1
    <3>3. MapOf(inputParameters)' = MapOf(inputParameters)
      BY <3>2 DEF MapOf, MapSize
    <3>4. WorkerOK(v)
      BY <1>1
    <3> QED
      BY <3>1, <3>3, <3>4 DEF WorkerOK
  <2> QED
    BY <2>1, <2>2
<1>4. pc'[Outputter] = pc[Outputter] /\ variables'[Outputter] = variables[Outputter] /\ head' = head
  BY <1>1 DEF OnlyOf
<1>5. HeadOK'
  BY <1>1, <1>4 DEF HeadOK
<1>6. ReadInCommon'
  <2>1. PICK m, numbers, nexts : Common(m, numbers, nexts)
    BY DEF DefinitionsInv, ReadInCommon
  <2>2. m = Len(definitionFile) /\ Extends(dictionary[w], numbers[m])
    BY <1>1, <2>1 DEF Common, Follows, OnlyOf
  <2>3. Extends(dictionary'[w], numbers[m])
    BY <2>2 DEF Extends
  <2>4. ASSUME NEW q \in Ranks PROVE Follows(q, m, numbers, nexts)'
    <3>1. Follows(q, m, numbers, nexts)
      BY <2>1 DEF Common
    <3>2. CASE q = w
      BY <1>1, <2>2, <2>3, <3>2 DEF Follows, OnlyOf, given
    <3>3. CASE q # w
      BY <3>1, <3>3 DEF Follows, OnlyOf, given
    <3> QED
      BY <3>2, <3>3
  <2>5. ReadUpTo(m, numbers, nexts)'
    BY <2>1 DEF Common, ReadUpTo, OnlyOf, given
  <2>6. ASSUME NEW e \in written' PROVE SentAs(e, numbers[m])
    <3>1. CASE e \in written
      BY <2>1, <3>1 DEF Common
    <3>2. CASE e \notin written
      BY <1>1, <2>2, <3>2 DEF SentAs, RankOK
    <3> QED
      BY <3>1, <3>2
  <2>7. Common(m, numbers, nexts)'
    BY <1>4, <2>1, <2>2, <2>4, <2>5, <2>6 DEF Common, OnlyOf, given
  <2> QED
    BY <2>7 DEF ReadInCommon
<1> QED
  BY <1>2, <1>3, <1>5, <1>6 DEF DefinitionsInv

\* What most steps leave alone.
LEMMA SameNumbers ==
    ASSUME DefinitionsInv, NEW w \in Workers, UNCHANGED <<dictionary, m_nextId>>
    PROVE  Numbering(dictionary'[w], m_nextId'[w]) /\ Extends(dictionary'[w], dictionary[w])
BY DEF DefinitionsInv, RankOK, Extends, Ranks

LEMMA SameVariables ==
    ASSUME DefinitionsInv, NEW w \in Workers, UNCHANGED <<definitionFile, line, variables, steered>>
    PROVE  VariablesFollow(w)'
BY DEF DefinitionsInv, RankOK, Ranks, VariablesFollow, Mentioned, LastDefined, Steers

LEMMA SameMaps ==
    ASSUME DefinitionsInv, NEW w \in Workers,
           UNCHANGED <<inputParameters, m_parameterMap, m_variableMap, event, input>>,
           Extends(dictionary'[w], dictionary[w]), steered'[w] \subseteq Variables,
           pc'[w] \in {"vars", "ready", "process"} => pc[w] \in {"vars", "ready", "process"}
    PROVE  WorkerOK(w)'
<1>1. WorkerOK(w)
  BY DEF DefinitionsInv
<1>2. DOMAIN dictionary[w] \subseteq DOMAIN dictionary'[w]
  BY DEF Extends
<1> QED
  BY <1>1, <1>2 DEF WorkerOK, MapOf, MapSize

LEMMA NamesMade ==
    ASSUME DefinitionsInv, NEW w \in Workers, NEW names \in Seq(Parameters),
           MakeParameters(w, m_nextId[w], names) \/ MakeArray(w, names)
    PROVE  /\ Numbering(dictionary'[w], m_nextId'[w]) /\ Extends(dictionary'[w], dictionary[w])
           /\ DOMAIN dictionary'[w] = DOMAIN dictionary[w] \union {names[k] : k \in DOMAIN names}
           /\ \A q \in Ranks \ {w} : dictionary'[q] = dictionary[q] /\ m_nextId'[q] = m_nextId[q]
           /\ DOMAIN dictionary' = Ranks /\ DOMAIN m_nextId' = Ranks
           /\ m_nextId' = [q \in Ranks |-> m_nextId'[q]]
<1>1. /\ Shape /\ Numbering(dictionary[w], m_nextId[w]) /\ w \in Ranks
  BY DEF DefinitionsInv, RankOK, Ranks
<1>2. Numbering(dictionary[w], m_nextId[w] + 1)
  BY <1>1 DEF Numbering, IsNumbering
<1>3. PICK next : Numbering(dictionary[w], next) /\ MakeParameters(w, next, names)
  BY <1>1, <1>2 DEF MakeArray
<1>4. /\ dictionary'[w] = AllDefined(dictionary[w], next, names)
      /\ m_nextId'[w] = NextAfter(dictionary[w], next, names)
  BY <1>1, <1>3 DEF MakeParameters, Shape, NextAfter, New
<1>5. /\ \A q \in Ranks \ {w} : dictionary'[q] = dictionary[q] /\ m_nextId'[q] = m_nextId[q]
      /\ DOMAIN dictionary' = Ranks /\ DOMAIN m_nextId' = Ranks
      /\ m_nextId' = [q \in Ranks |-> m_nextId'[q]]
  BY <1>1, <1>3 DEF MakeParameters, Shape
<1>6. PICK d, e : d = dictionary[w] /\ e = dictionary'[w]
  OBVIOUS
<1>7. Numbering(d, next) /\ e = AllDefined(d, next, names)
  BY <1>3, <1>4, <1>6
<1>8. /\ Numbering(e, NextAfter(d, next, names)) /\ Extends(e, d)
      /\ DOMAIN e = DOMAIN d \union {names[k] : k \in DOMAIN names}
  BY <1>7, DefinedNumbers
<1> QED
  BY <1>4, <1>5, <1>6, <1>8
-----------------------------------------------------------------------------
(***************************************************************************)
(* The map from the numbers of the input file.                             *)
(***************************************************************************)
LEMMA MapFacts ==
    ASSUME NEW defs \in InputParameters, defs # <<>>
    PROVE  /\ \A id \in DOMAIN MapOf(defs) :
                 /\ id \in Nat
                 /\ \/ MapOf(defs)[id] = NoParameter
                    \/ \E k \in DOMAIN defs : /\ defs[k].s_parameterId = id
                                              /\ MapOf(defs)[id] = defs[k].s_name
           /\ \A k \in DOMAIN defs : /\ defs[k].s_parameterId \in DOMAIN MapOf(defs)
                                     /\ MapOf(defs)[defs[k].s_parameterId] = defs[k].s_name
           /\ \A k \in DOMAIN defs : defs[k].s_name \in Parameters
<1>1. defs \in Seq(ParameterDef) /\ OneToOne(defs)
  BY DefinitionsAssumption
<1>2. /\ DOMAIN defs = 1 .. Len(defs) /\ Len(defs) \in Nat \ {0}
      /\ \A k \in DOMAIN defs : defs[k].s_parameterId \in Nat /\ defs[k].s_name \in Parameters
  <2>1. \A k \in DOMAIN defs : defs[k] \in ParameterDef
    BY <1>1
  <2>2. \A p \in ParameterDef : p.s_parameterId \in Nat /\ p.s_name \in Parameters
    BY DEF ParameterDef
  <2> QED
    BY <1>1, <2>1, <2>2
<1>3. PICK l \in DOMAIN defs : \A k \in DOMAIN defs : defs[k].s_parameterId <= defs[l].s_parameterId
  <2>1. PICK n, f : n = Len(defs) /\ f = [k \in 1 .. n |-> defs[k].s_parameterId]
    OBVIOUS
  <2>2. n \in Nat \ {0} /\ f \in [1 .. n -> Nat]
    BY <1>2, <2>1
  <2>3. PICK k \in 1 .. n : \A i \in 1 .. n : f[i] <= f[k]
    BY <2>2, Largest
  <2> QED
    BY <1>2, <2>1, <2>3
<1>4. PICK size : size = MapSize(defs)
  OBVIOUS
<1>5. size \in Nat /\ \A k \in DOMAIN defs : defs[k].s_parameterId \in 0 .. size - 1
  <2> DEFINE Ids == {defs[k].s_parameterId : k \in DOMAIN defs}
             Greatest(id) == \A k \in DOMAIN defs : defs[k].s_parameterId <= id
  <2>1. defs[l].s_parameterId \in Ids /\ Greatest(defs[l].s_parameterId)
    BY <1>3
  <2>2. PICK top : top = CHOOSE id \in Ids : Greatest(id)
    OBVIOUS
  <2>3. top \in Ids /\ Greatest(top)
    <3> HIDE DEF Ids, Greatest
    <3> QED
      BY <2>1, <2>2
  <2>4. size = 1 + top
    BY <1>4, <2>2 DEF MapSize
  <2>5. top \in Nat
    BY <1>2, <2>3
  <2>6. \A k \in DOMAIN defs : defs[k].s_parameterId <= top
    BY <2>3
  <2> QED
    BY <1>2, <2>4, <2>5, <2>6
<1>6. PICK map : map = MapOf(defs)
  OBVIOUS
<1>7. map = [id \in 0 .. size - 1 |->
                IF \E k \in DOMAIN defs : defs[k].s_parameterId = id
                THEN defs[CHOOSE k \in DOMAIN defs : defs[k].s_parameterId = id].s_name
                ELSE NoParameter]
  BY <1>4, <1>6 DEF MapOf
<1>8. ASSUME NEW id \in DOMAIN map
      PROVE  /\ id \in Nat
             /\ \/ map[id] = NoParameter
                \/ \E k \in DOMAIN defs : defs[k].s_parameterId = id /\ map[id] = defs[k].s_name
  <2>1. id \in Nat
    BY <1>5, <1>7
  <2>2. CASE \E k \in DOMAIN defs : defs[k].s_parameterId = id
    <3>1. PICK k : k = CHOOSE i \in DOMAIN defs : defs[i].s_parameterId = id
      OBVIOUS
    <3>2. k \in DOMAIN defs /\ defs[k].s_parameterId = id
      BY <2>2, <3>1
    <3>3. map[id] = defs[k].s_name
      BY <1>7, <2>2, <3>1
    <3> QED
      BY <2>1, <3>2, <3>3
  <2>3. CASE ~ \E k \in DOMAIN defs : defs[k].s_parameterId = id
    BY <1>7, <2>1, <2>3
  <2> QED
    BY <2>2, <2>3
<1>9. ASSUME NEW k \in DOMAIN defs
      PROVE  defs[k].s_parameterId \in DOMAIN map /\ map[defs[k].s_parameterId] = defs[k].s_name
  <2>1. PICK id : id = defs[k].s_parameterId
    OBVIOUS
  <2>2. id \in 0 .. size - 1
    BY <1>5, <2>1
  <2>3. PICK i : i = CHOOSE j \in DOMAIN defs : defs[j].s_parameterId = id
    OBVIOUS
  <2>4. i \in DOMAIN defs /\ defs[i].s_parameterId = id
    BY <2>1, <2>3
  <2>5. i = k
    BY <1>1, <2>1, <2>4 DEF OneToOne
  <2>6. map[id] = defs[i].s_name
    BY <1>7, <2>1, <2>2, <2>3
  <2> QED
    BY <1>7, <2>1, <2>2, <2>5, <2>6
<1> QED
  BY <1>2, <1>6, <1>8, <1>9

\* What is loaded with it is what the input file has, by name.
LEMMA LoadedValues ==
    ASSUME NEW defs \in InputParameters, defs # <<>>, NEW e \in InputEvents,
           NEW loaded, loaded = Loaded(MapOf(defs), e)
    PROVE  /\ IsEvent(loaded)
           /\ \A n \in DOMAIN loaded :
                 \E k \in DOMAIN defs : /\ defs[k].s_parameterId \in DOMAIN e
                                        /\ n = defs[k].s_name
                                        /\ loaded[n] = e[defs[k].s_parameterId]
           /\ \A k \in DOMAIN defs :
                 defs[k].s_parameterId \in DOMAIN e =>
                    defs[k].s_name \in DOMAIN loaded
<1>1. PICK map : map = MapOf(defs)
  OBVIOUS
<1>2. /\ \A id \in DOMAIN map :
            \/ map[id] = NoParameter
            \/ \E k \in DOMAIN defs : defs[k].s_parameterId = id /\ map[id] = defs[k].s_name
      /\ \A k \in DOMAIN defs : /\ defs[k].s_parameterId \in DOMAIN map
                                /\ map[defs[k].s_parameterId] = defs[k].s_name
      /\ \A k \in DOMAIN defs : defs[k].s_name \in Parameters
  BY <1>1, MapFacts
<1> DEFINE Mapped == {k \in DOMAIN e \intersect DOMAIN map : map[k] # NoParameter}
<1>3. loaded = [n \in {map[k] : k \in Mapped} |-> e[CHOOSE k \in Mapped : map[k] = n]]
  BY <1>1 DEF Loaded
<1>4. ASSUME NEW n \in DOMAIN loaded
      PROVE  \E k \in DOMAIN defs : /\ defs[k].s_parameterId \in DOMAIN e
                                    /\ n = defs[k].s_name
                                    /\ loaded[n] = e[defs[k].s_parameterId]
  <2>1. PICK id : id = CHOOSE k \in Mapped : map[k] = n
    OBVIOUS
  <2>2. n \in {map[k] : k \in Mapped} /\ loaded[n] = e[id]
    BY <1>3, <2>1
  <2>3. id \in Mapped /\ map[id] = n
    BY <2>1, <2>2
  <2>4. PICK k \in DOMAIN defs : defs[k].s_parameterId = id /\ map[id] = defs[k].s_name
    BY <1>2, <2>3
  <2> QED
    BY <2>2, <2>3, <2>4
<1>5. ASSUME NEW k \in DOMAIN defs, defs[k].s_parameterId \in DOMAIN e
      PROVE  defs[k].s_name \in DOMAIN loaded
  <2>1. defs[k].s_parameterId \in Mapped
    BY <1>2, <1>5, DefinitionsAssumption
  <2> QED
    BY <1>2, <1>3, <2>1
<1>6. IsEvent(loaded)
  <2>1. \A j \in DOMAIN e : e[j] \in Values
    BY DefinitionsAssumption
  <2> QED
    BY <1>2, <1>4, <2>1 DEF IsEvent
<1> QED
  BY <1>4, <1>5, <1>6
-----------------------------------------------------------------------------
(***************************************************************************)
(* User code.                                                              *)
(***************************************************************************)
LEMMA UserMakesKeeps ==
    ASSUME DefinitionsInv, NEW w \in Workers, NEW name \in UserParameters, UserMakes(w, name)
    PROVE  DefinitionsInv'
<1>1. /\ pc[w] \in {"construct", "process"}
      /\ MakeParameters(w, m_nextId[w], <<name>>) \/ MakeArray(w, <<name>>)
      /\ UNCHANGED <<given, pc, line, variables, m_parameterMap, m_variableMap, event, input,
                     head, written, taken, steered>>
  BY DEF UserMakes, UserCode
<1>2. <<name>> \in Seq(Parameters)
  BY DefinitionsAssumption
<1>3. /\ Numbering(dictionary'[w], m_nextId'[w]) /\ Extends(dictionary'[w], dictionary[w])
      /\ \A q \in Ranks \ {w} : dictionary'[q] = dictionary[q] /\ m_nextId'[q] = m_nextId[q]
      /\ DOMAIN dictionary' = Ranks /\ DOMAIN m_nextId' = Ranks
      /\ m_nextId' = [q \in Ranks |-> m_nextId'[q]]
  BY <1>1, <1>2, NamesMade
<1>4. Shape'
  BY <1>1, <1>3 DEF DefinitionsInv, Shape, given
<1>5. OnlyOf(w)
  BY <1>1, <1>3 DEF OnlyOf
<1>6. VariablesFollow(w)'
  BY <1>1, SameVariables DEF given
<1>7. WorkerOK(w)'
  <2>1. steered'[w] \subseteq Variables
    BY <1>1 DEF DefinitionsInv, WorkerOK
  <2> QED
    BY <1>1, <1>3, <2>1, SameMaps DEF given
<1> QED
  BY <1>1, <1>3, <1>4, <1>5, <1>6, <1>7, WorkerKeeps

LEMMA EventKeeps ==
    ASSUME DefinitionsInv, NEW w \in Workers, NEW e, pc[w] = "process",
           IsEvent(e), DOMAIN e \subseteq DOMAIN dictionary[w],
           event' = [event EXCEPT ![w] = e],
           UNCHANGED <<given, pc, line, dictionary, m_nextId, variables, m_parameterMap,
                       m_variableMap, input, head, written, taken, steered>>
    PROVE  DefinitionsInv'
<1>1. /\ event'[w] = e /\ \A q \in Workers \ {w} : event'[q] = event[q]
      /\ DOMAIN event' = Workers
  BY DEF DefinitionsInv, Shape
<1>2. Shape'
  BY <1>1 DEF DefinitionsInv, Shape, given
<1>3. OnlyOf(w)
  BY <1>1 DEF OnlyOf
<1>4. VariablesFollow(w)'
  BY SameVariables DEF given
<1>5. WorkerOK(w)'
  <2>1. WorkerOK(w)
    BY DEF DefinitionsInv
  <2>2. inputParameters' = inputParameters
    BY DEF given
  <2>3. MapOf(inputParameters)' = MapOf(inputParameters)
    BY <2>2 DEF MapOf, MapSize
  <2> QED
    BY <1>1, <2>1, <2>2, <2>3 DEF WorkerOK
<1> QED
  BY <1>2, <1>3, <1>4, <1>5, SameNumbers, WorkerKeeps

LEMMA UserAssignsKeeps ==
    ASSUME DefinitionsInv, NEW w \in Workers, NEW name \in UserParameters, NEW v \in Values,
           UserAssigns(w, name, v)
    PROVE  DefinitionsInv'
<1>1. PICK e : e = With(event[w], name, v)
  OBVIOUS
<1>2. WorkerOK(w)
  BY DEF DefinitionsInv
<1>3. /\ DOMAIN e = DOMAIN event[w] \union {name} /\ e[name] = v
      /\ \A n \in DOMAIN event[w] \ {name} : e[n] = event[w][n]
  BY <1>1 DEF With
<1>4. name \in Parameters /\ name \in DOMAIN dictionary[w]
  BY DefinitionsAssumption DEF UserAssigns
<1>5. IsEvent(e) /\ DOMAIN e \subseteq DOMAIN dictionary[w]
  BY <1>2, <1>3, <1>4 DEF WorkerOK, IsEvent
<1>6. /\ pc[w] = "process" /\ event' = [event EXCEPT ![w] = e]
      /\ UNCHANGED <<given, pc, line, dictionary, m_nextId, variables, m_parameterMap,
                     m_variableMap, input, head, written, taken, steered>>
  BY <1>1 DEF UserAssigns
<1> QED
  BY <1>5, <1>6, EventKeeps

LEMMA UserUnsetsKeeps ==
    ASSUME DefinitionsInv, NEW w \in Workers, NEW name, UserUnsets(w, name)
    PROVE  DefinitionsInv'
<1>1. PICK e : e = [n \in DOMAIN event[w] \ {name} |-> event[w][n]]
  OBVIOUS
<1>2. WorkerOK(w)
  BY DEF DefinitionsInv
<1>3. IsEvent(e) /\ DOMAIN e \subseteq DOMAIN dictionary[w]
  BY <1>1, <1>2 DEF WorkerOK, IsEvent
<1>4. /\ pc[w] = "process" /\ event' = [event EXCEPT ![w] = e]
      /\ UNCHANGED <<given, pc, line, dictionary, m_nextId, variables, m_parameterMap,
                     m_variableMap, input, head, written, taken, steered>>
  BY <1>1 DEF UserUnsets
<1> QED
  BY <1>3, <1>4, EventKeeps

(***************************************************************************)
(* A variable that the definition file has keeps its value until user code *)
(* sets it, which is remembered.                                           *)
(***************************************************************************)
LEMMA VariablesKeep ==
    ASSUME DefinitionsInv, NEW w \in Workers, NEW v, NEW s, pc[w] \in UserCode,
           IsVariables(v), steered[w] \subseteq s, s \subseteq Variables,
           \A n \in DOMAIN variables[w] \ s : n \in DOMAIN v /\ v[n] = variables[w][n],
           variables' = [variables EXCEPT ![w] = v], steered' = [steered EXCEPT ![w] = s],
           UNCHANGED <<given, pc, line, dictionary, m_nextId, m_parameterMap, m_variableMap,
                       event, input, head, written, taken>>
    PROVE  DefinitionsInv'
<1>1. /\ variables'[w] = v /\ \A q \in Ranks \ {w} : variables'[q] = variables[q]
      /\ DOMAIN variables' = Ranks /\ w \in Ranks /\ w # Outputter
      /\ steered'[w] = s /\ \A q \in Workers \ {w} : steered'[q] = steered[q]
      /\ DOMAIN steered' = Workers /\ steered' = [q \in Workers |-> steered'[q]]
  BY DefinitionsAssumption DEF DefinitionsInv, Shape, Ranks
<1>2. Shape'
  BY <1>1 DEF DefinitionsInv, Shape, given
<1>3. OnlyOf(w)
  BY <1>1 DEF OnlyOf, UserCode
<1>4. VariablesFollow(w)'
  <2>1. VariablesFollow(w)
    BY <1>1 DEF DefinitionsInv, RankOK
  <2>2. definitionFile' = definitionFile /\ line' = line
    BY DEF given
  <2>3. \A n : /\ Mentioned(line[w], n)' <=> Mentioned(line[w], n)
               /\ \A x : LastDefined(line[w], n, x)' <=> LastDefined(line[w], n, x)
    BY <2>2 DEF Mentioned, LastDefined
  <2>4. ASSUME NEW n \in Variables, Mentioned(line[w], n), ~ Steers(w, n)'
        PROVE  n \in DOMAIN v /\ LastDefined(line[w], n, v[n])
    <3>1. n \notin s /\ ~ Steers(w, n)
      BY <1>1, <2>4 DEF Steers
    <3>2. n \in DOMAIN variables[w] /\ LastDefined(line[w], n, variables[w][n])
      BY <2>1, <2>4, <3>1 DEF VariablesFollow
    <3> QED
      BY <3>1, <3>2
  <2>5. IsVariables(variables[w])'
    BY <1>1 DEF IsVariables
  <2> QED
    BY <1>1, <2>2, <2>3, <2>4, <2>5 DEF VariablesFollow
<1>5. WorkerOK(w)'
  <2>1. Extends(dictionary'[w], dictionary[w])
    BY SameNumbers
  <2> QED
    BY <1>1, <2>1, SameMaps DEF given
<1>6. pc'[w] \in {"construct", "params", "vars", "ready", "process", "thrown"}
  BY DEF UserCode
<1> QED
  BY <1>2, <1>3, <1>4, <1>5, <1>6, SameNumbers, WorkerKeeps

LEMMA UserSteersKeeps ==
    ASSUME DefinitionsInv, NEW w \in Workers, NEW name \in UserVariables, NEW x \in Values,
           UserSteers(w, name, x)
    PROVE  DefinitionsInv'
<1>1. PICK v, s : v = With(variables[w], name, x) /\ s = steered[w] \union {name}
  OBVIOUS
<1>2. /\ IsVariables(variables[w]) /\ steered[w] \subseteq Variables /\ name \in Variables
  BY DefinitionsAssumption DEF DefinitionsInv, RankOK, VariablesFollow, WorkerOK, Ranks
<1>3. /\ DOMAIN v = DOMAIN variables[w] \union {name} /\ v[name] = x
      /\ \A n \in DOMAIN variables[w] \ {name} : v[n] = variables[w][n]
  BY <1>1 DEF With
<1>4. IsVariables(v) /\ s \subseteq Variables /\ steered[w] \subseteq s
  BY <1>1, <1>2, <1>3 DEF IsVariables
<1>5. \A n \in DOMAIN variables[w] \ s : n \in DOMAIN v /\ v[n] = variables[w][n]
  BY <1>1, <1>3
<1>6. /\ pc[w] \in UserCode
      /\ variables' = [variables EXCEPT ![w] = v] /\ steered' = [steered EXCEPT ![w] = s]
      /\ UNCHANGED <<given, pc, line, dictionary, m_nextId, m_parameterMap, m_variableMap,
                     event, input, head, written, taken>>
  BY <1>1 DEF UserSteers
<1> QED
  BY <1>4, <1>5, <1>6, VariablesKeep

LEMMA UserMakesVariableKeeps ==
    ASSUME DefinitionsInv, NEW w \in Workers, NEW name \in Variables, UserMakesVariable(w, name)
    PROVE  DefinitionsInv'
<1>1. PICK v : v = IF name \in DOMAIN variables[w] THEN variables[w]
                                                ELSE With(variables[w], name, 0)
  OBVIOUS
<1>2. /\ IsVariables(variables[w]) /\ steered[w] \subseteq Variables
  BY DEF DefinitionsInv, RankOK, VariablesFollow, WorkerOK, Ranks
<1>3. /\ IsVariables(v)
      /\ \A n \in DOMAIN variables[w] : n \in DOMAIN v /\ v[n] = variables[w][n]
  <2>1. CASE name \in DOMAIN variables[w]
    BY <1>1, <1>2, <2>1
  <2>2. CASE name \notin DOMAIN variables[w]
    BY <1>1, <1>2, <2>2, DefinitionsAssumption DEF IsVariables, With
  <2> QED
    BY <2>1, <2>2
<1>4. /\ pc[w] \in UserCode
      /\ variables' = [variables EXCEPT ![w] = v] /\ steered' = [steered EXCEPT ![w] = steered[w]]
      /\ UNCHANGED <<given, pc, line, dictionary, m_nextId, m_parameterMap, m_variableMap,
                     event, input, head, written, taken>>
  <2>1. steered = [q \in Workers |-> steered[q]]
    BY DEF DefinitionsInv, Shape
  <2> QED
    BY <1>1, <2>1 DEF UserMakesVariable
<1> QED
  BY <1>2, <1>3, <1>4, VariablesKeep

LEMMA loadVariableKeeps ==
    ASSUME DefinitionsInv, NEW w \in Workers, NEW name \in Variables, loadVariable(w, name)
    PROVE  DefinitionsInv'
<1>1. /\ pc[w] = "process" /\ WorkerOK(w)
      /\ IsVariables(variables[w]) /\ IsVariables(m_variableMap[w])
      /\ steered[w] \subseteq Variables
  BY DEF loadVariable, DefinitionsInv, WorkerOK, RankOK, VariablesFollow, Ranks
<1>2. CASE name \in DOMAIN m_variableMap[w]
  <2>1. PICK x, v, s : /\ x = m_variableMap[w][name]
                       /\ v = With(variables[w], name, x) /\ s = steered[w] \union {name}
    OBVIOUS
  <2>2. /\ DOMAIN v = DOMAIN variables[w] \union {name} /\ v[name] = x
        /\ \A n \in DOMAIN variables[w] \ {name} : v[n] = variables[w][n]
    BY <2>1 DEF With
  <2>3. IsVariables(v) /\ s \subseteq Variables /\ steered[w] \subseteq s
    BY <1>1, <1>2, <2>1, <2>2 DEF IsVariables
  <2>4. \A n \in DOMAIN variables[w] \ s : n \in DOMAIN v /\ v[n] = variables[w][n]
    BY <2>1, <2>2
  <2>5. /\ pc[w] \in UserCode
        /\ variables' = [variables EXCEPT ![w] = v] /\ steered' = [steered EXCEPT ![w] = s]
        /\ UNCHANGED <<given, pc, line, dictionary, m_nextId, m_parameterMap, m_variableMap,
                       event, input, head, written, taken>>
    BY <1>2, <2>1 DEF loadVariable, UserCode
  <2> QED
    BY <2>3, <2>4, <2>5, VariablesKeep
<1>3. CASE name \notin DOMAIN m_variableMap[w]
  <2>1. /\ pc' = [pc EXCEPT ![w] = "thrown"]
        /\ UNCHANGED <<given, line, dictionary, m_nextId, variables, m_parameterMap, m_variableMap,
                       event, input, head, written, taken, steered>>
    BY <1>3 DEF loadVariable
  <2>2. /\ pc'[w] = "thrown" /\ \A q \in Ranks \ {w} : pc'[q] = pc[q]
        /\ DOMAIN pc' = Ranks /\ pc' = [q \in Ranks |-> pc'[q]]
    BY <2>1 DEF DefinitionsInv, Shape, Ranks
  <2>3. Shape'
    BY <2>1, <2>2 DEF DefinitionsInv, Shape, given
  <2>4. OnlyOf(w)
    BY <1>1, <2>1, <2>2 DEF OnlyOf
  <2>5. VariablesFollow(w)'
    BY <2>1, SameVariables DEF given
  <2>6. WorkerOK(w)'
    <3>1. Extends(dictionary'[w], dictionary[w])
      BY <2>1, SameNumbers
    <3> QED
      BY <1>1, <2>1, <2>2, <3>1, SameMaps DEF given
  <2> QED
    BY <2>1, <2>2, <2>3, <2>4, <2>5, <2>6, SameNumbers, WorkerKeeps
<1> QED
  BY <1>2, <1>3
-----------------------------------------------------------------------------
(***************************************************************************)
(* The worker's own steps.                                                 *)
(***************************************************************************)
LEMMA ConstructDoneKeeps ==
    ASSUME DefinitionsInv, NEW w \in Workers, ConstructDone(w)
    PROVE  DefinitionsInv'
<1>1. /\ pc[w] = "construct" /\ pc' = [pc EXCEPT ![w] = "params"]
      /\ UNCHANGED <<given, line, dictionary, m_nextId, variables, m_parameterMap,
                     m_variableMap, event, input, head, written, taken, steered>>
  BY DEF ConstructDone
<1>2. /\ pc'[w] = "params" /\ \A q \in Ranks \ {w} : pc'[q] = pc[q]
      /\ DOMAIN pc' = Ranks /\ pc' = [q \in Ranks |-> pc'[q]]
  BY <1>1 DEF DefinitionsInv, Shape, Ranks
<1>3. Shape'
  BY <1>1, <1>2 DEF DefinitionsInv, Shape, given
<1>4. OnlyOf(w)
  BY <1>1, <1>2 DEF OnlyOf
<1>5. VariablesFollow(w)'
  BY <1>1, SameVariables DEF given
<1>6. WorkerOK(w)'
  <2>1. Extends(dictionary'[w], dictionary[w])
    BY <1>1, SameNumbers
  <2>2. steered'[w] \subseteq Variables
    BY <1>1 DEF DefinitionsInv, WorkerOK
  <2> QED
    BY <1>1, <1>2, <2>1, <2>2, SameMaps DEF given
<1> QED
  BY <1>1, <1>2, <1>3, <1>4, <1>5, <1>6, SameNumbers, WorkerKeeps

LEMMA loadTreeParameterMapKeeps ==
    ASSUME DefinitionsInv, NEW w \in Workers, loadTreeParameterMap(w)
    PROVE  DefinitionsInv'
<1>1. PICK defs, names : /\ defs = inputParameters
                         /\ names = [k \in DOMAIN defs |-> defs[k].s_name]
  OBVIOUS
<1>2. /\ pc[w] = "params" /\ defs # <<>> /\ pc' = [pc EXCEPT ![w] = "vars"]
      /\ MakeParameters(w, m_nextId[w], names)
      /\ m_parameterMap' = [m_parameterMap EXCEPT ![w] = MapOf(defs)]
      /\ UNCHANGED <<given, line, variables, m_variableMap, event, input, head, written,
                     taken, steered>>
  BY <1>1 DEF loadTreeParameterMap
<1>3. PICK map : map = MapOf(defs)
  OBVIOUS
<1>4. /\ \A id \in DOMAIN map :
            /\ id \in Nat
            /\ map[id] = NoParameter \/ \E k \in DOMAIN defs : map[id] = defs[k].s_name
      /\ \A k \in DOMAIN defs : defs[k].s_name \in Parameters
      /\ defs \in InputParameters
  <2>1. defs \in InputParameters
    BY <1>1 DEF DefinitionsInv, Shape
  <2> QED
    BY <1>2, <1>3, <2>1, MapFacts
<1>5. names \in Seq(Parameters) /\ DOMAIN names = DOMAIN defs
  <2>1. defs \in Seq(ParameterDef)
    BY <1>4, DefinitionsAssumption
  <2>2. DOMAIN defs = 1 .. Len(defs) /\ Len(defs) \in Nat
    BY <2>1
  <2> QED
    BY <1>1, <1>4, <2>2
<1>6. /\ Numbering(dictionary'[w], m_nextId'[w]) /\ Extends(dictionary'[w], dictionary[w])
      /\ DOMAIN dictionary'[w] = DOMAIN dictionary[w] \union {names[k] : k \in DOMAIN names}
      /\ \A q \in Ranks \ {w} : dictionary'[q] = dictionary[q] /\ m_nextId'[q] = m_nextId[q]
      /\ DOMAIN dictionary' = Ranks /\ DOMAIN m_nextId' = Ranks
      /\ m_nextId' = [q \in Ranks |-> m_nextId'[q]]
  BY <1>2, <1>5, NamesMade
<1>7. /\ pc'[w] = "vars" /\ \A q \in Ranks \ {w} : pc'[q] = pc[q]
      /\ DOMAIN pc' = Ranks /\ pc' = [q \in Ranks |-> pc'[q]]
      /\ m_parameterMap'[w] = map /\ DOMAIN m_parameterMap' = Workers
      /\ \A q \in Workers \ {w} : m_parameterMap'[q] = m_parameterMap[q]
  BY <1>2, <1>3 DEF DefinitionsInv, Shape, Ranks
<1>8. Shape'
  BY <1>2, <1>6, <1>7 DEF DefinitionsInv, Shape, given
<1>9. OnlyOf(w)
  BY <1>2, <1>6, <1>7 DEF OnlyOf
<1>10. VariablesFollow(w)'
  BY <1>2, SameVariables DEF given
<1>11. WorkerOK(w)'
  <2>1. WorkerOK(w)
    BY DEF DefinitionsInv
  <2>2. \A id \in DOMAIN map : id \in Nat /\ map[id] \in DOMAIN dictionary'[w] \union {NoParameter}
    BY <1>1, <1>4, <1>5, <1>6
  <2>3. inputParameters' = defs /\ defs # <<>>
    BY <1>1, <1>2 DEF given
  <2>4. MapOf(inputParameters)' = map
    BY <1>3, <2>3 DEF MapOf, MapSize
  <2>5. DOMAIN event[w] \subseteq DOMAIN dictionary'[w]
    BY <1>6, <2>1 DEF WorkerOK
  <2> QED
    BY <1>2, <1>7, <2>1, <2>2, <2>3, <2>4, <2>5 DEF WorkerOK
<1> QED
  BY <1>2, <1>6, <1>7, <1>8, <1>9, <1>10, <1>11, WorkerKeeps

LEMMA loadVariableMapKeeps ==
    ASSUME DefinitionsInv, NEW w \in Workers, loadVariableMap(w)
    PROVE  DefinitionsInv'
<1>1. /\ pc[w] = "vars" /\ pc' = [pc EXCEPT ![w] = "ready"]
      /\ m_variableMap' = [m_variableMap EXCEPT ![w] = inputVariables]
      /\ UNCHANGED <<given, line, dictionary, m_nextId, variables, m_parameterMap, event,
                     input, head, written, taken, steered>>
  BY DEF loadVariableMap
<1>2. /\ pc'[w] = "ready" /\ \A q \in Ranks \ {w} : pc'[q] = pc[q]
      /\ DOMAIN pc' = Ranks /\ pc' = [q \in Ranks |-> pc'[q]]
      /\ m_variableMap'[w] = inputVariables /\ DOMAIN m_variableMap' = Workers
      /\ \A q \in Workers \ {w} : m_variableMap'[q] = m_variableMap[q]
  BY <1>1 DEF DefinitionsInv, Shape, Ranks
<1>3. Shape'
  BY <1>1, <1>2 DEF DefinitionsInv, Shape, given
<1>4. OnlyOf(w)
  BY <1>1, <1>2 DEF OnlyOf
<1>5. VariablesFollow(w)'
  BY <1>1, SameVariables DEF given
<1>6. WorkerOK(w)'
  <2>1. WorkerOK(w)
    BY DEF DefinitionsInv
  <2>2. inputParameters' = inputParameters
    BY <1>1 DEF given
  <2>3. MapOf(inputParameters)' = MapOf(inputParameters)
    BY <2>2 DEF MapOf, MapSize
  <2>4. IsVariables(inputVariables)
    BY DefinitionsAssumption DEF DefinitionsInv, Shape, IsVariables
  <2>5. IsVariables(m_variableMap[w])'
    BY <1>2, <2>4 DEF IsVariables
  <2> QED
    BY <1>1, <1>2, <2>1, <2>2, <2>3, <2>5 DEF WorkerOK
<1> QED
  BY <1>1, <1>2, <1>3, <1>4, <1>5, <1>6, SameNumbers, WorkerKeeps

LEMMA TakeEventKeeps ==
    ASSUME DefinitionsInv, NEW w \in Workers, NEW e \in InputEvents, TakeEvent(w, e)
    PROVE  DefinitionsInv'
<1>1. PICK loaded : loaded = Loaded(m_parameterMap[w], e)
  OBVIOUS
<1>2. /\ pc[w] = "ready" /\ taken < MaxEvents /\ pc' = [pc EXCEPT ![w] = "process"]
      /\ event' = [event EXCEPT ![w] = loaded] /\ input' = [input EXCEPT ![w] = e]
      /\ taken' = taken + 1
      /\ UNCHANGED <<given, line, dictionary, m_nextId, variables, m_parameterMap,
                     m_variableMap, head, written, steered>>
  BY <1>1 DEF TakeEvent
<1>3. /\ pc'[w] = "process" /\ \A q \in Ranks \ {w} : pc'[q] = pc[q]
      /\ DOMAIN pc' = Ranks /\ pc' = [q \in Ranks |-> pc'[q]]
      /\ event'[w] = loaded /\ DOMAIN event' = Workers
      /\ \A q \in Workers \ {w} : event'[q] = event[q]
      /\ input'[w] = e /\ DOMAIN input' = Workers
      /\ \A q \in Workers \ {w} : input'[q] = input[q]
  BY <1>2 DEF DefinitionsInv, Shape, Ranks
<1>4. Shape'
  <2>1. taken' \in 0 .. MaxEvents
    BY <1>2, DefinitionsAssumption DEF DefinitionsInv, Shape
  <2> QED
    BY <1>2, <1>3, <2>1 DEF DefinitionsInv, Shape, given
<1>5. OnlyOf(w)
  BY <1>2, <1>3 DEF OnlyOf
<1>6. VariablesFollow(w)'
  BY <1>2, SameVariables DEF given
<1>7. WorkerOK(w)'
  <2>1. WorkerOK(w)
    BY DEF DefinitionsInv
  <2>2. inputParameters' = inputParameters
    BY <1>2 DEF given
  <2>3. MapOf(inputParameters)' = MapOf(inputParameters)
    BY <2>2 DEF MapOf, MapSize
  <2>4. /\ inputParameters \in InputParameters /\ inputParameters # <<>>
        /\ m_parameterMap[w] = MapOf(inputParameters)
    BY <1>2, <2>1 DEF WorkerOK, DefinitionsInv, Shape
  <2>5. IsEvent(loaded)
    BY <1>1, <2>4, LoadedValues
  <2>6. DOMAIN loaded \subseteq DOMAIN dictionary[w]
    <3>1. PICK map : map = m_parameterMap[w]
      OBVIOUS
    <3>2. DOMAIN loaded =
             {map[k] : k \in {j \in DOMAIN e \intersect DOMAIN map : map[j] # NoParameter}}
      BY <1>1, <3>1 DEF Loaded
    <3>3. \A k \in DOMAIN map : map[k] \in DOMAIN dictionary[w] \union {NoParameter}
      BY <2>1, <3>1 DEF WorkerOK
    <3> QED
      BY <3>2, <3>3
  <2>7. IsEvent(event[w])'
    BY <1>3, <2>5 DEF IsEvent
  <2> QED
    BY <1>2, <1>3, <2>1, <2>2, <2>3, <2>4, <2>6, <2>7 DEF WorkerOK
<1> QED
  BY <1>2, <1>3, <1>4, <1>5, <1>6, <1>7, SameNumbers, WorkerKeeps

LEMMA SendEventKeeps ==
    ASSUME DefinitionsInv, NEW w \in Workers, SendEvent(w)
    PROVE  DefinitionsInv'
<1>1. PICK e : e = [sent |-> {<<dictionary[w][n], event[w][n]>> : n \in DOMAIN event[w]},
                    meant |-> event[w]]
  OBVIOUS
<1>2. /\ pc[w] = "process" /\ pc' = [pc EXCEPT ![w] = "ready"]
      /\ written' = written \union {e}
      /\ UNCHANGED <<given, line, dictionary, m_nextId, variables, m_parameterMap,
                     m_variableMap, event, input, head, taken, steered>>
  BY <1>1 DEF SendEvent
<1>3. /\ e.meant = event[w]
      /\ e.sent = {<<dictionary[w][n], e.meant[n]>> : n \in DOMAIN e.meant}
  BY <1>1
<1>4. /\ WorkerOK(w) /\ RankOK(w) /\ Shape /\ IsEvent(e.meant)
      /\ DOMAIN e.meant \subseteq DOMAIN dictionary[w]
  BY <1>3 DEF DefinitionsInv, WorkerOK, Ranks
<1>5. e.sent \subseteq Nat \X Values
  <2>1. ASSUME NEW n \in DOMAIN e.meant PROVE dictionary[w][n] \in Nat /\ e.meant[n] \in Values
    BY <1>4 DEF RankOK, Numbering, IsNumbering, IsEvent
  <2> QED
    BY <1>3, <2>1
<1>6. /\ pc'[w] = "ready" /\ \A q \in Ranks \ {w} : pc'[q] = pc[q]
      /\ DOMAIN pc' = Ranks /\ pc' = [q \in Ranks |-> pc'[q]]
  BY <1>2, <1>4 DEF Shape, Ranks
<1>7. Shape'
  <2>1. \A f \in written' : IsEvent(f.meant) /\ f.sent \subseteq Nat \X Values
    BY <1>2, <1>4, <1>5 DEF Shape
  <2> QED
    BY <1>2, <1>4, <1>6, <2>1 DEF Shape, given
<1>8. OnlyOf(w)
  BY <1>2, <1>6 DEF OnlyOf
<1>9. VariablesFollow(w)'
  BY <1>2, SameVariables DEF given
<1>10. WorkerOK(w)'
  <2>1. Extends(dictionary'[w], dictionary[w])
    BY <1>2, SameNumbers
  <2>2. steered'[w] \subseteq Variables
    BY <1>2, <1>4 DEF WorkerOK
  <2> QED
    BY <1>2, <1>6, <2>1, <2>2, SameMaps DEF given
<1>11. \A f \in written' :
          \/ f \in written
          \/ /\ DOMAIN f.meant \subseteq DOMAIN dictionary[w]
             /\ f.sent = {<<dictionary[w][n], f.meant[n]>> : n \in DOMAIN f.meant}
  <2>1. \A f \in written' : f \in written \/ f = e
    BY <1>2
  <2> QED
    BY <1>3, <1>4, <2>1
<1> QED
  BY <1>2, <1>6, <1>7, <1>8, <1>9, <1>10, <1>11, SameNumbers, WorkerKeeps
-----------------------------------------------------------------------------
LEMMA DefinitionsNext == DefinitionsInv /\ [Next]_vars => DefinitionsInv'
<1> SUFFICES ASSUME DefinitionsInv, [Next]_vars PROVE DefinitionsInv'
  OBVIOUS
<1>1. CASE UNCHANGED vars
  <2>1. UNCHANGED <<definitionFile, inputParameters, inputVariables, pc, line, dictionary,
                    m_nextId, variables, m_parameterMap, m_variableMap, event, input, head,
                    written, taken, steered>>
    BY <1>1 DEF vars
  <2>2. Shape' /\ HeadOK'
    BY <2>1 DEF DefinitionsInv, Shape, HeadOK
  <2>3. \A r \in Ranks : RankOK(r)'
    BY <2>1 DEF DefinitionsInv, RankOK, VariablesFollow, Mentioned, LastDefined, Steers
  <2>4. MapOf(inputParameters)' = MapOf(inputParameters)
    BY <2>1 DEF MapOf, MapSize
  <2>5. \A w \in Workers : WorkerOK(w)'
    BY <2>1, <2>4 DEF DefinitionsInv, WorkerOK
  <2>6. ReadInCommon'
    <3>1. PICK m, numbers, nexts : Common(m, numbers, nexts)
      BY DEF DefinitionsInv, ReadInCommon
    <3>2. Common(m, numbers, nexts)'
      BY <2>1, <3>1 DEF Common, ReadUpTo, Follows
    <3> QED
      BY <3>2 DEF ReadInCommon
  <2> QED
    BY <2>2, <2>3, <2>5, <2>6 DEF DefinitionsInv
<1>2. ASSUME NEW r \in Ranks, ReadLine(r) \/ ReadDone(r) PROVE DefinitionsInv'
  BY <1>2, ReadLineKeeps, ReadDoneKeeps
<1>3. CASE OpenOutput
  BY <1>3, OpenOutputKeeps
<1>4. ASSUME NEW w \in Workers, UserStep(w) PROVE DefinitionsInv'
  <2>1. ASSUME NEW name \in UserParameters, UserMakes(w, name) PROVE DefinitionsInv'
    BY <2>1, UserMakesKeeps
  <2>2. ASSUME NEW name \in UserParameters, NEW v \in Values, UserAssigns(w, name, v)
        PROVE  DefinitionsInv'
    BY <2>2, UserAssignsKeeps
  <2>3. ASSUME NEW name \in UserParameters, UserUnsets(w, name) PROVE DefinitionsInv'
    BY <2>3, UserUnsetsKeeps
  <2>4. ASSUME NEW name \in Variables, UserMakesVariable(w, name) PROVE DefinitionsInv'
    BY <2>4, UserMakesVariableKeeps
  <2>5. ASSUME NEW name \in Variables, loadVariable(w, name) PROVE DefinitionsInv'
    BY <2>5, loadVariableKeeps
  <2>6. ASSUME NEW name \in UserVariables, NEW v \in Values, UserSteers(w, name, v)
        PROVE  DefinitionsInv'
    BY <2>6, UserSteersKeeps
  <2> QED
    BY <1>4, <2>1, <2>2, <2>3, <2>4, <2>5, <2>6 DEF UserStep
<1>5. ASSUME NEW w \in Workers, WorkerStep(w) PROVE DefinitionsInv'
  BY <1>5, ConstructDoneKeeps, loadTreeParameterMapKeeps, loadVariableMapKeeps, TakeEventKeeps,
     SendEventKeeps DEF WorkerStep
<1> QED
  BY <1>1, <1>2, <1>3, <1>4, <1>5 DEF Next

LEMMA DefinitionsInvHolds == Spec => []DefinitionsInv
BY DefinitionsInit, DefinitionsNext, PTL DEF Spec

(***************************************************************************)
(* Dictionaries give natural numbers to parameters, maps lead to           *)
(* parameters or to none, and events have values of parameters only, for   *)
(* any files and user code (CTreeParameter,                                *)
(* CMPIParametersToParametersWorker).                                      *)
(***************************************************************************)
THEOREM DefinitionsTypeCorrect == Spec => []TypeOK
BY DefinitionsInvHolds, InvTypes, PTL

(***************************************************************************)
(* Every worker has the numbers at the head of the output file, although   *)
(* each reads the definition file for itself, when it comes to it, and     *)
(* makes parameters of its own then (CTCLParameterReader,                  *)
(* CTreeParameter::makeSharedData, CDataWriter).                           *)
(***************************************************************************)
THEOREM NumbersAlwaysAgree == Spec => []NumbersAgree
BY DefinitionsInvHolds, InvNumbersAgree, PTL

(***************************************************************************)
(* With the head of the output file, an event in it is read back as the    *)
(* worker meant it, also when it has parameters of the worker's own, whose *)
(* numbers others have for other names (CDataWriter::writeEvent).          *)
(***************************************************************************)
THEOREM OutputReadsBack == Spec => []ReadsBack
BY DefinitionsInvHolds, InvReadsBack, PTL

(***************************************************************************)
(* Variables are as the definition file has them last, unless user code    *)
(* of the worker set them (CTCLParameterReader, CTreeVariable).            *)
(***************************************************************************)
THEOREM VariablesAsDefined == Spec => []SteeredAsDefined
BY DefinitionsInvHolds, InvSteered, PTL
-----------------------------------------------------------------------------
\* Only TakeEvent has a worker start on an event.
LEMMA StartsByTaking ==
    ASSUME DefinitionsInv, Next, NEW w \in Workers, pc[w] = "ready", pc'[w] = "process"
    PROVE  UNCHANGED given /\ \E e \in InputEvents : TakeEvent(w, e)
<1>1. pc = [r \in Ranks |-> pc[r]] /\ w \in Ranks
  BY DEF DefinitionsInv, Shape, Ranks
<1>2. ASSUME NEW r \in Ranks, NEW x, pc' = [pc EXCEPT ![r] = x], x # "process" PROVE FALSE
  BY <1>1, <1>2
<1>3. pc' # pc
  BY <1>1
<1>4. ASSUME NEW r \in Ranks, ReadLine(r) \/ ReadDone(r) PROVE FALSE
  <2>1. pc' = pc \/ \E x \in {"thrown", "construct"} : pc' = [pc EXCEPT ![r] = x]
    BY <1>4 DEF ReadLine, ReadDone
  <2> QED
    BY <1>2, <1>3, <2>1
<1>5. ASSUME OpenOutput PROVE FALSE
  BY <1>2, <1>5 DEF OpenOutput, Ranks
<1>6. ASSUME NEW v \in Workers, UserStep(v) PROVE FALSE
  <2>1. pc' = pc \/ pc' = [pc EXCEPT ![v] = "thrown"]
    BY <1>6 DEF UserStep, UserMakes, UserAssigns, UserUnsets, UserMakesVariable, loadVariable,
                UserSteers
  <2> QED
    BY <1>2, <1>3, <2>1 DEF Ranks
<1>7. ASSUME NEW v \in Workers,
             ConstructDone(v) \/ loadTreeParameterMap(v) \/ loadVariableMap(v) \/ SendEvent(v)
      PROVE  FALSE
  <2>1. \E x \in {"params", "vars", "ready"} : pc' = [pc EXCEPT ![v] = x]
    BY <1>7 DEF ConstructDone, loadTreeParameterMap, loadVariableMap, SendEvent
  <2> QED
    BY <1>2, <2>1 DEF Ranks
<1>8. PICK v \in Workers, e \in InputEvents : TakeEvent(v, e)
  BY <1>4, <1>5, <1>6, <1>7 DEF Next, WorkerStep
<1>9. v = w
  BY <1>1, <1>8 DEF TakeEvent, Ranks
<1> QED
  BY <1>8, <1>9 DEF TakeEvent

(***************************************************************************)
(* A worker starts on an event with the values it has in the input file,   *)
(* under the names they have there, for any numbers of the input file, any *)
(* order of its definitions and any parameters that are not defined        *)
(* (CMPIParametersToParametersWorker::loadTreeParameters).                 *)
(***************************************************************************)
THEOREM EventsLoadByName == Spec => LoadsByName
<1> DEFINE Loads == \A w \in Workers :
                       pc[w] = "ready" /\ pc'[w] = "process" =>
                          {<<n, event'[w][n]>> : n \in DOMAIN event'[w]} = InputValues(input'[w])
<1>1. DefinitionsInv /\ [Next]_vars => [Loads]_vars
  <2> SUFFICES ASSUME DefinitionsInv, Next, NEW w \in Workers, pc[w] = "ready", pc'[w] = "process"
               PROVE  {<<n, event'[w][n]>> : n \in DOMAIN event'[w]} = InputValues(input'[w])
    BY DEF vars
  <2>1. PICK e \in InputEvents : TakeEvent(w, e)
    BY StartsByTaking
  <2>2. PICK defs, loaded : defs = inputParameters /\ loaded = Loaded(MapOf(defs), e)
    OBVIOUS
  <2>3. /\ defs \in InputParameters /\ defs # <<>> /\ m_parameterMap[w] = MapOf(defs)
        /\ DOMAIN event = Workers /\ DOMAIN input = Workers
    BY <2>2 DEF DefinitionsInv, Shape, WorkerOK
  <2>4. event'[w] = loaded /\ input'[w] = e
    BY <2>1, <2>2, <2>3 DEF TakeEvent
  <2>5. /\ \A n \in DOMAIN loaded :
              \E k \in DOMAIN defs : /\ defs[k].s_parameterId \in DOMAIN e
                                     /\ n = defs[k].s_name
                                     /\ loaded[n] = e[defs[k].s_parameterId]
        /\ \A k \in DOMAIN defs :
              defs[k].s_parameterId \in DOMAIN e => defs[k].s_name \in DOMAIN loaded
    BY <2>2, <2>3, LoadedValues
  <2>6. OneToOne(defs)
    BY <2>3, DefinitionsAssumption
  <2>7. ASSUME NEW k \in DOMAIN defs, defs[k].s_parameterId \in DOMAIN e
        PROVE  /\ defs[k].s_name \in DOMAIN loaded
               /\ loaded[defs[k].s_name] = e[defs[k].s_parameterId]
    <3>1. PICK j \in DOMAIN defs : /\ defs[k].s_name = defs[j].s_name
                                   /\ loaded[defs[k].s_name] = e[defs[j].s_parameterId]
      BY <2>5, <2>7
    <3>2. j = k
      BY <2>6, <3>1 DEF OneToOne
    <3> QED
      BY <2>5, <2>7, <3>1, <3>2
  <2>8. {<<n, loaded[n]>> : n \in DOMAIN loaded}
          = {<<defs[k].s_name, e[defs[k].s_parameterId]>> :
                k \in {j \in DOMAIN defs : defs[j].s_parameterId \in DOMAIN e}}
    BY <2>5, <2>7
  <2>9. InputValues(e) = {<<defs[k].s_name, e[defs[k].s_parameterId]>> :
                             k \in {j \in DOMAIN defs : defs[j].s_parameterId \in DOMAIN e}}
    BY <2>2 DEF InputValues
  <2> QED
    BY <2>4, <2>8, <2>9
<1> QED
  BY <1>1, DefinitionsInvHolds, PTL DEF Spec, LoadsByName
=============================================================================
