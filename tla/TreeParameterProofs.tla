------------------------ MODULE TreeParameterProofs ------------------------
(***************************************************************************)
(* Theorems about CTreeParameter under a SpecTcl pipeline, for any number  *)
(* of names, objects, values and processors.                               *)
(***************************************************************************)
EXTENDS SpecTclWorker, TLAPS

Valid(n) == Known(n) /\ m_parameterDictionary[n].s_generation = m_generation

ValueOf(n) == m_event[Number(n) + 1]

\* Numbers are below the size of the event, which is at most the next number.
Numbering ==
    /\ m_generation >= 1
    /\ Len(m_event) <= m_nextId
    /\ \A n \in DOMAIN m_parameterDictionary :
          /\ Number(n) < Len(m_event)
          /\ m_parameterDictionary[n].s_generation <= m_generation
    /\ \A n1, n2 \in DOMAIN m_parameterDictionary : Number(n1) = Number(n2) => n1 = n2

Binding ==
    \A o \in Objects : isBound(o) => /\ objects[o].m_pDefinition = objects[o].m_name
                                     /\ Known(objects[o].m_name)

\* The scoreboard lists the parameters that are valid, and each of them once.
Scoring ==
    /\ \A j, k \in DOMAIN m_scoreboard : m_scoreboard[j] = m_scoreboard[k] => j = k
    /\ \A k \in DOMAIN m_scoreboard :
          \E n \in DOMAIN m_parameterDictionary : Valid(n) /\ m_scoreboard[k] = Number(n)
    /\ \A n \in DOMAIN m_parameterDictionary :
          Valid(n) => \E k \in DOMAIN m_scoreboard : m_scoreboard[k] = Number(n)

\* The parameters that are valid are those that were assigned to.
Assigned ==
    /\ \A a \in assigned : Valid(a[1]) /\ a[2] = ValueOf(a[1])
    /\ \A n \in DOMAIN m_parameterDictionary : Valid(n) => <<n, ValueOf(n)>> \in assigned

\* Any user code keeps the first, user code that leaves CEvents alone both.
Base == TreeTypeOK /\ Numbering /\ Binding

Current == Scoring /\ Assigned

Kept == Base' /\ (Current => Current')

\* The names make the steps of the proofs opaque to the provers until needed.
Registers(name) == makeSharedData(name) /\ ~ Known(name)
-----------------------------------------------------------------------------
\* Erasing one element of a sequence.
LEMMA WithoutAtType ==
    ASSUME NEW S, NEW s \in Seq(S), NEW k \in DOMAIN s
    PROVE  /\ WithoutAt(s, k) \in Seq(S)
           /\ Len(WithoutAt(s, k)) = Len(s) - 1
           /\ \A j \in 1 .. Len(s) - 1 :
                 WithoutAt(s, k)[j] = IF j < k THEN s[j] ELSE s[j + 1]
  <1>1. k \in 1 .. Len(s) /\ Len(s) \in Nat
    OBVIOUS
  <1> DEFINE front == SubSeq(s, 1, k - 1)
             back == SubSeq(s, k + 1, Len(s))
  <1>2. front \in Seq(S) /\ Len(front) = k - 1
    BY <1>1
  <1>3. back \in Seq(S) /\ Len(back) = Len(s) - k
    BY <1>1
  <1>4. \A j \in 1 .. k - 1 : front[j] = s[j]
    BY <1>1
  <1>5. \A j \in 1 .. Len(s) - k : back[j] = s[j + k]
    BY <1>1
  <1>6. WithoutAt(s, k) = front \o back
    BY DEF WithoutAt
  <1> HIDE DEF front, back
  <1>7. front \o back \in Seq(S) /\ Len(front \o back) = Len(s) - 1
    BY <1>1, <1>2, <1>3
  <1>8. ASSUME NEW j \in 1 .. Len(s) - 1
        PROVE  (front \o back)[j] = IF j < k THEN s[j] ELSE s[j + 1]
    <2>1. CASE j < k
      BY <1>1, <1>2, <1>3, <1>4, <2>1
    <2>2. CASE j >= k
      <3>1. (front \o back)[j] = back[j - (k - 1)]
        BY <1>1, <1>2, <1>3, <2>2
      <3>2. j - (k - 1) \in 1 .. Len(s) - k /\ j - (k - 1) + k = j + 1
        BY <1>1, <2>2
      <3> QED
        BY <1>1, <1>5, <2>2, <3>1, <3>2
    <2>3. j < k \/ j >= k
      BY <1>1
    <2> QED
      BY <2>1, <2>2, <2>3
  <1> QED
    BY <1>6, <1>7, <1>8

LEMMA UpdateType ==
    ASSUME NEW S, NEW s \in Seq(S), NEW i \in 1 .. Len(s), NEW v \in S
    PROVE  [s EXCEPT ![i] = v] \in Seq(S) /\ Len([s EXCEPT ![i] = v]) = Len(s)
  <1>1. Len(s) \in Nat /\ s \in [1 .. Len(s) -> S]
    OBVIOUS
  <1>2. [s EXCEPT ![i] = v] \in [1 .. Len(s) -> S]
    BY <1>1
  <1> QED
    BY <1>1, <1>2

LEMMA ResizedType ==
    ASSUME TreeAssumption, NEW s \in Seq(Values), NEW n \in Nat, Len(s) <= n
    PROVE  /\ Resized(s, n) \in Seq(Values)
           /\ Len(Resized(s, n)) = n
           /\ \A k \in 1 .. Len(s) : Resized(s, n)[k] = s[k]
  <1>1. \A k \in 1 .. n : Resized(s, n)[k] \in Values
    BY DEF Resized, TreeAssumption
  <1>2. Resized(s, n) \in [1 .. n -> Values]
    BY <1>1 DEF Resized
  <1>3. Resized(s, n) \in Seq(Values) /\ Len(Resized(s, n)) = n
    BY <1>2
  <1> QED
    BY <1>3 DEF Resized
-----------------------------------------------------------------------------
LEMMA TreeInitially == ASSUME TreeAssumption PROVE TreeInit => Base /\ Current
  BY DEF TreeInit, Base, Current, TreeAssumption, TreeTypeOK, Numbering, Binding, Scoring,
         Assigned, TreeObject, DefaultObject, SharedData, isBound, Known, Valid

\* What a new name in the dictionary leaves as it is.
LEMMA RegistersKeeps ==
    ASSUME TreeAssumption, Base, NEW name \in Names, Registers(name),
           UNCHANGED <<m_generation, m_scoreboard, assigned>>
    PROVE  /\ DOMAIN m_parameterDictionary' = DOMAIN m_parameterDictionary \union {name}
           /\ \A n \in DOMAIN m_parameterDictionary :
                 /\ Number(n)' = Number(n) /\ Valid(n)' = Valid(n)
                 /\ ValueOf(n)' = ValueOf(n)
           /\ Number(name)' = m_nextId /\ ~ Valid(name)'
           /\ Numbering' /\ (Current => Current')
           /\ m_nextId' \in Nat /\ m_event' \in Seq(Values)
           /\ m_parameterDictionary' \in [DOMAIN m_parameterDictionary' -> SharedData]
  <1> USE DEF Registers, makeSharedData
  <1>1. /\ m_generation \in Nat /\ m_generation >= 1 /\ m_nextId \in Nat
        /\ m_event \in Seq(Values) /\ Len(m_event) <= m_nextId
        /\ m_parameterDictionary \in [DOMAIN m_parameterDictionary -> SharedData]
    BY DEF Base, TreeTypeOK, Numbering
  <1>2. DOMAIN m_parameterDictionary' = DOMAIN m_parameterDictionary \union {name}
    OBVIOUS
  <1>3. m_parameterDictionary'[name] = [s_parameterNumber |-> m_nextId,
                                        s_generation |-> m_generation - 1]
    OBVIOUS
  <1>4. \A n \in DOMAIN m_parameterDictionary :
           n # name /\ m_parameterDictionary'[n] = m_parameterDictionary[n]
    BY DEF Known
  <1>5. /\ m_event' \in Seq(Values) /\ Len(m_event') = m_nextId + 1 /\ m_nextId' = m_nextId + 1
        /\ \A k \in 1 .. Len(m_event) : m_event'[k] = m_event[k]
    BY <1>1, ResizedType
  <1> HIDE DEF Registers, makeSharedData
  <1>6. \A n \in DOMAIN m_parameterDictionary :
           /\ Number(n) \in Nat /\ Number(n) < Len(m_event)
           /\ m_parameterDictionary[n].s_generation \in Nat
           /\ m_parameterDictionary[n].s_generation <= m_generation
    BY <1>1 DEF Base, Numbering, Number, SharedData
  <1>7. \A n \in DOMAIN m_parameterDictionary :
           /\ Number(n)' = Number(n) /\ Valid(n)' = Valid(n)
    BY <1>2, <1>4 DEF Number, Valid, Known
  <1>8. \A n \in DOMAIN m_parameterDictionary : ValueOf(n)' = ValueOf(n)
    BY <1>1, <1>5, <1>6, <1>7 DEF ValueOf
  <1>9. Number(name)' = m_nextId /\ ~ Valid(name)'
    BY <1>1, <1>3 DEF Number, Valid
  <1>10. m_parameterDictionary' \in [DOMAIN m_parameterDictionary' -> SharedData]
    <2>1. m_parameterDictionary'[name] \in SharedData
      BY <1>1, <1>3 DEF SharedData
    <2>2. \A n \in DOMAIN m_parameterDictionary' : m_parameterDictionary'[n] \in SharedData
      BY <1>1, <1>2, <1>4, <2>1
    <2>3. m_parameterDictionary' = [n \in DOMAIN m_parameterDictionary' |-> m_parameterDictionary'[n]]
      BY DEF Registers, makeSharedData
    <2> QED
      BY <2>2, <2>3
  <1>11. Numbering'
    <2>1. m_generation' >= 1 /\ Len(m_event') <= m_nextId'
      BY <1>1, <1>5
    <2>2. \A n \in DOMAIN m_parameterDictionary' :
             /\ Number(n)' < Len(m_event')
             /\ m_parameterDictionary'[n].s_generation <= m_generation'
      BY <1>1, <1>2, <1>3, <1>4, <1>5, <1>6, <1>7, <1>9
    <2>3. ASSUME NEW n1 \in DOMAIN m_parameterDictionary', NEW n2 \in DOMAIN m_parameterDictionary',
                 Number(n1)' = Number(n2)'
          PROVE  n1 = n2
      <3>1. \A n \in DOMAIN m_parameterDictionary : Number(n) # m_nextId
        BY <1>1, <1>6
      <3> QED
        BY <1>2, <1>7, <1>9, <2>3, <3>1 DEF Base, Numbering
    <2> QED
      BY <2>1, <2>2, <2>3 DEF Numbering
  <1>12. ASSUME Current PROVE  Scoring'
    <2>1. \A n \in DOMAIN m_parameterDictionary' :
             Valid(n)' => \E k \in DOMAIN m_scoreboard : m_scoreboard[k] = Number(n)'
      BY <1>2, <1>7, <1>9, <1>12 DEF Current, Scoring
    <2>2. \A k \in DOMAIN m_scoreboard :
             \E n \in DOMAIN m_parameterDictionary' : Valid(n)' /\ m_scoreboard[k] = Number(n)'
      BY <1>2, <1>7, <1>12 DEF Current, Scoring
    <2> QED
      BY <2>1, <2>2, <1>12 DEF Current, Scoring
  <1>13. ASSUME Current PROVE  Assigned'
    <2>1. \A a \in assigned : a[1] \in DOMAIN m_parameterDictionary
      BY <1>13 DEF Current, Assigned, Valid, Known
    <2>2. \A a \in assigned : Valid(a[1])' /\ a[2] = ValueOf(a[1])'
      BY <1>7, <1>8, <2>1, <1>13 DEF Current, Assigned
    <2>3. \A n \in DOMAIN m_parameterDictionary' : Valid(n)' => <<n, ValueOf(n)'>> \in assigned
      BY <1>2, <1>7, <1>8, <1>9, <1>13 DEF Current, Assigned
    <2> QED
      BY <2>2, <2>3 DEF Assigned
  <1> QED
    BY <1>2, <1>5, <1>7, <1>8, <1>9, <1>10, <1>11, <1>12, <1>13, <1>1 DEF Current
-----------------------------------------------------------------------------
\* Changes of objects only, or of the numbers still to be given.
LEMMA ObjectsKeep ==
    ASSUME Base, objects' \in [Objects -> TreeObject], m_nextId' \in Nat,
           m_nextId' >= m_nextId, Binding',
           UNCHANGED <<m_generation, m_parameterDictionary, m_event, m_scoreboard, assigned>>
    PROVE  Kept
  <1>1. TreeTypeOK'
    BY DEF Base, TreeTypeOK
  <1>2. Numbering'
    BY DEF Base, TreeTypeOK, Numbering, Number
  <1>3. ASSUME Current PROVE  Scoring' /\ Assigned'
    BY <1>3 DEF Current, Scoring, Assigned, Valid, Known, Number, ValueOf
  <1> QED
    BY <1>1, <1>2, <1>3 DEF Base, Current, Kept

LEMMA InitializeStep ==
    ASSUME TreeAssumption, Base, NEW o \in Objects, NEW name \in Names,
           Initialize(o, name)
    PROVE  Kept
  <1>1. objects' = [objects EXCEPT ![o] = [m_name |-> name, m_pDefinition |-> name]]
    BY DEF Initialize
  <1>2. objects' \in [Objects -> TreeObject]
    BY <1>1 DEF Base, TreeTypeOK, TreeObject
  <1>3. UNCHANGED <<m_generation, m_scoreboard, assigned>>
    BY DEF Initialize
  <1>4. ASSUME DOMAIN m_parameterDictionary \subseteq DOMAIN m_parameterDictionary',
               name \in DOMAIN m_parameterDictionary'
        PROVE  Binding'
    <2> SUFFICES ASSUME NEW p \in Objects, isBound(p)'
                 PROVE  objects'[p].m_pDefinition = objects'[p].m_name /\ Known(objects[p].m_name)'
      BY DEF Binding
    <2>1. CASE p = o
      BY <1>1, <1>4, <2>1 DEF Base, TreeTypeOK, Known
    <2>2. CASE p # o
      BY <1>1, <1>4, <2>2 DEF Base, TreeTypeOK, Binding, isBound, Known
    <2> QED
      BY <2>1, <2>2
  <1>5. CASE Known(name)
    <2>1. UNCHANGED <<m_parameterDictionary, m_nextId, m_event>>
      BY <1>5 DEF Initialize
    <2>2. Binding'
      BY <1>4, <1>5, <2>1 DEF Known
    <2>3. m_nextId' \in Nat /\ m_nextId' >= m_nextId
      BY <2>1 DEF Base, TreeTypeOK
    <2> QED
      BY <1>2, <1>3, <2>1, <2>2, <2>3, ObjectsKeep
  <1>6. CASE ~ Known(name)
    <2>1. Registers(name)
      BY <1>6 DEF Initialize, Registers
    <2>2. Numbering' /\ (Current => Current')
      BY <1>3, <2>1, RegistersKeeps
    <2>3. Binding'
      BY <1>3, <1>4, <2>1, RegistersKeeps
    <2>4. TreeTypeOK'
      BY <1>2, <1>3, <2>1, RegistersKeeps DEF Base, TreeTypeOK
    <2> QED
      BY <2>2, <2>3, <2>4 DEF Base, Kept
  <1> QED
    BY <1>5, <1>6 DEF Base, Current, Kept

LEMMA BindStep ==
    ASSUME TreeAssumption, Base, NEW o \in Objects, Bind(o)
    PROVE  Kept
  <1> DEFINE name == objects[o].m_name
  <1>1. objects' = [objects EXCEPT ![o].m_pDefinition = name]
    BY DEF Bind
  <1>2. name \in Names /\ objects[o] \in TreeObject
    BY DEF Base, TreeTypeOK, TreeObject
  <1>3. objects' \in [Objects -> TreeObject]
    BY <1>1, <1>2 DEF Base, TreeTypeOK, TreeObject
  <1>4. UNCHANGED <<m_generation, m_scoreboard, assigned>> /\ Registers(name)
    BY DEF Bind, Registers
  <1> HIDE DEF name
  <1>5. Numbering' /\ (Current => Current')
    BY <1>2, <1>4, RegistersKeeps
  <1>6. DOMAIN m_parameterDictionary' = DOMAIN m_parameterDictionary \union {name}
    BY <1>2, <1>4, RegistersKeeps
  <1>7. Binding'
    <2> SUFFICES ASSUME NEW p \in Objects, isBound(p)'
                 PROVE  objects'[p].m_pDefinition = objects'[p].m_name /\ Known(objects[p].m_name)'
      BY DEF Binding
    <2>1. CASE p = o
      BY <1>1, <1>2, <1>6, <2>1 DEF Base, TreeTypeOK, TreeObject, Known, name
    <2>2. CASE p # o
      BY <1>1, <1>6, <2>2 DEF Base, TreeTypeOK, Binding, isBound, Known
    <2> QED
      BY <2>1, <2>2
  <1>8. TreeTypeOK'
    BY <1>2, <1>3, <1>4, <1>6, RegistersKeeps DEF Base, TreeTypeOK
  <1> QED
    BY <1>5, <1>7, <1>8 DEF Base, Current, Kept

LEMMA OtherObjectSteps ==
    ASSUME TreeAssumption, Base, NEW o \in Objects, NEW rhs \in Objects,
           ConstructDefault(o) \/ ConstructCopy(o, rhs) \/ BindThrows(o)
    PROVE  Kept
  <1>1. /\ m_nextId' \in Nat /\ m_nextId' >= m_nextId
        /\ UNCHANGED <<m_generation, m_parameterDictionary, m_event, m_scoreboard, assigned>>
    BY DEF ConstructDefault, ConstructCopy, BindThrows, Base, TreeTypeOK
  <1>2. DefaultObject \in TreeObject
    BY DEF DefaultObject, TreeObject, TreeAssumption
  <1>3. objects' \in [Objects -> TreeObject]
    BY <1>2 DEF ConstructDefault, ConstructCopy, BindThrows, Base, TreeTypeOK
  <1>4. \A p \in Objects : \/ objects'[p] = DefaultObject
                           \/ \E q \in Objects : objects'[p] = objects[q]
    BY DEF ConstructDefault, ConstructCopy, BindThrows, Base, TreeTypeOK
  <1>5. Binding'
    <2> SUFFICES ASSUME NEW p \in Objects, isBound(p)'
                 PROVE  objects'[p].m_pDefinition = objects'[p].m_name /\ Known(objects[p].m_name)'
      BY DEF Binding
    <2>1. objects'[p] # DefaultObject
      BY DEF isBound, DefaultObject
    <2>2. PICK q \in Objects : objects'[p] = objects[q]
      BY <1>4, <2>1
    <2> QED
      BY <1>1, <2>2 DEF Base, Binding, isBound, Known
  <1> QED
    BY <1>1, <1>3, <1>5, ObjectsKeep DEF Base, Current, Kept
-----------------------------------------------------------------------------
\* The parameter an object is bound to.
LEMMA BoundObject ==
    ASSUME Base, NEW o \in Objects, isBound(o)
    PROVE  LET name == objects[o].m_name IN
              /\ name \in Names /\ objects[o].m_pDefinition = name
              /\ name \in DOMAIN m_parameterDictionary /\ getId(o) = Number(name)
              /\ Number(name) \in Nat /\ Number(name) + 1 \in 1 .. Len(m_event)
              /\ isValid(o) <=> Valid(name)
  BY DEF Base, TreeTypeOK, TreeObject, Binding, Numbering, Known, getId, Definition,
         Number, SharedData, isValid, Valid

LEMMA SetValueStep ==
    ASSUME Base, NEW o \in Objects, NEW v \in Values, setValue(o, v)
    PROVE  Kept
  <1>0. PICK name : name = objects[o].m_name
    OBVIOUS
  <1>1. /\ name \in Names /\ objects[o].m_pDefinition = name
        /\ name \in DOMAIN m_parameterDictionary /\ getId(o) = Number(name)
        /\ Number(name) \in Nat /\ Number(name) + 1 \in 1 .. Len(m_event)
        /\ isValid(o) <=> Valid(name)
    BY <1>0, BoundObject DEF setValue
  <1>2. /\ m_event' = [m_event EXCEPT ![Number(name) + 1] = v]
        /\ assigned' = {a \in assigned : a[1] # name} \union {<<name, v>>}
        /\ UNCHANGED <<m_generation, m_nextId, objects>>
    BY <1>0, <1>1 DEF setValue, Assigning
  <1>3. IF Valid(name)
        THEN UNCHANGED <<m_parameterDictionary, m_scoreboard>>
        ELSE /\ m_parameterDictionary' =
                    [m_parameterDictionary EXCEPT ![name].s_generation = m_generation]
             /\ m_scoreboard' = Append(m_scoreboard, Number(name))
    BY <1>1 DEF setValue
  <1>4. /\ m_generation \in Nat /\ m_generation >= 1 /\ m_event \in Seq(Values)
        /\ m_scoreboard \in Seq(Nat) /\ assigned \subseteq Names \X Values
        /\ m_parameterDictionary \in [DOMAIN m_parameterDictionary -> SharedData]
    BY DEF Base, TreeTypeOK, Numbering
  <1>5. DOMAIN m_parameterDictionary' = DOMAIN m_parameterDictionary
    BY <1>3
  <1>6. \A n \in DOMAIN m_parameterDictionary :
           Number(n)' = Number(n) /\ Number(n) \in Nat /\ Number(n) < Len(m_event)
    <2>1. \A n \in DOMAIN m_parameterDictionary : Number(n) \in Nat /\ Number(n) < Len(m_event)
      BY <1>4 DEF Number, SharedData, Base, Numbering
    <2>2. ASSUME NEW n \in DOMAIN m_parameterDictionary
          PROVE  Number(n)' = Number(n)
      BY <1>3, <1>4 DEF Number, SharedData
    <2> QED
      BY <2>1, <2>2
  <1>7. Valid(name)'
    BY <1>1, <1>2, <1>3, <1>4, <1>5 DEF Valid, Known, SharedData
  <1>8. \A n \in DOMAIN m_parameterDictionary : n # name => Valid(n)' = Valid(n)
    BY <1>2, <1>3, <1>4 DEF Valid, Known
  <1>9. m_event' \in Seq(Values) /\ Len(m_event') = Len(m_event)
    BY <1>1, <1>2, <1>4, UpdateType
  <1>10. ValueOf(name)' = v
    BY <1>1, <1>2, <1>4, <1>6 DEF ValueOf
  <1>11. \A n \in DOMAIN m_parameterDictionary : n # name => Number(n) # Number(name)
    BY <1>1 DEF Base, Numbering
  <1>12. \A n \in DOMAIN m_parameterDictionary : n # name => ValueOf(n)' = ValueOf(n)
    BY <1>1, <1>2, <1>4, <1>6, <1>11 DEF ValueOf
  <1>13. TreeTypeOK'
    <2>1. m_parameterDictionary' \in [DOMAIN m_parameterDictionary' -> SharedData]
      BY <1>1, <1>3, <1>4 DEF SharedData
    <2>2. m_scoreboard' \in Seq(Nat)
      <3>1. Append(m_scoreboard, Number(name)) \in Seq(Nat)
        BY <1>1, <1>4
      <3> QED
        BY <1>3, <1>4, <3>1
    <2>3. assigned' \subseteq Names \X Values
      BY <1>1, <1>2, <1>4
    <2> QED
      BY <1>2, <1>5, <1>9, <2>1, <2>2, <2>3 DEF Base, TreeTypeOK
  <1>14. Numbering'
    <2>1. \A n \in DOMAIN m_parameterDictionary :
             m_parameterDictionary'[n].s_generation <= m_generation
      BY <1>1, <1>3, <1>4 DEF Base, Numbering, SharedData
    <2> QED
      BY <1>2, <1>5, <1>6, <1>9, <2>1 DEF Base, Numbering
  <1>15. ASSUME Current PROVE  Scoring'
    <2>1. CASE Valid(name)
      <3>1. UNCHANGED <<m_parameterDictionary, m_scoreboard>> /\ m_generation' = m_generation
        BY <1>2, <1>3, <2>1
      <3> QED
        BY <3>1, <1>15 DEF Current, Scoring, Valid, Known, Number
    <2>2. CASE ~ Valid(name)
      <3>1. m_scoreboard' = Append(m_scoreboard, Number(name))
        BY <1>3, <2>2
      <3>2. \A k \in DOMAIN m_scoreboard :
               m_scoreboard[k] # Number(name) /\ m_scoreboard'[k] = m_scoreboard[k]
        BY <1>1, <1>4, <2>2, <3>1, <1>15 DEF Base, Current, Scoring, Numbering
      <3>3. /\ DOMAIN m_scoreboard' = DOMAIN m_scoreboard \union {Len(m_scoreboard) + 1}
            /\ m_scoreboard'[Len(m_scoreboard) + 1] = Number(name)
        BY <1>1, <1>4, <3>1
      <3>4. \A j, k \in DOMAIN m_scoreboard' : m_scoreboard'[j] = m_scoreboard'[k] => j = k
        BY <3>2, <3>3, <1>15 DEF Current, Scoring
      <3>5. \A k \in DOMAIN m_scoreboard' :
               \E n \in DOMAIN m_parameterDictionary : Valid(n)' /\ m_scoreboard'[k] = Number(n)
        BY <1>1, <1>7, <1>8, <2>2, <3>2, <3>3, <1>15 DEF Current, Scoring
      <3>6. \A n \in DOMAIN m_parameterDictionary :
               Valid(n)' => \E k \in DOMAIN m_scoreboard' : m_scoreboard'[k] = Number(n)
        BY <1>8, <3>2, <3>3, <1>15 DEF Current, Scoring
      <3> QED
        BY <1>5, <1>6, <3>4, <3>5, <3>6 DEF Scoring
    <2> QED
      BY <2>1, <2>2
  <1>16. ASSUME Current PROVE  Assigned'
    <2>1. \A a \in assigned : a[1] \in DOMAIN m_parameterDictionary
      BY <1>16 DEF Current, Assigned, Valid, Known
    <2>2. ASSUME NEW a \in assigned'
          PROVE  Valid(a[1])' /\ a[2] = ValueOf(a[1])'
      <3>1. CASE a = <<name, v>>
        BY <1>7, <1>10, <3>1
      <3>2. CASE a \in assigned /\ a[1] # name
        BY <1>8, <1>12, <2>1, <3>2, <1>16 DEF Current, Assigned
      <3> QED
        BY <1>2, <3>1, <3>2
    <2>3. ASSUME NEW n \in DOMAIN m_parameterDictionary, Valid(n)'
          PROVE  <<n, ValueOf(n)'>> \in assigned'
      <3>1. CASE n = name
        BY <1>2, <1>10, <3>1
      <3>2. CASE n # name
        BY <1>2, <1>8, <1>12, <2>3, <3>2, <1>16 DEF Current, Assigned
      <3> QED
        BY <3>1, <3>2
    <2> QED
      BY <1>5, <2>2, <2>3 DEF Assigned
  <1>17. Binding'
    BY <1>2, <1>5 DEF Base, Binding, isBound, Known
  <1> QED
    BY <1>13, <1>14, <1>15, <1>16, <1>17 DEF Base, Current, Kept

LEMMA SetInvalidStep ==
    ASSUME Base, NEW o \in Objects, setInvalid(o)
    PROVE  Kept
  <1>0. PICK name : name = objects[o].m_name
    OBVIOUS
  <1>1. /\ name \in Names /\ objects[o].m_pDefinition = name
        /\ name \in DOMAIN m_parameterDictionary /\ getId(o) = Number(name)
        /\ Number(name) \in Nat /\ Number(name) + 1 \in 1 .. Len(m_event)
        /\ Valid(name)
    BY <1>0, BoundObject DEF setInvalid, isValid
  <1>2. /\ m_parameterDictionary' =
                [m_parameterDictionary EXCEPT ![name].s_generation = m_generation - 1]
        /\ assigned' = {a \in assigned : a[1] # name}
        /\ UNCHANGED <<m_generation, m_nextId, m_event, objects>>
    BY <1>0, <1>1 DEF setInvalid, Unassigning
  <1>3. PICK k \in DOMAIN m_scoreboard :
           m_scoreboard[k] = Number(name) /\ m_scoreboard' = WithoutAt(m_scoreboard, k)
    BY <1>1 DEF setInvalid, Found
  <1>4. /\ m_generation \in Nat /\ m_generation >= 1 /\ m_event \in Seq(Values)
        /\ m_scoreboard \in Seq(Nat) /\ assigned \subseteq Names \X Values
        /\ m_parameterDictionary \in [DOMAIN m_parameterDictionary -> SharedData]
    BY DEF Base, TreeTypeOK, Numbering
  <1>5. DOMAIN m_parameterDictionary' = DOMAIN m_parameterDictionary
    BY <1>2
  <1>6. ASSUME NEW n \in DOMAIN m_parameterDictionary
        PROVE  Number(n)' = Number(n) /\ ValueOf(n)' = ValueOf(n)
    <2>1. Number(n)' = Number(n)
      BY <1>2, <1>4 DEF Number, SharedData
    <2> QED
      BY <1>2, <2>1 DEF ValueOf
  <1>7. ~ Valid(name)'
    BY <1>1, <1>2, <1>4 DEF Valid, Known, SharedData
  <1>8. \A n \in DOMAIN m_parameterDictionary : n # name => Valid(n)' = Valid(n)
    BY <1>2, <1>4 DEF Valid, Known
  <1>9. /\ m_scoreboard' \in Seq(Nat) /\ Len(m_scoreboard') = Len(m_scoreboard) - 1
        /\ \A j \in 1 .. Len(m_scoreboard) - 1 :
              m_scoreboard'[j] = IF j < k THEN m_scoreboard[j] ELSE m_scoreboard[j + 1]
    BY <1>3, <1>4, WithoutAtType
  <1>10. DOMAIN m_scoreboard = 1 .. Len(m_scoreboard) /\ Len(m_scoreboard) \in Nat
    BY <1>4
  <1>11. DOMAIN m_scoreboard' = 1 .. Len(m_scoreboard) - 1
    BY <1>9, <1>10
  <1>12. \A n \in DOMAIN m_parameterDictionary : n # name => Number(n) # Number(name)
    BY <1>1 DEF Base, Numbering
  \* Where an element of the new scoreboard was in the old one, and back.
  <1> DEFINE Old(j) == IF j < k THEN j ELSE j + 1
             New(j) == IF j < k THEN j ELSE j - 1
  <1>13. \A j \in DOMAIN m_scoreboard' :
            Old(j) \in DOMAIN m_scoreboard /\ Old(j) # k /\ m_scoreboard'[j] = m_scoreboard[Old(j)]
    BY <1>9, <1>10, <1>11
  <1>14. \A j \in DOMAIN m_scoreboard :
            j # k => New(j) \in DOMAIN m_scoreboard' /\ Old(New(j)) = j
    BY <1>10, <1>11
  <1>15. \A i, j \in DOMAIN m_scoreboard' : Old(i) = Old(j) => i = j
    BY <1>10, <1>11
  <1> HIDE DEF Old, New
  <1>16. TreeTypeOK'
    <2>1. m_parameterDictionary' \in [DOMAIN m_parameterDictionary' -> SharedData]
      BY <1>1, <1>2, <1>4 DEF SharedData
    <2>2. assigned' \subseteq Names \X Values
      BY <1>2, <1>4
    <2> QED
      BY <1>2, <1>5, <1>9, <2>1, <2>2 DEF Base, TreeTypeOK
  <1>17. Numbering'
    <2>1. \A n \in DOMAIN m_parameterDictionary :
             m_parameterDictionary'[n].s_generation <= m_generation
      BY <1>1, <1>2, <1>4 DEF Base, Numbering, SharedData
    <2> QED
      BY <1>2, <1>5, <1>6, <2>1 DEF Base, Numbering
  <1>18. ASSUME Current PROVE  Scoring'
    <2>1. \A i, j \in DOMAIN m_scoreboard' : m_scoreboard'[i] = m_scoreboard'[j] => i = j
      BY <1>13, <1>15, <1>18 DEF Current, Scoring
    <2>2. ASSUME NEW j \in DOMAIN m_scoreboard'
          PROVE  \E n \in DOMAIN m_parameterDictionary : Valid(n)' /\ m_scoreboard'[j] = Number(n)
      <3>1. PICK n \in DOMAIN m_parameterDictionary :
               Valid(n) /\ m_scoreboard[Old(j)] = Number(n)
        BY <1>13, <1>18 DEF Current, Scoring
      <3>2. n # name
        BY <1>3, <1>13, <3>1, <1>18 DEF Current, Scoring
      <3> QED
        BY <1>8, <1>13, <3>1, <3>2
    <2>3. ASSUME NEW n \in DOMAIN m_parameterDictionary, Valid(n)'
          PROVE  \E j \in DOMAIN m_scoreboard' : m_scoreboard'[j] = Number(n)
      <3>1. n # name /\ Valid(n)
        BY <1>7, <1>8, <2>3
      <3>2. PICK j \in DOMAIN m_scoreboard : m_scoreboard[j] = Number(n)
        BY <3>1, <1>18 DEF Current, Scoring
      <3>3. j # k
        BY <1>3, <1>12, <3>1, <3>2
      <3> QED
        BY <1>13, <1>14, <3>2, <3>3
    <2> QED
      BY <1>5, <1>6, <2>1, <2>2, <2>3 DEF Scoring
  <1>19. ASSUME Current PROVE  Assigned'
    <2>1. \A a \in assigned : a[1] \in DOMAIN m_parameterDictionary
      BY <1>19 DEF Current, Assigned, Valid, Known
    <2>2. \A a \in assigned' : Valid(a[1])' /\ a[2] = ValueOf(a[1])'
      BY <1>2, <1>6, <1>8, <2>1, <1>19 DEF Current, Assigned
    <2>3. \A n \in DOMAIN m_parameterDictionary : Valid(n)' => <<n, ValueOf(n)'>> \in assigned'
      BY <1>2, <1>6, <1>7, <1>8, <1>19 DEF Current, Assigned
    <2> QED
      BY <1>5, <2>2, <2>3 DEF Assigned
  <1>20. Binding'
    BY <1>2, <1>5 DEF Base, Binding, isBound, Known
  <1> QED
    BY <1>16, <1>17, <1>18, <1>19, <1>20 DEF Base, Current, Kept

LEMMA NextEventStep ==
    ASSUME Base, nextEvent
    PROVE  Kept /\ m_scoreboard' = <<>>
  <1> USE DEF nextEvent
  <1>1. m_scoreboard' = <<>> /\ assigned' = {} /\ m_generation' = m_generation + 1
    OBVIOUS
  <1>2. m_generation \in Nat
    BY DEF Base, TreeTypeOK
  <1>3. TreeTypeOK'
    BY <1>1, <1>2 DEF Base, TreeTypeOK
  <1>4. m_parameterDictionary \in [DOMAIN m_parameterDictionary -> SharedData]
    BY DEF Base, TreeTypeOK
  <1>5. \A n \in DOMAIN m_parameterDictionary :
           /\ m_parameterDictionary[n].s_generation \in Nat
           /\ m_parameterDictionary[n].s_generation <= m_generation
    BY <1>4 DEF Base, Numbering, SharedData
  <1>6. Numbering'
    BY <1>1, <1>2, <1>5 DEF Base, Numbering, Number
  <1>7. \A n \in DOMAIN m_parameterDictionary : ~ Valid(n)'
    BY <1>1, <1>2, <1>5 DEF Valid
  <1>8. ASSUME Current PROVE  Scoring' /\ Assigned'
    BY <1>1, <1>7 DEF Scoring, Assigned
  <1>9. Binding'
    BY DEF Base, Binding, isBound, Known
  <1> QED
    BY <1>1, <1>3, <1>6, <1>8, <1>9 DEF Base, Current, Kept

\* Everything user code does with its objects keeps the invariant.
LEMMA UserCodeStep ==
    ASSUME TreeAssumption, Base, UseObject \/ BindObject
    PROVE  Kept
  <1>1. CASE UseObject
    <2>1. PICK o \in Objects :
             \/ \E name \in UserNames : Initialize(o, name)
             \/ \E rhs \in Objects : ConstructCopy(o, rhs) \/ Assign(o, rhs)
             \/ \E v \in Values : setValue(o, v)
             \/ setInvalid(o)
      BY <1>1 DEF UseObject
    <2>2. CASE \E name \in UserNames : Initialize(o, name)
      BY <2>2, InitializeStep DEF TreeAssumption
    <2>3. CASE \E rhs \in Objects : ConstructCopy(o, rhs)
      BY <2>3, OtherObjectSteps
    <2>4. ASSUME NEW rhs \in Objects, Assign(o, rhs)
          PROVE  Kept
      <3>1. getValue(rhs) \in Values
        BY <2>4, BoundObject DEF Assign, isValid, getValue, Base, TreeTypeOK
      <3> QED
        BY <2>4, <3>1, SetValueStep DEF Assign
    <2>5. CASE \E v \in Values : setValue(o, v)
      BY <2>5, SetValueStep
    <2>6. CASE setInvalid(o)
      BY <2>6, SetInvalidStep
    <2> QED
      BY <2>1, <2>2, <2>3, <2>4, <2>5, <2>6
  <1>2. CASE BindObject
    BY <1>2, BindStep, OtherObjectSteps DEF BindObject
  <1> QED
    BY <1>1, <1>2 DEF Base, Current, Kept
-----------------------------------------------------------------------------
LEMMA IndexedType ==
    ASSUME TreeAssumption, Base, NEW n \in Nat
    PROVE  /\ Indexed(n) \in Seq(Values) /\ n + 1 \in 1 .. Len(Indexed(n))
           /\ Len(Indexed(n)) = IF n < Len(m_event) THEN Len(m_event)
                                ELSE m_nextId + n + 1 - Len(m_event)
  <1>1. m_event \in Seq(Values) /\ Len(m_event) \in Nat /\ m_nextId \in Nat
    BY DEF Base, TreeTypeOK
  <1>2. Len(m_event) <= m_nextId
    BY DEF Base, Numbering
  <1>3. CASE n < Len(m_event)
    BY <1>1, <1>3 DEF Indexed
  <1>4. CASE ~ n < Len(m_event)
    <2>1. /\ m_nextId + n + 1 - Len(m_event) \in Nat
          /\ Len(m_event) <= m_nextId + n + 1 - Len(m_event)
          /\ n + 1 <= m_nextId + n + 1 - Len(m_event)
      BY <1>1, <1>2, <1>4
    <2> QED
      BY <1>1, <1>4, <2>1, ResizedType DEF Indexed
  <1> QED
    BY <1>3, <1>4

LEMMA AnonymousType == \A k \in 0 .. MaxId - 1 : AnonymousName[k] \in Names
  <1>1. AnonymousName \in [0 .. MaxId - 1 -> Names \ UserNames]
    BY PipelineAssumption
  <1> QED
    BY <1>1

\* The parameters makeParameter adds have numbers of their own.
LEMMA GrowStep ==
    ASSUME TreeAssumption, Base, NEW n \in 0 .. MaxId - 1, Grow(n),
           Len(m_event') = Len(Indexed(n)), m_generation' = m_generation
    PROVE  /\ DOMAIN m_parameterDictionary \subseteq DOMAIN m_parameterDictionary'
           /\ DOMAIN m_parameterDictionary' \subseteq Names
           /\ m_parameterDictionary' \in [DOMAIN m_parameterDictionary' -> SharedData]
           /\ \A d \in DOMAIN m_parameterDictionary : Number(d)' = Number(d)
           /\ \A d \in DOMAIN m_parameterDictionary' :
                 d \notin DOMAIN m_parameterDictionary => Number(d)' >= Len(m_event)
           /\ m_nextId' \in Nat /\ Numbering'
  <1>0. n \in Nat
    BY DEF TreeAssumption
  <1>1. /\ m_event \in Seq(Values) /\ Len(m_event) \in Nat /\ m_nextId \in Nat
        /\ m_generation \in Nat /\ m_generation >= 1 /\ Len(m_event) <= m_nextId
        /\ m_parameterDictionary \in [DOMAIN m_parameterDictionary -> SharedData]
        /\ DOMAIN m_parameterDictionary \subseteq Names
    BY DEF Base, TreeTypeOK, Numbering
  <1>2. \A d \in DOMAIN m_parameterDictionary :
           /\ Number(d) \in Nat /\ Number(d) < Len(m_event)
           /\ m_parameterDictionary[d].s_generation \in Nat
           /\ m_parameterDictionary[d].s_generation <= m_generation
    BY <1>1 DEF Base, Numbering, Number, SharedData
  <1>3. \A d1, d2 \in DOMAIN m_parameterDictionary : Number(d1) = Number(d2) => d1 = d2
    BY DEF Base, Numbering
  <1>4. CASE n < Len(m_event)
    <2>1. UNCHANGED <<m_parameterDictionary, m_nextId>>
      BY <1>4 DEF Grow
    <2>2. Len(m_event') = Len(m_event)
      BY <1>0, <1>4, IndexedType
    <2> QED
      BY <1>1, <1>2, <1>3, <2>1, <2>2 DEF Numbering, Number
  <1>5. CASE ~ n < Len(m_event)
    <2>1. PICK size : size = Len(m_event)
      OBVIOUS
    <2>0. size \in Nat /\ size <= n /\ size <= m_nextId
      BY <1>0, <1>1, <1>5, <2>1
    <2> DEFINE Place(name) == CHOOSE k \in size .. n : AnonymousName[k] = name
               Entry(name) == [s_parameterNumber |-> m_nextId + Place(name) - size,
                               s_generation |-> m_generation - 1]
    <2>2. /\ m_parameterDictionary' =
                [name \in DOMAIN m_parameterDictionary
                            \union {AnonymousName[k] : k \in size .. n} |->
                    IF name \in DOMAIN m_parameterDictionary
                    THEN m_parameterDictionary[name] ELSE Entry(name)]
          /\ m_nextId' = m_nextId + n - size + 1
      BY <1>5, <2>1 DEF Grow, makeParameter, Known
    <2>3. Len(m_event') = m_nextId'
      BY <1>0, <1>1, <1>5, <2>1, <2>2, IndexedType
    <2>4. DOMAIN m_parameterDictionary' = DOMAIN m_parameterDictionary
                                            \union {AnonymousName[k] : k \in size .. n}
      BY <2>2
    <2>5. \A d \in DOMAIN m_parameterDictionary :
             m_parameterDictionary'[d] = m_parameterDictionary[d]
      BY <2>2
    <2>6. ASSUME NEW d \in DOMAIN m_parameterDictionary', d \notin DOMAIN m_parameterDictionary
          PROVE  /\ m_parameterDictionary'[d] = Entry(d)
                 /\ Place(d) \in size .. n /\ AnonymousName[Place(d)] = d
      <3>1. \E k \in size .. n : AnonymousName[k] = d
        BY <2>4, <2>6
      <3> QED
        BY <2>2, <2>6, <3>1
    <2> HIDE DEF Place
    <2>7. ASSUME NEW d \in DOMAIN m_parameterDictionary', d \notin DOMAIN m_parameterDictionary
          PROVE  /\ Number(d)' = m_nextId + Place(d) - size
                 /\ Number(d)' \in Nat /\ m_nextId <= Number(d)' /\ Number(d)' < m_nextId'
                 /\ m_parameterDictionary'[d].s_generation = m_generation - 1
      <3>1. m_parameterDictionary'[d] = Entry(d) /\ Place(d) \in size .. n
        BY <2>6, <2>7
      <3>2. /\ Number(d)' = m_nextId + Place(d) - size
            /\ m_parameterDictionary'[d].s_generation = m_generation - 1
        BY <3>1 DEF Number
      <3>3. Place(d) \in Nat /\ size <= Place(d) /\ Place(d) <= n
        BY <1>0, <2>0, <3>1
      <3> QED
        BY <1>0, <1>1, <2>0, <2>2, <3>2, <3>3
    <2>8. DOMAIN m_parameterDictionary' \subseteq Names
      <3>1. \A k \in size .. n : AnonymousName[k] \in Names
        BY <1>0, <1>1, <2>1, AnonymousType
      <3> QED
        BY <1>1, <2>4, <3>1
    <2>9. \A d \in DOMAIN m_parameterDictionary' : m_parameterDictionary'[d] \in SharedData
      <3>1. ASSUME NEW d \in DOMAIN m_parameterDictionary',
                   d \notin DOMAIN m_parameterDictionary
            PROVE  m_parameterDictionary'[d] \in SharedData
        <4>1. m_nextId + Place(d) - size \in Nat /\ m_generation - 1 \in Nat
          BY <1>1, <2>7, <3>1
        <4> QED
          BY <2>6, <3>1, <4>1 DEF SharedData
      <3> QED
        BY <1>1, <2>5, <3>1
    <2>10. m_parameterDictionary' \in [DOMAIN m_parameterDictionary' -> SharedData]
      BY <2>2, <2>9
    <2>11. \A d \in DOMAIN m_parameterDictionary : Number(d)' = Number(d)
      BY <2>5 DEF Number
    <2>12. \A d \in DOMAIN m_parameterDictionary' :
              /\ Number(d)' < Len(m_event')
              /\ m_parameterDictionary'[d].s_generation <= m_generation
      <3>1. Len(m_event) <= m_nextId'
        BY <1>0, <1>1, <1>5, <2>1, <2>2
      <3>2. m_nextId' \in Nat
        BY <1>0, <1>1, <2>0, <2>2
      <3> QED
        BY <1>1, <1>2, <2>3, <2>5, <2>7, <2>11, <3>1, <3>2
    <2>13. ASSUME NEW d1 \in DOMAIN m_parameterDictionary',
                  NEW d2 \in DOMAIN m_parameterDictionary', Number(d1)' = Number(d2)'
           PROVE  d1 = d2
      <3>1. CASE d1 \in DOMAIN m_parameterDictionary /\ d2 \in DOMAIN m_parameterDictionary
        BY <1>3, <2>11, <2>13, <3>1
      <3>2. CASE d1 \notin DOMAIN m_parameterDictionary /\ d2 \notin DOMAIN m_parameterDictionary
        <4>1. Place(d1) = Place(d2)
          BY <1>1, <2>1, <2>6, <2>7, <2>13, <3>2
        <4> QED
          BY <2>6, <3>2, <4>1
      <3>3. CASE \/ d1 \in DOMAIN m_parameterDictionary /\ d2 \notin DOMAIN m_parameterDictionary
                 \/ d2 \in DOMAIN m_parameterDictionary /\ d1 \notin DOMAIN m_parameterDictionary
        BY <1>1, <1>2, <2>7, <2>11, <2>13, <3>3
      <3> QED
        BY <3>1, <3>2, <3>3
    <2>14. m_nextId' \in Nat
      BY <1>0, <1>1, <2>0, <2>2
    <2>15. m_generation' >= 1 /\ Len(m_event') <= m_nextId'
      BY <1>1, <2>3, <2>14
    <2>16. Numbering'
      BY <2>12, <2>13, <2>15 DEF Numbering
    <2>17. \A d \in DOMAIN m_parameterDictionary' :
              d \notin DOMAIN m_parameterDictionary => Number(d)' >= Len(m_event)
      BY <1>1, <2>7
    <2> QED
      BY <2>4, <2>8, <2>10, <2>11, <2>14, <2>16, <2>17
  <1> QED
    BY <1>4, <1>5

LEMMA IndexStep ==
    ASSUME TreeAssumption, Base, NEW n \in 0 .. MaxId - 1,
           NEW v \in Values, WriteIndex(n, v) \/ ReadIndex(n)
    PROVE  Base'
  <1>1. n \in Nat
    BY DEF TreeAssumption
  <1>2. Grow(n) /\ UNCHANGED <<m_generation, objects>> /\ m_scoreboard' = Added(n)
    BY DEF WriteIndex, ReadIndex
  <1>3. m_event' = Indexed(n) \/ m_event' = [Indexed(n) EXCEPT ![n + 1] = v]
    BY DEF WriteIndex, ReadIndex
  <1>4. m_event' \in Seq(Values) /\ Len(m_event') = Len(Indexed(n))
    <2>1. Indexed(n) \in Seq(Values) /\ n + 1 \in 1 .. Len(Indexed(n))
      BY <1>1, IndexedType
    <2>2. PICK s \in Seq(Values) : s = Indexed(n)
      BY <2>1
    <2>3. [s EXCEPT ![n + 1] = v] \in Seq(Values) /\ Len([s EXCEPT ![n + 1] = v]) = Len(s)
      BY <2>1, <2>2, UpdateType
    <2> QED
      BY <1>3, <2>2, <2>3
  <1>5. /\ DOMAIN m_parameterDictionary \subseteq DOMAIN m_parameterDictionary'
        /\ DOMAIN m_parameterDictionary' \subseteq Names
        /\ m_parameterDictionary' \in [DOMAIN m_parameterDictionary' -> SharedData]
        /\ m_nextId' \in Nat /\ Numbering'
    BY <1>2, <1>4, GrowStep
  <1>6. m_scoreboard' \in Seq(Nat)
    <2>1. m_scoreboard \in Seq(Nat)
      BY DEF Base, TreeTypeOK
    <2>2. Append(m_scoreboard, n) \in Seq(Nat)
      BY <1>1, <2>1
    <2> QED
      BY <1>2, <2>1, <2>2 DEF Added
  <1>7. assigned' \subseteq Names \X Values
    <2>1. assigned \subseteq Names \X Values
      BY DEF Base, TreeTypeOK
    <2>2. CASE ReadIndex(n)
      BY <2>1, <2>2 DEF ReadIndex
    <2>3. CASE WriteIndex(n, v)
      <3>1. \A a \in assigned' : \/ a \in assigned
                                 \/ \E name \in DOMAIN m_parameterDictionary' : a = <<name, v>>
        BY <2>3 DEF WriteIndex
      <3> QED
        BY <1>5, <2>1, <3>1
    <2> QED
      BY <2>2, <2>3
  <1>8. TreeTypeOK'
    BY <1>2, <1>4, <1>5, <1>6, <1>7 DEF Base, TreeTypeOK
  <1>9. Binding'
    BY <1>2, <1>5 DEF Base, Binding, isBound, Known
  <1> QED
    BY <1>5, <1>8, <1>9 DEF Base
-----------------------------------------------------------------------------
\* What the steps of the pipeline do to the parameters.
TreeSteps ==
    \/ UNCHANGED treeVars
    \/ uses \in UserCode /\ "object" \in uses /\ UseObject
    \/ uses \in UserCode /\ "bind late" \in uses /\ BindObject
    \/ \E n \in 0 .. MaxId - 1, v \in Values :
          \/ "write index" \in uses /\ WriteIndex(n, v)
          \/ "read index" \in uses /\ ReadIndex(n)
    \/ nextEvent

LEMMA StutterKeeps == ASSUME Base, UNCHANGED treeVars PROVE Kept
  <1> USE DEF treeVars
  <1>1. TreeTypeOK' /\ Numbering' /\ Binding'
    BY DEF Base, TreeTypeOK, Numbering, Number, Binding, isBound, Known
  <1>2. ASSUME Current PROVE  Scoring' /\ Assigned'
    BY <1>2 DEF Current, Scoring, Assigned, Valid, Known, Number, ValueOf
  <1> QED
    BY <1>1, <1>2 DEF Base, Current, Kept

LEMMA TreeStepsKeep ==
    ASSUME Base, TreeSteps
    PROVE  Base' /\ (uses \subseteq {"object", "bind late", "clear"} /\ Current => Current')
  <1>1. CASE UNCHANGED treeVars
    BY <1>1, StutterKeeps DEF Kept
  <1>2. CASE UseObject \/ BindObject
    BY <1>2, UserCodeStep, TreeAssumption DEF Kept
  <1>3. CASE \E n \in 0 .. MaxId - 1, v \in Values :
                \/ "write index" \in uses /\ WriteIndex(n, v)
                \/ "read index" \in uses /\ ReadIndex(n)
    BY <1>3, IndexStep, TreeAssumption
  <1>4. CASE nextEvent
    BY <1>4, NextEventStep DEF Kept
  <1> QED
    BY <1>1, <1>2, <1>3, <1>4 DEF TreeSteps

\* The types of what the worker has.
WorkerTypeOK ==
    /\ pc \in {"configure", "initialize", "open", "idle", "unpack", "collect", "thrown"}
    /\ uses \in UserCode
    /\ m_pipeline \in Seq(Processors)
    /\ next \in Nat
    /\ rejected \in BOOLEAN

\* Outside of the user code an event that was rejected, and one that is not
\* yet begun, has no values; the generation is the first until the first event.
EmptyEvents ==
    /\ pc = "collect" /\ rejected => m_scoreboard = <<>>
    /\ pc = "idle" /\ m_generation > 1 => m_scoreboard = <<>>
    /\ pc \in {"configure", "initialize", "open"} => m_generation = 1
    /\ pc # "collect" => ~ rejected

PipelineInvariant ==
    /\ Base /\ WorkerTypeOK /\ EmptyEvents
    /\ uses \subseteq {"object", "bind late", "clear"} => Current

LEMMA PipelineInitially == Init => PipelineInvariant
  <1> SUFFICES ASSUME Init PROVE PipelineInvariant
    OBVIOUS
  <1>1. Base /\ Current
    BY TreeInitially, TreeAssumption DEF Init
  <1>2. WorkerTypeOK
    <2>1. pc = "configure" /\ uses \in UserCode /\ next = 1 /\ rejected = FALSE
      BY DEF Init
    <2>2. m_pipeline \in Seq(Processors)
      BY DEF Init
    <2> QED
      BY <2>1, <2>2 DEF WorkerTypeOK
  <1>3. EmptyEvents
    BY DEF Init, TreeInit, EmptyEvents
  <1> QED
    BY <1>1, <1>2, <1>3 DEF PipelineInvariant

\* Every step of the pipeline is one of TreeSteps.
LEMMA StepsAreTreeSteps ==
    ASSUME WorkerTypeOK, [Next]_vars
    PROVE  TreeSteps /\ UNCHANGED uses
  <1>1. CASE UNCHANGED vars
    BY <1>1 DEF vars, workerVars, TreeSteps
  <1>2. CASE \/ \E p \in Processors : addProcessor(p)
             \/ \E k \in DOMAIN m_pipeline : removeEventProcessor(k)
    BY <1>2 DEF addProcessor, removeEventProcessor, TreeSteps
  <1>3. CASE StartRun \/ OnInitialize \/ OnEventSourceOpen \/ Throw
    BY <1>3 DEF StartRun, OnInitialize, OnEventSourceOpen, Throw, TreeSteps
  <1>4. CASE UseObjects \/ BindLate \/ clear
    BY <1>4 DEF UseObjects, BindLate, clear, Uses, InUserCode, workerVars, WorkerTypeOK, TreeSteps
  <1>5. ASSUME NEW n \in 0 .. MaxId - 1, NEW v \in Values, WriteIndex(n, v)
        PROVE  TreeSteps /\ UNCHANGED uses
    <2>1. "write index" \in uses /\ UNCHANGED uses
      BY <1>5 DEF WriteIndex, UsesEvent, InUserCode, workerVars
    <2> QED
      BY <1>5, <2>1 DEF TreeSteps
  <1>6. ASSUME NEW n \in 0 .. MaxId - 1, ReadIndex(n)
        PROVE  TreeSteps /\ UNCHANGED uses
    <2>1. "read index" \in uses /\ UNCHANGED uses
      BY <1>6 DEF ReadIndex, UsesEvent, InUserCode, workerVars
    <2>2. 0 \in Values
      BY TreeAssumption
    <2> QED
      BY <1>6, <2>1, <2>2 DEF TreeSteps
  <1>7. CASE StartUnpack \/ ProcessorReturns
    BY <1>7 DEF StartUnpack, ProcessorReturns, TreeSteps
  <1>8. CASE ProcessorFails \/ SendEvent
    BY <1>8 DEF ProcessorFails, SendEvent, TreeSteps
  <1> QED
    BY <1>1, <1>2, <1>3, <1>4, <1>5, <1>6, <1>7, <1>8 DEF Next

LEMMA WorkerTypeStep ==
    ASSUME WorkerTypeOK, [Next]_vars
    PROVE  WorkerTypeOK'
  <1> USE DEF WorkerTypeOK
  <1>1. CASE UNCHANGED workerVars
    BY <1>1 DEF workerVars
  <1>2. CASE \E p \in Processors : addProcessor(p)
    <2>1. PICK p \in Processors : addProcessor(p)
      BY <1>2
    <2>2. Append(m_pipeline, p) \in Seq(Processors)
      OBVIOUS
    <2> QED
      BY <2>1, <2>2 DEF addProcessor
  <1>3. CASE \E k \in DOMAIN m_pipeline : removeEventProcessor(k)
    <2>1. PICK k \in DOMAIN m_pipeline : removeEventProcessor(k)
      BY <1>3
    <2>2. WithoutAt(m_pipeline, k) \in Seq(Processors)
      BY WithoutAtType
    <2> QED
      BY <2>1, <2>2 DEF removeEventProcessor
  <1>4. CASE StartRun \/ Throw \/ StartUnpack
    BY <1>4 DEF StartRun, Throw, StartUnpack
  <1>5. CASE OnInitialize \/ OnEventSourceOpen
    <2>1. pc' \in {"initialize", "open", "idle"} /\ next' \in Nat
      BY <1>5 DEF OnInitialize, OnEventSourceOpen, AfterLoop
    <2>2. UNCHANGED <<uses, m_pipeline, rejected>>
      BY <1>5 DEF OnInitialize, OnEventSourceOpen
    <2> QED
      BY <2>1, <2>2
  <1>6. CASE ProcessorReturns \/ ProcessorFails \/ SendEvent
    <2>1. pc' \in {"unpack", "collect", "idle"} /\ next' \in Nat
      <3>1. CASE ProcessorReturns
        <4>1. CASE next <= Len(m_pipeline)
          BY <3>1, <4>1 DEF ProcessorReturns, AfterLoop
        <4>2. CASE ~ next <= Len(m_pipeline)
          BY <3>1, <4>2 DEF ProcessorReturns, AfterLoop
        <4> QED
          BY <4>1, <4>2
      <3>2. CASE ProcessorFails \/ SendEvent
        BY <3>2 DEF ProcessorFails, SendEvent
      <3> QED
        BY <1>6, <3>1, <3>2
    <2>2. rejected' \in BOOLEAN
      BY <1>6, Zenon DEF ProcessorReturns, ProcessorFails, SendEvent
    <2>3. UNCHANGED <<uses, m_pipeline>>
      BY <1>6 DEF ProcessorReturns, ProcessorFails, SendEvent
    <2> QED
      BY <2>1, <2>2, <2>3
  <1>7. CASE \/ UseObjects \/ BindLate \/ clear
             \/ \E n \in 0 .. MaxId - 1, v \in Values : WriteIndex(n, v)
             \/ \E n \in 0 .. MaxId - 1 : ReadIndex(n)
    BY <1>1, <1>7 DEF UseObjects, BindLate, clear, WriteIndex, ReadIndex, InUserCode
  <1> QED
    BY <1>1, <1>2, <1>3, <1>4, <1>5, <1>6, <1>7 DEF Next, vars

LEMMA EmptyEventsStep ==
    ASSUME WorkerTypeOK, EmptyEvents, [Next]_vars
    PROVE  EmptyEvents'
  <1> USE DEF EmptyEvents
  <1>1. CASE UNCHANGED vars
    BY <1>1 DEF vars, treeVars, workerVars
  <1>2. CASE \/ \E p \in Processors : addProcessor(p)
             \/ \E k \in DOMAIN m_pipeline : removeEventProcessor(k)
    BY <1>2 DEF addProcessor, removeEventProcessor, treeVars
  <1>3. CASE StartRun \/ Throw \/ StartUnpack
    BY <1>3 DEF StartRun, Throw, StartUnpack, treeVars
  <1>4. CASE OnInitialize \/ OnEventSourceOpen
    BY <1>4 DEF OnInitialize, OnEventSourceOpen, AfterLoop, treeVars
  <1>5. CASE ProcessorReturns
    <2>1. CASE next <= Len(m_pipeline)
      BY <1>5, <2>1 DEF ProcessorReturns, AfterLoop, treeVars
    <2>2. CASE ~ next <= Len(m_pipeline)
      BY <1>5, <2>2 DEF ProcessorReturns, AfterLoop, treeVars
    <2> QED
      BY <2>1, <2>2
  <1>6. CASE ProcessorFails \/ SendEvent
    BY <1>6 DEF ProcessorFails, SendEvent, nextEvent
  <1>7. CASE clear
    BY <1>7 DEF clear, UsesEvent, InUserCode, workerVars
  <1>8. CASE \/ UseObjects \/ BindLate
             \/ \E n \in 0 .. MaxId - 1, v \in Values : WriteIndex(n, v)
             \/ \E n \in 0 .. MaxId - 1 : ReadIndex(n)
    <2>1. pc \in {"initialize", "open", "unpack"} /\ UNCHANGED <<pc, rejected>>
      BY <1>8 DEF UseObjects, BindLate, WriteIndex, ReadIndex, Uses, UsesEvent, InUserCode,
                  workerVars
    <2>2. UNCHANGED m_generation
      BY <1>8 DEF UseObjects, BindLate, WriteIndex, ReadIndex, UseObject, BindObject,
                  Initialize, ConstructDefault, ConstructCopy, Bind, BindThrows, Assign,
                  setValue, setInvalid
    <2> QED
      BY <2>1, <2>2
  <1> QED
    BY <1>1, <1>2, <1>3, <1>4, <1>5, <1>6, <1>7, <1>8 DEF Next
-----------------------------------------------------------------------------
LEMMA PipelineStep == PipelineInvariant /\ [Next]_vars => PipelineInvariant'
  <1> SUFFICES ASSUME PipelineInvariant, [Next]_vars PROVE PipelineInvariant'
    OBVIOUS
  <1>1. TreeSteps /\ UNCHANGED uses
    BY StepsAreTreeSteps DEF PipelineInvariant
  <1>2. Base' /\ (uses \subseteq {"object", "bind late", "clear"} /\ Current => Current')
    BY <1>1, TreeStepsKeep DEF PipelineInvariant
  <1>3. WorkerTypeOK'
    BY WorkerTypeStep DEF PipelineInvariant
  <1>4. EmptyEvents'
    BY EmptyEventsStep DEF PipelineInvariant
  <1> QED
    BY <1>1, <1>2, <1>3, <1>4 DEF PipelineInvariant

THEOREM PipelineInvariantHolds == Spec => []PipelineInvariant
  BY PipelineInitially, PipelineStep, PTL DEF Spec

\* Type correctness, whatever the user code does.
THEOREM PipelineTypeCorrect == Spec => []TypeOK
  <1>1. PipelineInvariant => TypeOK
    BY DEF PipelineInvariant, Base, WorkerTypeOK, TypeOK
  <1> QED
    BY <1>1, PipelineInvariantHolds, PTL

\* A number is a parameter and a name is a parameter, whatever user code does.
THEOREM NamesAreParameters == Spec => []SameNameSameParameter
  <1>1. PipelineInvariant => SameNameSameParameter
    BY DEF PipelineInvariant, Base, Numbering, Binding, SameNameSameParameter
  <1> QED
    BY <1>1, PipelineInvariantHolds, PTL

(***************************************************************************)
(* Of an event that is unpacked to tree parameters exactly the values that *)
(* were assigned are collected: each once, none of an earlier event.       *)
(***************************************************************************)
THEOREM SendsWhatWasUnpacked == Spec => []UnpackedToParameters
  <1>1. ASSUME PipelineInvariant PROVE UnpackedToParameters
    <2> SUFFICES ASSUME Current PROVE EventIsWhatWasAssigned
      BY <1>1 DEF UnpackedToParameters, PipelineInvariant
    <2>1. \A j, k \in DOMAIN m_scoreboard : m_scoreboard[j] = m_scoreboard[k] => j = k
      BY DEF Current, Scoring
    <2>2. \A k \in DOMAIN m_scoreboard :
             collectEvent[k] = <<m_scoreboard[k], m_event[m_scoreboard[k] + 1]>>
      BY DEF collectEvent
    <2>3. ASSUME NEW k \in DOMAIN m_scoreboard
          PROVE  \E a \in assigned : collectEvent[k] = <<Number(a[1]), a[2]>>
      <3>1. PICK n \in DOMAIN m_parameterDictionary : Valid(n) /\ m_scoreboard[k] = Number(n)
        BY DEF Current, Scoring
      <3>2. <<n, ValueOf(n)>> \in assigned
        BY <3>1 DEF Current, Assigned
      <3>3. collectEvent[k] = <<Number(n), ValueOf(n)>>
        BY <2>2, <3>1 DEF ValueOf
      <3> QED
        BY <3>2, <3>3
    <2>4. ASSUME NEW a \in assigned
          PROVE  \E k \in DOMAIN m_scoreboard : collectEvent[k] = <<Number(a[1]), a[2]>>
      <3>1. Valid(a[1]) /\ a[2] = ValueOf(a[1]) /\ a[1] \in DOMAIN m_parameterDictionary
        BY DEF Current, Assigned, Valid, Known
      <3>2. PICK k \in DOMAIN m_scoreboard : m_scoreboard[k] = Number(a[1])
        BY <3>1 DEF Current, Scoring
      <3> QED
        BY <2>2, <3>1, <3>2 DEF ValueOf
    <2> QED
      BY <2>1, <2>3, <2>4 DEF EventIsWhatWasAssigned
  <1>2. PipelineInvariant => UnpackedToParameters
    BY <1>1
  <1> QED
    BY <1>2, PipelineInvariantHolds, PTL

\* An event with nothing on the scoreboard is empty.
LEMMA NothingScored == m_scoreboard = <<>> => collectEvent = <<>>
  <1> SUFFICES ASSUME m_scoreboard = <<>> PROVE collectEvent = <<>>
    OBVIOUS
  <1>1. collectEvent = [k \in {} |-> <<m_scoreboard[k], m_event[m_scoreboard[k] + 1]>>]
    BY DOMAIN m_scoreboard = {} DEF collectEvent
  <1>2. <<>> = [k \in {} |-> <<m_scoreboard[k], m_event[m_scoreboard[k] + 1]>>]
    OBVIOUS
  <1> QED
    BY <1>1, <1>2

\* What a processor rejects leaves nothing, whatever user code does.
THEOREM RejectedIsDropped == Spec => []RejectedEventIsEmpty
  <1>1. PipelineInvariant => RejectedEventIsEmpty
    BY NothingScored DEF PipelineInvariant, EmptyEvents, RejectedEventIsEmpty
  <1> QED
    BY <1>1, PipelineInvariantHolds, PTL

\* No event has anything of the one before it, whatever user code does.
THEOREM EventsAreSeparate == Spec => []EventsStartEmpty
  <1>1. PipelineInvariant => EventsStartEmpty
    BY NothingScored DEF PipelineInvariant, EmptyEvents, EventsStartEmpty
  <1> QED
    BY <1>1, PipelineInvariantHolds, PTL
-----------------------------------------------------------------------------
LEMMA NumbersStay ==
    ASSUME TreeSteps, NEW n \in DOMAIN m_parameterDictionary
    PROVE  n \in DOMAIN m_parameterDictionary' /\ Number(n)' = Number(n)
  <1> DEFINE Stays == n \in DOMAIN m_parameterDictionary' /\ Number(n)' = Number(n)
  <1>1. ASSUME UNCHANGED m_parameterDictionary PROVE Stays
    BY <1>1 DEF Number
  <1>2. ASSUME NEW name, makeSharedData(name), ~ Known(name) PROVE Stays
    BY <1>2 DEF makeSharedData, Known, Number
  <1>3. ASSUME NEW name, NEW g,
               m_parameterDictionary' = [m_parameterDictionary EXCEPT ![name].s_generation = g]
        PROVE  Stays
    BY <1>3 DEF Number
  <1>4. CASE UseObject
    <2>1. ASSUME NEW o, NEW v, setValue(o, v) PROVE Stays
      BY <1>1, <1>3, <2>1 DEF setValue
    <2>2. ASSUME NEW o, setInvalid(o) PROVE Stays
      BY <1>3, <2>2 DEF setInvalid
    <2>3. ASSUME NEW o, NEW name, Initialize(o, name) PROVE Stays
      BY <1>1, <1>2, <2>3 DEF Initialize
    <2>4. ASSUME NEW o, NEW rhs, ConstructCopy(o, rhs) PROVE Stays
      BY <1>1, <2>4 DEF ConstructCopy
    <2> QED
      BY <1>4, <2>1, <2>2, <2>3, <2>4 DEF UseObject, Assign
  <1>5. CASE BindObject
    BY <1>1, <1>2, <1>5 DEF BindObject, ConstructDefault, Bind, BindThrows
  <1>6. ASSUME NEW k, Grow(k) PROVE Stays
    <2>1. CASE UNCHANGED m_parameterDictionary
      BY <1>1, <2>1
    <2>2. CASE makeParameter(k)
      BY <2>2 DEF makeParameter, Known, Number
    <2> QED
      BY <1>6, <2>1, <2>2 DEF Grow
  <1>7. CASE UNCHANGED treeVars \/ nextEvent
    BY <1>1, <1>7 DEF treeVars, nextEvent
  <1>8. ASSUME NEW k, NEW v, WriteIndex(k, v) \/ ReadIndex(k) PROVE Stays
    BY <1>6, <1>8 DEF WriteIndex, ReadIndex
  <1>9. CASE \E k \in 0 .. MaxId - 1, v \in Values :
                \/ "write index" \in uses /\ WriteIndex(k, v)
                \/ "read index" \in uses /\ ReadIndex(k)
    BY <1>8, <1>9
  <1> QED
    BY <1>4, <1>5, <1>7, <1>9 DEF TreeSteps

(***************************************************************************)
(* A parameter keeps its number for good, whatever user code does: with    *)
(* its objects, or with indices that make parameters as they are used.     *)
(***************************************************************************)
THEOREM NumbersNeverChange == Spec => NumbersAreForGood
  <1> DEFINE AllStay == \A n \in DOMAIN m_parameterDictionary :
                           /\ n \in DOMAIN m_parameterDictionary'
                           /\ Number(n)' = Number(n)
  <1>1. PipelineInvariant /\ [Next]_vars => [AllStay]_treeVars
    BY StepsAreTreeSteps, NumbersStay DEF PipelineInvariant
  <1>2. NumbersAreForGood <=> [][AllStay]_treeVars
    BY DEF NumbersAreForGood
  <1> HIDE DEF AllStay
  <1> QED
    BY <1>1, <1>2, PipelineInvariantHolds, PTL DEF Spec
-----------------------------------------------------------------------------
(***************************************************************************)
(* User code that has objects leaves the CEvent alone, but for clear: an   *)
(* element assigned to is no value of the parameter with its number.       *)
(***************************************************************************)
ObjectsOrEvent ==
    \A how \in UserCode : \/ how \subseteq {"object", "bind late", "clear"}
                          \/ "object" \notin how /\ "bind late" \notin how

Unbound == "object" \notin uses /\ "bind late" \notin uses => \A o \in Objects : ~ isBound(o)

LEMMA UnboundStep ==
    ASSUME Unbound, TreeSteps, UNCHANGED uses
    PROVE  Unbound'
  <1>1. CASE "object" \in uses \/ "bind late" \in uses
    BY <1>1 DEF Unbound
  <1>2. CASE "object" \notin uses /\ "bind late" \notin uses
    <2>1. objects' = objects
      BY <1>2 DEF TreeSteps, treeVars, WriteIndex, ReadIndex, nextEvent
    <2> QED
      BY <2>1 DEF Unbound, isBound
  <1> QED
    BY <1>1, <1>2

(***************************************************************************)
(* An object has a value exactly when its name was given one in this       *)
(* event, and reads that one, for any number of objects that share names.  *)
(***************************************************************************)
THEOREM ObjectsReadThisEvent ==
    ASSUME ObjectsOrEvent
    PROVE  Spec => []ReadsThisEvent
  <1>1. Init => Unbound
    <2> SUFFICES ASSUME Init, NEW o \in Objects PROVE ~ isBound(o)
      BY DEF Unbound
    <2>1. objects[o] = DefaultObject
      BY DEF Init, TreeInit
    <2> QED
      BY <2>1 DEF isBound, DefaultObject
  <1>2. PipelineInvariant /\ Unbound /\ [Next]_vars => Unbound'
    BY StepsAreTreeSteps, UnboundStep DEF PipelineInvariant
  <1>3. ASSUME PipelineInvariant, Unbound PROVE ReadsThisEvent
    <2> SUFFICES ASSUME NEW o \in Objects, isBound(o)
                 PROVE  /\ isValid(o) <=> \E v \in Values : <<objects[o].m_name, v>> \in assigned
                        /\ isValid(o) => <<objects[o].m_name, getValue(o)>> \in assigned
      BY DEF ReadsThisEvent
    <2>1. Current /\ Base
      BY <1>3 DEF PipelineInvariant, WorkerTypeOK, Unbound, ObjectsOrEvent
    <2>2. PICK name : name = objects[o].m_name
      OBVIOUS
    <2>3. /\ name \in DOMAIN m_parameterDictionary /\ getId(o) = Number(name)
          /\ Number(name) + 1 \in 1 .. Len(m_event)
          /\ isValid(o) <=> Valid(name)
      BY <2>1, <2>2, BoundObject
    <2>4. getValue(o) = ValueOf(name) /\ ValueOf(name) \in Values
      BY <2>1, <2>3 DEF getValue, ValueOf, Base, TreeTypeOK
    <2>5. Valid(name) => <<name, ValueOf(name)>> \in assigned
      BY <2>1, <2>3 DEF Current, Assigned
    <2>6. ASSUME NEW v, <<name, v>> \in assigned PROVE Valid(name)
      BY <2>1, <2>6 DEF Current, Assigned
    <2> QED
      BY <2>2, <2>3, <2>4, <2>5, <2>6
  <1>4. PipelineInvariant /\ Unbound => ReadsThisEvent
    BY <1>3
  <1> QED
    BY <1>1, <1>2, <1>4, PipelineInvariantHolds, PTL DEF Spec
-----------------------------------------------------------------------------
(***************************************************************************)
(* Under user code that only assigns to elements of the CEvent the         *)
(* scoreboard lists each number once, numbers that have no parameter yet   *)
(* are below all that new parameters get, and the parameters on it are     *)
(* those that were assigned to.                                            *)
(***************************************************************************)
IndexScoring ==
    /\ \A j, k \in DOMAIN m_scoreboard : m_scoreboard[j] = m_scoreboard[k] => j = k
    /\ \A k \in DOMAIN m_scoreboard : m_scoreboard[k] < Len(m_event)
    /\ \A a \in assigned : /\ a[1] \in DOMAIN m_parameterDictionary /\ a[2] = ValueOf(a[1])
                           /\ \E k \in DOMAIN m_scoreboard : m_scoreboard[k] = Number(a[1])
    /\ \A n \in DOMAIN m_parameterDictionary, k \in DOMAIN m_scoreboard :
          m_scoreboard[k] = Number(n) => <<n, ValueOf(n)>> \in assigned

LEMMA AddedOnce ==
    ASSUME Base, NEW n \in Nat, m_scoreboard' = Added(n),
           \A j, k \in DOMAIN m_scoreboard : m_scoreboard[j] = m_scoreboard[k] => j = k
    PROVE  /\ \A j, k \in DOMAIN m_scoreboard' : m_scoreboard'[j] = m_scoreboard'[k] => j = k
           /\ \A m : (\E k \in DOMAIN m_scoreboard' : m_scoreboard'[k] = m)
                        <=> m = n \/ \E k \in DOMAIN m_scoreboard : m_scoreboard[k] = m
  <1>1. m_scoreboard \in Seq(Nat)
    BY DEF Base, TreeTypeOK
  <1>2. CASE \E k \in DOMAIN m_scoreboard : m_scoreboard[k] = n
    BY <1>2 DEF Added
  <1>3. CASE ~ \E k \in DOMAIN m_scoreboard : m_scoreboard[k] = n
    <2>1. m_scoreboard' = Append(m_scoreboard, n)
      BY <1>3 DEF Added
    <2>2. PICK l \in Nat : l = Len(m_scoreboard)
      BY <1>1
    <2>3. /\ DOMAIN m_scoreboard' = 1 .. l + 1 /\ DOMAIN m_scoreboard = 1 .. l
          /\ \A k \in 1 .. l : m_scoreboard'[k] = m_scoreboard[k]
          /\ m_scoreboard'[l + 1] = n
      BY <1>1, <2>1, <2>2
    <2> QED
      BY <1>3, <2>3
  <1> QED
    BY <1>2, <1>3

LEMMA WriteIndexStep ==
    ASSUME Base, IndexScoring, NEW n \in 0 .. MaxId - 1, NEW v \in Values, WriteIndex(n, v)
    PROVE  IndexScoring'
  <1>1. n \in Nat /\ Grow(n) /\ UNCHANGED m_generation /\ m_scoreboard' = Added(n)
        /\ m_event' = [Indexed(n) EXCEPT ![n + 1] = v]
    <2>1. n \in Nat
      BY TreeAssumption DEF TreeAssumption
    <2> QED
      BY <2>1 DEF WriteIndex
  <1>2. /\ m_event \in Seq(Values) /\ m_scoreboard \in Seq(Nat) /\ Len(m_event) \in Nat
        /\ m_nextId \in Nat /\ Len(m_event) <= m_nextId
        /\ \A d \in DOMAIN m_parameterDictionary : Number(d) \in Nat /\ Number(d) < Len(m_event)
    BY DEF Base, TreeTypeOK, Numbering, Number, SharedData
  <1>3. /\ Indexed(n) \in Seq(Values) /\ n + 1 \in 1 .. Len(Indexed(n))
        /\ Len(m_event) <= Len(Indexed(n))
    BY <1>1, <1>2, IndexedType, TreeAssumption
  <1>4. \A i \in 1 .. Len(m_event) : Indexed(n)[i] = m_event[i]
    <2>1. CASE n < Len(m_event)
      BY <2>1 DEF Indexed
    <2>2. CASE ~ n < Len(m_event)
      <3>1. PICK size \in Nat : size = m_nextId + n + 1 - Len(m_event) /\ Len(m_event) <= size
        <4>1. /\ m_nextId + n + 1 - Len(m_event) \in Nat
              /\ Len(m_event) <= m_nextId + n + 1 - Len(m_event)
          BY <1>1, <1>2, <2>2
        <4> QED
          BY <4>1
      <3> QED
        BY <1>2, <2>2, <3>1, ResizedType, TreeAssumption DEF Indexed
    <2> QED
      BY <2>1, <2>2
  <1>5. /\ Len(m_event') = Len(Indexed(n)) /\ m_event'[n + 1] = v
        /\ \A i \in 1 .. Len(m_event) : i # n + 1 => m_event'[i] = m_event[i]
    <2>1. PICK s \in Seq(Values) : s = Indexed(n)
      BY <1>3
    <2> QED
      BY <1>1, <1>2, <1>3, <1>4, <2>1, UpdateType
  <1>6. /\ DOMAIN m_parameterDictionary \subseteq DOMAIN m_parameterDictionary'
        /\ \A d \in DOMAIN m_parameterDictionary : Number(d)' = Number(d)
        /\ \A d \in DOMAIN m_parameterDictionary' :
              d \notin DOMAIN m_parameterDictionary => Number(d)' >= Len(m_event)
        /\ m_parameterDictionary' \in [DOMAIN m_parameterDictionary' -> SharedData]
    BY <1>1, <1>5, GrowStep, TreeAssumption
  <1>7. \A d \in DOMAIN m_parameterDictionary' : Number(d)' \in Nat
    BY <1>6 DEF Number, SharedData
  <1>8. \A a : a \in assigned' <=> \/ a \in assigned /\ Number(a[1])' # n
                                   \/ \E d \in DOMAIN m_parameterDictionary' :
                                         Number(d)' = n /\ a = <<d, v>>
    BY DEF WriteIndex
  <1>9. /\ \A j, k \in DOMAIN m_scoreboard' : m_scoreboard'[j] = m_scoreboard'[k] => j = k
        /\ \A m : (\E k \in DOMAIN m_scoreboard' : m_scoreboard'[k] = m)
                     <=> m = n \/ \E k \in DOMAIN m_scoreboard : m_scoreboard[k] = m
    BY <1>1, AddedOnce DEF IndexScoring
  <1>10. ASSUME NEW k \in DOMAIN m_scoreboard' PROVE m_scoreboard'[k] < Len(m_event')
    <2>1. \/ m_scoreboard'[k] = n
          \/ \E j \in DOMAIN m_scoreboard : m_scoreboard'[k] = m_scoreboard[j]
      BY <1>9
    <2>2. CASE m_scoreboard'[k] = n
      BY <1>1, <1>3, <1>5, <2>2
    <2>3. ASSUME NEW j \in DOMAIN m_scoreboard, m_scoreboard'[k] = m_scoreboard[j]
          PROVE  m_scoreboard'[k] < Len(m_event')
      <3>1. m_scoreboard[j] \in Nat /\ m_scoreboard[j] < Len(m_event)
        BY <1>2 DEF IndexScoring
      <3>2. Len(Indexed(n)) \in Nat
        BY <1>3
      <3> QED
        BY <1>2, <1>3, <1>5, <2>3, <3>1, <3>2
    <2> QED
      BY <2>1, <2>2, <2>3
  <1>11. ASSUME NEW d \in DOMAIN m_parameterDictionary'
         PROVE  /\ Number(d)' = n => ValueOf(d)' = v
                /\ Number(d)' # n /\ d \in DOMAIN m_parameterDictionary
                      => ValueOf(d)' = ValueOf(d)
    <2>1. ValueOf(d)' = m_event'[Number(d)' + 1]
      BY DEF ValueOf
    <2>2. Number(d)' = n => ValueOf(d)' = v
      BY <1>5, <2>1
    <2>3. ASSUME Number(d)' # n, d \in DOMAIN m_parameterDictionary
          PROVE  ValueOf(d)' = ValueOf(d)
      <3>1. PICK i \in Nat : i = Number(d) /\ i < Len(m_event) /\ i # n /\ Number(d)' = i
        BY <1>2, <1>6, <2>3
      <3>2. i + 1 \in 1 .. Len(m_event) /\ i + 1 # n + 1
        BY <1>1, <1>2, <3>1
      <3> QED
        BY <1>5, <2>1, <3>1, <3>2 DEF ValueOf
    <2> QED
      BY <2>2, <2>3
  <1>12. ASSUME NEW a \in assigned'
         PROVE  /\ a[1] \in DOMAIN m_parameterDictionary' /\ a[2] = ValueOf(a[1])'
                /\ \E k \in DOMAIN m_scoreboard' : m_scoreboard'[k] = Number(a[1])'
    <2>1. CASE a \in assigned /\ Number(a[1])' # n
      <3>1. /\ a[1] \in DOMAIN m_parameterDictionary /\ a[2] = ValueOf(a[1])
            /\ \E k \in DOMAIN m_scoreboard : m_scoreboard[k] = Number(a[1])
        BY <2>1 DEF IndexScoring
      <3>2. a[1] \in DOMAIN m_parameterDictionary' /\ Number(a[1])' = Number(a[1])
        BY <1>6, <3>1
      <3> QED
        BY <1>9, <1>11, <2>1, <3>1, <3>2
    <2>2. CASE \E d \in DOMAIN m_parameterDictionary' : Number(d)' = n /\ a = <<d, v>>
      BY <1>9, <1>11, <2>2
    <2> QED
      BY <1>8, <2>1, <2>2
  <1>13. ASSUME NEW d \in DOMAIN m_parameterDictionary', NEW k \in DOMAIN m_scoreboard',
                m_scoreboard'[k] = Number(d)'
         PROVE  <<d, ValueOf(d)'>> \in assigned'
    <2>1. CASE Number(d)' = n
      BY <1>8, <1>11, <2>1
    <2>2. CASE Number(d)' # n
      <3>1. PICK j \in DOMAIN m_scoreboard : m_scoreboard[j] = Number(d)'
        BY <1>9, <1>13, <2>2
      <3>2. m_scoreboard[j] < Len(m_event)
        BY DEF IndexScoring
      <3>3. d \in DOMAIN m_parameterDictionary
        BY <1>2, <1>6, <1>7, <3>1, <3>2
      <3>4. m_scoreboard[j] = Number(d)
        BY <1>6, <3>1, <3>3
      <3>5. <<d, ValueOf(d)>> \in assigned
        BY <3>3, <3>4 DEF IndexScoring
      <3> QED
        BY <1>8, <1>11, <2>2, <3>3, <3>5
    <2> QED
      BY <2>1, <2>2
  <1> QED
    BY <1>9, <1>10, <1>12, <1>13 DEF IndexScoring

IndicesOnly == uses \subseteq {"write index", "clear"} => IndexScoring

LEMMA EmptyScored == m_scoreboard' = <<>> /\ assigned' = {} => IndexScoring'
  <1>1. \A k : k \notin DOMAIN << >>
    OBVIOUS
  <1> QED
    BY <1>1 DEF IndexScoring

LEMMA IndicesStep ==
    ASSUME Base, IndicesOnly, TreeSteps, UNCHANGED uses
    PROVE  IndicesOnly'
  <1> SUFFICES ASSUME uses \subseteq {"write index", "clear"}, IndexScoring PROVE IndexScoring'
    BY DEF IndicesOnly
  <1>1. CASE UNCHANGED treeVars
    <2>1. \A n : Number(n)' = Number(n) /\ ValueOf(n)' = ValueOf(n)
      BY <1>1 DEF treeVars, ValueOf, Number
    <2>2. /\ m_scoreboard' = m_scoreboard /\ m_event' = m_event /\ assigned' = assigned
          /\ m_parameterDictionary' = m_parameterDictionary
      BY <1>1 DEF treeVars
    <2> QED
      BY <2>1, <2>2 DEF IndexScoring
  <1>2. CASE nextEvent
    BY <1>2, EmptyScored DEF nextEvent
  <1>3. CASE \E n \in 0 .. MaxId - 1, v \in Values : WriteIndex(n, v)
    BY <1>3, WriteIndexStep
  <1> QED
    BY <1>1, <1>2, <1>3 DEF TreeSteps

(***************************************************************************)
(* Of an event that is assigned to by index exactly the values that were   *)
(* assigned are collected, but for the elements without a parameter: each  *)
(* once and none of an earlier event, whatever parameters the indices make *)
(* on the way.                                                             *)
(***************************************************************************)
THEOREM SendsWhatWasIndexed == Spec => []UnpackedToIndices
  <1>1. Init => IndicesOnly
    <2> SUFFICES ASSUME Init PROVE IndexScoring
      BY DEF IndicesOnly
    <2>1. m_scoreboard = <<>> /\ assigned = {} /\ DOMAIN m_scoreboard = {}
      BY DEF Init, TreeInit
    <2> QED
      BY <2>1 DEF IndexScoring
  <1>2. PipelineInvariant /\ IndicesOnly /\ [Next]_vars => IndicesOnly'
    BY StepsAreTreeSteps, IndicesStep DEF PipelineInvariant
  <1>3. ASSUME IndexScoring
        PROVE  {collectEvent[k] : k \in {j \in DOMAIN m_scoreboard : m_scoreboard[j] \in Numbered}}
                  = {<<Number(a[1]), a[2]>> : a \in assigned}
    <2>1. \A k \in DOMAIN m_scoreboard :
             collectEvent[k] = <<m_scoreboard[k], m_event[m_scoreboard[k] + 1]>>
      BY DEF collectEvent
    <2>2. ASSUME NEW k \in DOMAIN m_scoreboard, m_scoreboard[k] \in Numbered
          PROVE  \E a \in assigned : collectEvent[k] = <<Number(a[1]), a[2]>>
      <3>1. PICK n \in DOMAIN m_parameterDictionary : m_scoreboard[k] = Number(n)
        BY <2>2 DEF Numbered
      <3>2. <<n, ValueOf(n)>> \in assigned
        BY <1>3, <3>1 DEF IndexScoring
      <3>3. collectEvent[k] = <<Number(n), ValueOf(n)>>
        BY <2>1, <3>1 DEF ValueOf
      <3> QED
        BY <3>2, <3>3
    <2>3. ASSUME NEW a \in assigned
          PROVE  \E k \in DOMAIN m_scoreboard :
                    m_scoreboard[k] \in Numbered /\ collectEvent[k] = <<Number(a[1]), a[2]>>
      <3>1. a[1] \in DOMAIN m_parameterDictionary /\ a[2] = ValueOf(a[1])
        BY <1>3 DEF IndexScoring
      <3>2. PICK k \in DOMAIN m_scoreboard : m_scoreboard[k] = Number(a[1])
        BY <1>3 DEF IndexScoring
      <3> QED
        BY <2>1, <3>1, <3>2 DEF ValueOf, Numbered
    <2> QED
      BY <2>2, <2>3
  <1>4. IndicesOnly => UnpackedToIndices
    BY <1>3 DEF IndicesOnly, UnpackedToIndices, IndexScoring
  <1> QED
    BY <1>1, <1>2, <1>4, PipelineInvariantHolds, PTL DEF Spec
=============================================================================
