------------------------- MODULE ApplicationProofs -------------------------
(***************************************************************************)
(* The start and end of the ranks, for any numbers of processes, arguments *)
(* and lengths of names: the data types that are made one after the other  *)
(* with the same arrays.                                                   *)
(***************************************************************************)
EXTENDS Application, FiniteSetTheorems, TLAPS

Made(r) == Cardinality(DOMAIN datatypes[r])

\* The types are made in the order of the steps.
MadeInOrder(r) ==
    /\ Made(r) \in 0 .. 6
    /\ DOMAIN datatypes[r] = {Steps[k].of : k \in 1 .. Made(r)}

(***************************************************************************)
(* What a later step takes over from the arrays: n types have been made.   *)
(***************************************************************************)
LeftBy(n, lens, mpitypes) ==
    /\ n <= 4 => \A k \in 1 .. 3 : lens[k] = 1
    /\ n = 1 => mpitypes[1] = "MPI_INT" /\ mpitypes[2] = "MPI_INT"
    /\ n \in {1, 2} => mpitypes[3] = "MPI_CXX_BOOL"

ArraysOK(r) == LeftBy(Made(r), lengths[r], types[r])

ApplicationInv ==
    /\ TypeOK
    /\ DOMAIN lengths = Ranks /\ DOMAIN types = Ranks /\ DOMAIN offsets = Ranks
    /\ DOMAIN datatypes = Ranks
    /\ \A r \in Ranks : MadeInOrder(r) /\ ArraysOK(r)
    /\ MessagesFitTheirTypes
-----------------------------------------------------------------------------
(***************************************************************************)
(* Offsets.  The structures have two or three members, so the recursion    *)
(* that adds them up is written out.                                       *)
(***************************************************************************)
LEMMA RoundedUpNat ==
    ASSUME NEW n \in Nat, NEW unit \in {1, 4, 8}
    PROVE  RoundedUp(n, unit) \in Nat
<1>1. CASE unit = 1
  BY <1>1 DEF RoundedUp
<1>2. CASE unit = 4
  BY <1>2 DEF RoundedUp
<1>3. CASE unit = 8
  BY <1>3 DEF RoundedUp
<1> QED
  BY <1>1, <1>2, <1>3

LEMMA Bytes == \A t \in DOMAIN BytesOf : BytesOf[t] \in {1, 4, 8}
BY DEF BytesOf

LEMMA OffsetsAreNat ==
    ASSUME NEW m, Len(m) \in {2, 3},
           \A k \in 1 .. Len(m) : m[k][1] \in DOMAIN BytesOf /\ m[k][2] \in Nat
    PROVE  OffsetOf(m) \in [1 .. Len(m) -> Nat]
<1> DEFINE next(at, k) ==
              RoundedUp(at + m[k - 1][2] * BytesOf[m[k - 1][1]], BytesOf[m[k][1]])
           two == next(0, 2)
           off == [k \in 1 .. Len(m) |-> IF k = 1 THEN 0 ELSE IF k = 2 THEN two ELSE next(two, 3)]
<1>1. OffsetOf(m) = CHOOSE at : at = [k \in 1 .. Len(m) |-> IF k = 1 THEN 0
                                                            ELSE next(at[k - 1], k)]
  BY DEF OffsetOf
<1>2. ASSUME NEW at \in Nat, NEW k \in 2 .. Len(m) PROVE next(at, k) \in Nat
  <2>1. k \in 1 .. Len(m) /\ k - 1 \in 1 .. Len(m)
    OBVIOUS
  <2>2. /\ BytesOf[m[k][1]] \in {1, 4, 8} /\ BytesOf[m[k - 1][1]] \in {1, 4, 8}
        /\ m[k - 1][2] \in Nat
    BY <2>1, Bytes
  <2>3. PICK a \in Nat, b \in {1, 4, 8} : a = m[k - 1][2] /\ b = BytesOf[m[k - 1][1]]
    BY <2>2
  <2>4. a * b \in Nat
    BY <2>3
  <2>5. at + m[k - 1][2] * BytesOf[m[k - 1][1]] \in Nat
    BY <2>3, <2>4
  <2> QED
    BY <2>2, <2>5, RoundedUpNat
<1>3. two \in Nat /\ (Len(m) = 3 => next(two, 3) \in Nat)
  <2>1. two \in Nat
    <3>1. 0 \in Nat /\ 2 \in 2 .. Len(m)
      OBVIOUS
    <3> HIDE DEF next
    <3> QED
      BY <1>2, <3>1
  <2>2. Len(m) = 3 => next(two, 3) \in Nat
    <3> HIDE DEF two
    <3> QED
      BY <1>2, <2>1
  <2> QED
    BY <2>1, <2>2
<1>4. off = [k \in 1 .. Len(m) |-> IF k = 1 THEN 0 ELSE next(off[k - 1], k)]
  <2>1. ASSUME NEW k \in 1 .. Len(m) PROVE off[k] = IF k = 1 THEN 0 ELSE next(off[k - 1], k)
    <3>1. off[1] = 0 /\ off[2] = two /\ (Len(m) = 3 => off[3] = next(two, 3))
      <4> HIDE DEF two, next
      <4> QED
        OBVIOUS
    <3>2. k = 1 \/ k = 2 \/ (k = 3 /\ Len(m) = 3)
      OBVIOUS
    <3>3. k = 2 => next(off[k - 1], k) = two
      BY <3>1
    <3>4. k = 3 /\ Len(m) = 3 => next(off[k - 1], k) = next(two, 3)
      BY <3>1
    <3> HIDE DEF two, next, off
    <3> QED
      BY <3>1, <3>2, <3>3, <3>4
  <2> HIDE DEF two, next
  <2> QED
    BY <2>1
<1>5. OffsetOf(m) = [k \in 1 .. Len(m) |-> IF k = 1 THEN 0 ELSE next(OffsetOf(m)[k - 1], k)]
  <2> HIDE DEF off, two, next
  <2> QED
    BY <1>1, <1>4
<1>6. PICK f : f = OffsetOf(m)
  OBVIOUS
<1>7. /\ f[1] = 0 /\ f[2] = two
      /\ Len(m) = 3 => f[3] = next(two, 3)
  <2>1. f = [k \in 1 .. Len(m) |-> IF k = 1 THEN 0 ELSE next(f[k - 1], k)]
    BY <1>5, <1>6
  <2>2. f[1] = 0 /\ f[2] = next(f[1], 2) /\ (Len(m) = 3 => f[3] = next(f[2], 3))
    <3> HIDE DEF next
    <3>1. 1 \in 1 .. Len(m) /\ 2 \in 1 .. Len(m)
      OBVIOUS
    <3>2. Len(m) = 3 => 3 \in 1 .. Len(m)
      OBVIOUS
    <3>3. 2 - 1 = 1 /\ 3 - 1 = 2
      OBVIOUS
    <3>4. f[1] = 0 /\ f[2] = next(f[2 - 1], 2) /\ (Len(m) = 3 => f[3] = next(f[3 - 1], 3))
      BY <2>1, <3>1, <3>2
    <3> QED
      BY <3>3, <3>4
  <2> QED
    BY <2>2
<1>8. f = [k \in 1 .. Len(m) |-> f[k]]
  <2> HIDE DEF next
  <2> QED
    BY <1>5, <1>6
<1>9. ASSUME NEW k \in 1 .. Len(m) PROVE f[k] \in Nat
  <2>1. k = 1 \/ k = 2 \/ (k = 3 /\ Len(m) = 3)
    OBVIOUS
  <2> HIDE DEF two, next
  <2> QED
    BY <1>3, <1>7, <2>1
<1> QED
  BY <1>6, <1>8, <1>9
-----------------------------------------------------------------------------
(***************************************************************************)
(* The steps.                                                              *)
(***************************************************************************)
LEMMA TwoMembers ==
    ASSUME NEW a, NEW b, NEW i, NEW j, NEW m, m = <<<<a, i>>, <<b, j>>>>
    PROVE  /\ Len(m) = 2 /\ DOMAIN m = 1 .. 2
           /\ m[1][1] = a /\ m[1][2] = i /\ m[2][1] = b /\ m[2][2] = j
OBVIOUS

LEMMA ThreeMembers ==
    ASSUME NEW a, NEW b, NEW c, NEW i, NEW j, NEW l, NEW m, m = <<<<a, i>>, <<b, j>>, <<c, l>>>>
    PROVE  /\ Len(m) = 3 /\ DOMAIN m = 1 .. 3
           /\ m[1][1] = a /\ m[1][2] = i /\ m[2][1] = b /\ m[2][2] = j
           /\ m[3][1] = c /\ m[3][2] = l
OBVIOUS

LEMMA FrontThree ==
    ASSUME NEW array, NEW a, NEW b, NEW c, NEW o, o = Over(array, <<a, b, c>>)
    PROVE  o = [k \in 1 .. 3 |-> o[k]] /\ o[1] = a /\ o[2] = b /\ o[3] = c
BY DEF Over

LEMMA FrontTwo ==
    ASSUME NEW array, NEW a, NEW b, NEW o, o = Over(array, <<a, b>>)
    PROVE  o = [k \in 1 .. 3 |-> o[k]] /\ o[1] = a /\ o[2] = b /\ o[3] = array[3]
BY DEF Over

LEMMA FrontNone ==
    ASSUME NEW array, NEW o, o = Over(array, <<>>)
    PROVE  /\ o = [k \in 1 .. 3 |-> o[k]]
           /\ o[1] = array[1] /\ o[2] = array[2] /\ o[3] = array[3]
BY DEF Over

LEMMA ByteTables ==
    /\ BytesOf["int"] = 4 /\ BytesOf["unsigned"] = 4 /\ BytesOf["bool"] = 1
    /\ BytesOf["uint64"] = 8 /\ BytesOf["uint32"] = 4 /\ BytesOf["double"] = 8
    /\ BytesOf["char"] = 1 /\ BytesOf["long"] = 8
    /\ DOMAIN BytesOf = {"int", "unsigned", "bool", "uint64", "uint32", "double", "char", "long"}
    /\ MPIBytes["MPI_INT"] = 4 /\ MPIBytes["MPI_CXX_BOOL"] = 1 /\ MPIBytes["MPI_INT64_T"] = 8
    /\ MPIBytes["MPI_INT32_T"] = 4 /\ MPIBytes["MPI_DOUBLE"] = 8 /\ MPIBytes["MPI_CHAR"] = 1
    /\ MPIBytes["MPI_UNSIGNED_LONG"] = 8
    /\ DOMAIN MPIBytes = {"MPI_INT", "MPI_CXX_BOOL", "MPI_INT64_T", "MPI_INT32_T", "MPI_DOUBLE",
                          "MPI_CHAR", "MPI_UNSIGNED_LONG"}
BY DEF BytesOf, MPIBytes

\* The structure that is described in each step.
LEMMA StructureTable ==
    /\ Len(Steps) = 6
    /\ Steps[1].of = "messageHeader" /\ Steps[1].count = 3
    /\ Steps[2].of = "requestData" /\ Steps[2].count = 2
    /\ Steps[3].of = "parameterHeader" /\ Steps[3].count = 3
    /\ Steps[4].of = "parameterValue" /\ Steps[4].count = 2
    /\ Steps[5].of = "parameterDef" /\ Steps[5].count = 2
    /\ Steps[6].of = "variableDef" /\ Steps[6].count = 3
    /\ Structures["messageHeader"] = <<<<"unsigned", 1>>, <<"unsigned", 1>>, <<"bool", 1>>>>
    /\ Structures["requestData"] = <<<<"int", 1>>, <<"int", 1>>>>
    /\ Structures["parameterHeader"] = <<<<"uint64", 1>>, <<"uint32", 1>>, <<"bool", 1>>>>
    /\ Structures["parameterValue"] = <<<<"uint32", 1>>, <<"double", 1>>>>
    /\ Structures["parameterDef"] = <<<<"char", MAX_IDENT>>, <<"long", 1>>>>
    /\ Structures["variableDef"] = <<<<"char", MAX_IDENT>>, <<"char", MAX_UNITS_LENGTH>>, <<"double", 1>>>>
    /\ DOMAIN Structures = {"messageHeader", "requestData", "parameterHeader", "parameterValue",
                            "parameterDef", "variableDef"}
BY DEF Steps, Structures

LEMMA StructureFacts ==
    ASSUME NEW n \in 1 .. 6, NEW m, m = Structures[Steps[n].of]
    PROVE  /\ Steps[n].of \in DOMAIN Structures
           /\ Steps[n].count = Len(m) /\ Len(m) \in {2, 3} /\ DOMAIN m = 1 .. Len(m)
           /\ \A k \in 1 .. Len(m) : m[k][1] \in DOMAIN BytesOf /\ m[k][2] \in Nat
<1>1. n = 1 \/ n = 2 \/ n = 3 \/ n = 4 \/ n = 5 \/ n = 6
  OBVIOUS
<1>2. MAX_IDENT \in Nat /\ MAX_UNITS_LENGTH \in Nat
  BY ApplicationAssumption
<1>3. CASE n = 1
  <2>1. m = <<<<"unsigned", 1>>, <<"unsigned", 1>>, <<"bool", 1>>>>
    BY <1>3, StructureTable
  <2>2. Steps[n].of \in DOMAIN Structures /\ Steps[n].count = 3
    BY <1>3, StructureTable
  <2> QED
    BY <1>2, <2>1, <2>2, ThreeMembers, ByteTables
<1>4. CASE n = 2
  <2>1. m = <<<<"int", 1>>, <<"int", 1>>>>
    BY <1>4, StructureTable
  <2>2. Steps[n].of \in DOMAIN Structures /\ Steps[n].count = 2
    BY <1>4, StructureTable
  <2> QED
    BY <1>2, <2>1, <2>2, TwoMembers, ByteTables
<1>5. CASE n = 3
  <2>1. m = <<<<"uint64", 1>>, <<"uint32", 1>>, <<"bool", 1>>>>
    BY <1>5, StructureTable
  <2>2. Steps[n].of \in DOMAIN Structures /\ Steps[n].count = 3
    BY <1>5, StructureTable
  <2> QED
    BY <1>2, <2>1, <2>2, ThreeMembers, ByteTables
<1>6. CASE n = 4
  <2>1. m = <<<<"uint32", 1>>, <<"double", 1>>>>
    BY <1>6, StructureTable
  <2>2. Steps[n].of \in DOMAIN Structures /\ Steps[n].count = 2
    BY <1>6, StructureTable
  <2> QED
    BY <1>2, <2>1, <2>2, TwoMembers, ByteTables
<1>7. CASE n = 5
  <2>1. m = <<<<"char", MAX_IDENT>>, <<"long", 1>>>>
    BY <1>7, StructureTable
  <2>2. Steps[n].of \in DOMAIN Structures /\ Steps[n].count = 2
    BY <1>7, StructureTable
  <2> QED
    BY <1>2, <2>1, <2>2, TwoMembers, ByteTables
<1>8. CASE n = 6
  <2>1. m = <<<<"char", MAX_IDENT>>, <<"char", MAX_UNITS_LENGTH>>, <<"double", 1>>>>
    BY <1>8, StructureTable
  <2>2. Steps[n].of \in DOMAIN Structures /\ Steps[n].count = 3
    BY <1>8, StructureTable
  <2> QED
    BY <1>2, <2>1, <2>2, ThreeMembers, ByteTables
<1> QED
  BY <1>1, <1>3, <1>4, <1>5, <1>6, <1>7, <1>8

\* The arrays hold the lengths and the types of the members of m.
Fits(m, lens, ts) ==
    \A k \in 1 .. Len(m) : lens[k] = m[k][2] /\ MPIBytes[ts[k]] = BytesOf[m[k][1]]

LEMMA FitsTwo ==
    ASSUME NEW m, NEW lens, NEW ts, Len(m) = 2,
           lens[1] = m[1][2], lens[2] = m[2][2],
           MPIBytes[ts[1]] = BytesOf[m[1][1]], MPIBytes[ts[2]] = BytesOf[m[2][1]]
    PROVE  Fits(m, lens, ts)
BY DEF Fits

LEMMA FitsThree ==
    ASSUME NEW m, NEW lens, NEW ts, Len(m) = 3,
           lens[1] = m[1][2], lens[2] = m[2][2], lens[3] = m[3][2],
           MPIBytes[ts[1]] = BytesOf[m[1][1]], MPIBytes[ts[2]] = BytesOf[m[2][1]],
           MPIBytes[ts[3]] = BytesOf[m[3][1]]
    PROVE  Fits(m, lens, ts)
BY DEF Fits

(***************************************************************************)
(* With what the steps before have left, each step finds the lengths and   *)
(* types of its structure in the arrays, and leaves what the later ones    *)
(* need.                                                                   *)
(***************************************************************************)
LEMMA StepFits ==
    ASSUME NEW n \in 1 .. 6, NEW lens \in [1 .. 3 -> Nat], NEW ts \in [1 .. 3 -> DOMAIN MPIBytes],
           LeftBy(n - 1, lens, ts), NEW m, m = Structures[Steps[n].of],
           NEW newLens, newLens = Over(lens, Steps[n].lengths),
           NEW newTypes, newTypes = Over(ts, Steps[n].types)
    PROVE  /\ newLens \in [1 .. 3 -> Nat] /\ newTypes \in [1 .. 3 -> DOMAIN MPIBytes]
           /\ LeftBy(n, newLens, newTypes)
           /\ Fits(m, newLens, newTypes)
<1>1. n = 1 \/ n = 2 \/ n = 3 \/ n = 4 \/ n = 5 \/ n = 6
  OBVIOUS
<1>2. /\ MAX_IDENT \in Nat /\ MAX_UNITS_LENGTH \in Nat
      /\ lens[1] \in Nat /\ lens[2] \in Nat /\ lens[3] \in Nat
      /\ ts[1] \in DOMAIN MPIBytes /\ ts[2] \in DOMAIN MPIBytes /\ ts[3] \in DOMAIN MPIBytes
  BY ApplicationAssumption
<1>3. CASE n = 1
  <2>1. m = <<<<"unsigned", 1>>, <<"unsigned", 1>>, <<"bool", 1>>>>
    BY <1>3, StructureTable
  <2>2. lens[1] = 1 /\ lens[2] = 1 /\ lens[3] = 1
    BY <1>3 DEF LeftBy
  <2>3. newLens = Over(lens, <<1, 1, 1>>) /\ newTypes = Over(ts, <<"MPI_INT", "MPI_INT", "MPI_CXX_BOOL">>)
    BY <1>3 DEF Steps
  <2>4. /\ newLens = [k \in 1 .. 3 |-> newLens[k]]
        /\ newLens[1] = 1 /\ newLens[2] = 1 /\ newLens[3] = 1
    BY <2>2, <2>3, FrontThree
  <2>5. /\ newTypes = [k \in 1 .. 3 |-> newTypes[k]]
        /\ newTypes[1] = "MPI_INT" /\ newTypes[2] = "MPI_INT" /\ newTypes[3] = "MPI_CXX_BOOL"
    BY <2>2, <2>3, FrontThree
  <2>6. Fits(m, newLens, newTypes)
    BY <2>1, <2>4, <2>5, ThreeMembers, ByteTables, FitsThree
  <2>7. newLens \in [1 .. 3 -> Nat] /\ newTypes \in [1 .. 3 -> DOMAIN MPIBytes]
    BY <1>2, <2>4, <2>5, ByteTables
  <2>8. LeftBy(n, newLens, newTypes)
    BY <1>3, <2>4, <2>5 DEF LeftBy
  <2> QED
    BY <2>6, <2>7, <2>8
<1>4. CASE n = 2
  <2>1. m = <<<<"int", 1>>, <<"int", 1>>>>
    BY <1>4, StructureTable
  <2>2. /\ lens[1] = 1 /\ lens[2] = 1 /\ lens[3] = 1
        /\ ts[1] = "MPI_INT" /\ ts[2] = "MPI_INT"
        /\ ts[3] = "MPI_CXX_BOOL"
    BY <1>4 DEF LeftBy
  <2>3. newLens = Over(lens, <<>>) /\ newTypes = Over(ts, <<>>)
    BY <1>4 DEF Steps
  <2>4. /\ newLens = [k \in 1 .. 3 |-> newLens[k]]
        /\ newLens[1] = 1 /\ newLens[2] = 1 /\ newLens[3] = 1
    BY <2>2, <2>3, FrontNone
  <2>5. /\ newTypes = [k \in 1 .. 3 |-> newTypes[k]]
        /\ newTypes[1] = "MPI_INT" /\ newTypes[2] = "MPI_INT" /\ newTypes[3] = "MPI_CXX_BOOL"
    BY <2>2, <2>3, FrontNone
  <2>6. Fits(m, newLens, newTypes)
    BY <2>1, <2>4, <2>5, TwoMembers, ByteTables, FitsTwo
  <2>7. newLens \in [1 .. 3 -> Nat] /\ newTypes \in [1 .. 3 -> DOMAIN MPIBytes]
    BY <1>2, <2>4, <2>5, ByteTables
  <2>8. LeftBy(n, newLens, newTypes)
    BY <1>4, <2>4, <2>5 DEF LeftBy
  <2> QED
    BY <2>6, <2>7, <2>8
<1>5. CASE n = 3
  <2>1. m = <<<<"uint64", 1>>, <<"uint32", 1>>, <<"bool", 1>>>>
    BY <1>5, StructureTable
  <2>2. /\ lens[1] = 1 /\ lens[2] = 1 /\ lens[3] = 1
        /\ ts[3] = "MPI_CXX_BOOL"
    BY <1>5 DEF LeftBy
  <2>3. newLens = Over(lens, <<>>) /\ newTypes = Over(ts, <<"MPI_INT64_T", "MPI_INT32_T">>)
    BY <1>5 DEF Steps
  <2>4. /\ newLens = [k \in 1 .. 3 |-> newLens[k]]
        /\ newLens[1] = 1 /\ newLens[2] = 1 /\ newLens[3] = 1
    BY <2>2, <2>3, FrontNone
  <2>5. /\ newTypes = [k \in 1 .. 3 |-> newTypes[k]]
        /\ newTypes[1] = "MPI_INT64_T" /\ newTypes[2] = "MPI_INT32_T" /\ newTypes[3] = "MPI_CXX_BOOL"
    BY <2>2, <2>3, FrontTwo
  <2>6. Fits(m, newLens, newTypes)
    BY <2>1, <2>4, <2>5, ThreeMembers, ByteTables, FitsThree
  <2>7. newLens \in [1 .. 3 -> Nat] /\ newTypes \in [1 .. 3 -> DOMAIN MPIBytes]
    BY <1>2, <2>4, <2>5, ByteTables
  <2>8. LeftBy(n, newLens, newTypes)
    BY <1>5, <2>4, <2>5 DEF LeftBy
  <2> QED
    BY <2>6, <2>7, <2>8
<1>6. CASE n = 4
  <2>1. m = <<<<"uint32", 1>>, <<"double", 1>>>>
    BY <1>6, StructureTable
  <2>2. lens[1] = 1 /\ lens[2] = 1 /\ lens[3] = 1
    BY <1>6 DEF LeftBy
  <2>3. newLens = Over(lens, <<>>) /\ newTypes = Over(ts, <<"MPI_INT32_T", "MPI_DOUBLE">>)
    BY <1>6 DEF Steps
  <2>4. /\ newLens = [k \in 1 .. 3 |-> newLens[k]]
        /\ newLens[1] = 1 /\ newLens[2] = 1 /\ newLens[3] = 1
    BY <2>2, <2>3, FrontNone
  <2>5. /\ newTypes = [k \in 1 .. 3 |-> newTypes[k]]
        /\ newTypes[1] = "MPI_INT32_T" /\ newTypes[2] = "MPI_DOUBLE" /\ newTypes[3] = ts[3]
    BY <2>2, <2>3, FrontTwo
  <2>6. Fits(m, newLens, newTypes)
    BY <2>1, <2>4, <2>5, TwoMembers, ByteTables, FitsTwo
  <2>7. newLens \in [1 .. 3 -> Nat] /\ newTypes \in [1 .. 3 -> DOMAIN MPIBytes]
    BY <1>2, <2>4, <2>5, ByteTables
  <2>8. LeftBy(n, newLens, newTypes)
    BY <1>6, <2>4, <2>5 DEF LeftBy
  <2> QED
    BY <2>6, <2>7, <2>8
<1>7. CASE n = 5
  <2>1. m = <<<<"char", MAX_IDENT>>, <<"long", 1>>>>
    BY <1>7, StructureTable
  <2>2. lens[1] = 1 /\ lens[2] = 1 /\ lens[3] = 1
    BY <1>7 DEF LeftBy
  <2>3. newLens = Over(lens, <<MAX_IDENT, 1>>) /\ newTypes = Over(ts, <<"MPI_CHAR", "MPI_UNSIGNED_LONG">>)
    BY <1>7 DEF Steps
  <2>4. /\ newLens = [k \in 1 .. 3 |-> newLens[k]]
        /\ newLens[1] = MAX_IDENT /\ newLens[2] = 1 /\ newLens[3] = 1
    BY <2>2, <2>3, FrontTwo
  <2>5. /\ newTypes = [k \in 1 .. 3 |-> newTypes[k]]
        /\ newTypes[1] = "MPI_CHAR" /\ newTypes[2] = "MPI_UNSIGNED_LONG" /\ newTypes[3] = ts[3]
    BY <2>2, <2>3, FrontTwo
  <2>6. Fits(m, newLens, newTypes)
    BY <2>1, <2>4, <2>5, TwoMembers, ByteTables, FitsTwo
  <2>7. newLens \in [1 .. 3 -> Nat] /\ newTypes \in [1 .. 3 -> DOMAIN MPIBytes]
    BY <1>2, <2>4, <2>5, ByteTables
  <2>8. LeftBy(n, newLens, newTypes)
    BY <1>7, <2>4, <2>5 DEF LeftBy
  <2> QED
    BY <2>6, <2>7, <2>8
<1>8. CASE n = 6
  <2>1. m = <<<<"char", MAX_IDENT>>, <<"char", MAX_UNITS_LENGTH>>, <<"double", 1>>>>
    BY <1>8, StructureTable
  <2>2. TRUE
    BY <1>8 DEF LeftBy
  <2>3. newLens = Over(lens, <<MAX_IDENT, MAX_UNITS_LENGTH, 1>>) /\ newTypes = Over(ts, <<"MPI_CHAR", "MPI_CHAR", "MPI_DOUBLE">>)
    BY <1>8 DEF Steps
  <2>4. /\ newLens = [k \in 1 .. 3 |-> newLens[k]]
        /\ newLens[1] = MAX_IDENT /\ newLens[2] = MAX_UNITS_LENGTH /\ newLens[3] = 1
    BY <2>2, <2>3, FrontThree
  <2>5. /\ newTypes = [k \in 1 .. 3 |-> newTypes[k]]
        /\ newTypes[1] = "MPI_CHAR" /\ newTypes[2] = "MPI_CHAR" /\ newTypes[3] = "MPI_DOUBLE"
    BY <2>2, <2>3, FrontThree
  <2>6. Fits(m, newLens, newTypes)
    BY <2>1, <2>4, <2>5, ThreeMembers, ByteTables, FitsThree
  <2>7. newLens \in [1 .. 3 -> Nat] /\ newTypes \in [1 .. 3 -> DOMAIN MPIBytes]
    BY <1>2, <2>4, <2>5, ByteTables
  <2>8. LeftBy(n, newLens, newTypes)
    BY <1>8, <2>4, <2>5 DEF LeftBy
  <2> QED
    BY <2>6, <2>7, <2>8
<1> QED
  BY <1>1, <1>3, <1>4, <1>5, <1>6, <1>7, <1>8

\* So the type that is created is the type of the structure.
LEMMA CreatedFits ==
    ASSUME NEW n \in 1 .. 6, NEW m, m = Structures[Steps[n].of],
           NEW old \in [1 .. 3 -> Nat], NEW offs, offs = Over(old, OffsetOf(m)),
           NEW lens, NEW ts, Fits(m, lens, ts),
           NEW at, at = CreateStruct(Steps[n].count, lens, offs, ts)
    PROVE  /\ offs \in [1 .. 3 -> Nat]
           /\ at = MembersAt(m)
           /\ Extent(Steps[n], ts, at) = SizeOf(m)
<1>1. /\ Steps[n].count = Len(m) /\ Len(m) \in {2, 3} /\ DOMAIN m = 1 .. Len(m)
      /\ OffsetOf(m) \in [1 .. Len(m) -> Nat]
  <2>1. /\ Steps[n].count = Len(m) /\ Len(m) \in {2, 3} /\ DOMAIN m = 1 .. Len(m)
        /\ \A k \in 1 .. Len(m) : m[k][1] \in DOMAIN BytesOf /\ m[k][2] \in Nat
    BY StructureFacts, Zenon
  <2>2. PICK s : s = m
    OBVIOUS
  <2>3. /\ Len(s) \in {2, 3}
        /\ \A k \in 1 .. Len(s) : s[k][1] \in DOMAIN BytesOf /\ s[k][2] \in Nat
    BY <2>1, <2>2
  <2>4. OffsetOf(s) \in [1 .. Len(s) -> Nat]
    BY ONLY <2>3, OffsetsAreNat
  <2> QED
    BY <2>1, <2>2, <2>4
<1>2. PICK off \in [1 .. Len(m) -> Nat] : off = OffsetOf(m)
  BY <1>1
<1>3. offs = [k \in 1 .. 3 |-> IF k \in 1 .. Len(m) THEN off[k] ELSE old[k]]
  BY <1>2 DEF Over
<1>4. offs \in [1 .. 3 -> Nat] /\ \A k \in 1 .. Len(m) : offs[k] = off[k]
  <2>1. \A k \in 1 .. Len(m) : k \in 1 .. 3
    <3>1. PICK l \in {2, 3} : l = Len(m)
      BY <1>1
    <3>2. \A k \in 1 .. l : k \in 1 .. 3
      OBVIOUS
    <3> QED
      BY <3>1, <3>2
  <2>2. \A k \in 1 .. Len(m) : off[k] \in Nat
    OBVIOUS
  <2>3. \A k \in 1 .. 3 : old[k] \in Nat
    OBVIOUS
  <2> QED
    BY <1>3, <2>1, <2>2, <2>3
<1>5. \A k \in 1 .. Len(m) : lens[k] = m[k][2] /\ MPIBytes[ts[k]] = BytesOf[m[k][1]]
  BY DEF Fits
<1>6. at = MembersAt(m)
  <2>1. at = {<<offs[k], lens[k] * MPIBytes[ts[k]]>> : k \in 1 .. Len(m)}
    BY <1>1 DEF CreateStruct
  <2>2. MembersAt(m) = {<<off[k], m[k][2] * BytesOf[m[k][1]]>> : k \in 1 .. Len(m)}
    BY <1>1, <1>2 DEF MembersAt
  <2>3. \A k \in 1 .. Len(m) : <<offs[k], lens[k] * MPIBytes[ts[k]]>>
                                 = <<off[k], m[k][2] * BytesOf[m[k][1]]>>
    BY <1>4, <1>5
  <2> QED
    BY <2>1, <2>2, <2>3
<1>7. {MPIBytes[ts[k]] : k \in 1 .. Len(m)} = {BytesOf[m[k][1]] : k \in 1 .. Len(m)}
  <2>1. PICK l : l = Len(m)
    OBVIOUS
  <2>2. PICK f, g : f = [k \in 1 .. l |-> MPIBytes[ts[k]]] /\ g = [k \in 1 .. l |-> BytesOf[m[k][1]]]
    OBVIOUS
  <2>3. f = g
    BY <1>5, <2>1, <2>2
  <2>4. /\ {MPIBytes[ts[k]] : k \in 1 .. l} = {f[k] : k \in 1 .. l}
        /\ {BytesOf[m[k][1]] : k \in 1 .. l} = {g[k] : k \in 1 .. l}
    BY <2>2
  <2> QED
    BY <2>1, <2>3, <2>4
<1>8. Extent(Steps[n], ts, at) = SizeOf(m)
  BY <1>1, <1>6, <1>7 DEF Extent, SizeOf
<1> QED
  BY <1>4, <1>6, <1>8
-----------------------------------------------------------------------------
(***************************************************************************)
(* The steps of a rank.                                                    *)
(***************************************************************************)
LEMMA StepNamesDiffer ==
    ASSUME NEW k \in 1 .. 6, NEW l \in 1 .. 6, Steps[k].of = Steps[l].of
    PROVE  k = l
<1>1. /\ k = 1 \/ k = 2 \/ k = 3 \/ k = 4 \/ k = 5 \/ k = 6
      /\ l = 1 \/ l = 2 \/ l = 3 \/ l = 4 \/ l = 5 \/ l = 6
  OBVIOUS
<1> QED
  BY <1>1, StructureTable

LEMMA MadeOneMore ==
    ASSUME NEW D, NEW n \in 0 .. 5, D = {Steps[k].of : k \in 1 .. n}, Cardinality(D) = n
    PROVE  /\ Steps[n + 1].of \notin D
           /\ Cardinality(D \union {Steps[n + 1].of}) = n + 1
           /\ D \union {Steps[n + 1].of} = {Steps[k].of : k \in 1 .. n + 1}
<1>1. Steps[n + 1].of \notin D
  <2>1. ASSUME NEW k \in 1 .. n, Steps[k].of = Steps[n + 1].of PROVE FALSE
    <3>1. k \in 1 .. 6 /\ n + 1 \in 1 .. 6 /\ k # n + 1
      OBVIOUS
    <3> QED
      BY <2>1, <3>1, StepNamesDiffer
  <2> QED
    BY <2>1
<1>2. IsFiniteSet(D)
  <2>1. IsFiniteSet(1 .. n)
    BY FS_Interval
  <2>2. PICK f : f = [k \in 1 .. n |-> Steps[k].of]
    OBVIOUS
  <2>3. D = {f[k] : k \in 1 .. n}
    BY <2>2
  <2>4. f \in [1 .. n -> D]
    BY <2>2
  <2>5. f \in Surjection(1 .. n, D)
    BY <2>3, <2>4 DEF Surjection
  <2> QED
    BY <2>1, <2>5, FS_Surjection
<1>3. D \union {Steps[n + 1].of} = {Steps[k].of : k \in 1 .. n + 1}
  <2>1. \A k : k \in 1 .. n + 1 <=> (k \in 1 .. n \/ k = n + 1)
    OBVIOUS
  <2> QED
    BY <2>1
<1> QED
  BY <1>1, <1>2, <1>3, FS_AddElement

LEMMA DataTypeMade ==
    ASSUME ApplicationInv, NEW r \in Ranks, makeDataType(r)
    PROVE  ApplicationInv'
<1> DEFINE n == Made(r) + 1
           m == Structures[Steps[n].of]
           t0 == Steps[n].of
<1>1. /\ pc[r] = "types" /\ UNCHANGED <<size, argc, readable, pc, m_nWorkers, role>>
      /\ Made(r) < Len(Steps) /\ MadeInOrder(r) /\ ArraysOK(r) /\ TypeOK
      /\ DOMAIN lengths = Ranks /\ DOMAIN types = Ranks /\ DOMAIN offsets = Ranks
      /\ DOMAIN datatypes = Ranks
  BY DEF makeDataType, ApplicationInv, Made
<1>2. /\ n \in 1 .. 6 /\ n - 1 \in 0 .. 5 /\ n - 1 = Made(r)
  BY <1>1, StructureTable DEF MadeInOrder
<1>3. PICK lens, ts, offs, at :
         /\ lens = Over(lengths[r], Steps[n].lengths) /\ lengths' = [lengths EXCEPT ![r] = lens]
         /\ ts = Over(types[r], Steps[n].types) /\ types' = [types EXCEPT ![r] = ts]
         /\ offs = Over(offsets[r], OffsetOf(m)) /\ offsets' = [offsets EXCEPT ![r] = offs]
         /\ at = CreateStruct(Steps[n].count, lens, offs, ts)
         /\ datatypes' = [datatypes EXCEPT
                             ![r] = [t \in DOMAIN @ \union {t0} |->
                                        IF t = t0
                                        THEN [at |-> at, extent |-> Extent(Steps[n], ts, at)]
                                        ELSE @[t]]]
  <2>1. /\ lengths' = [lengths EXCEPT ![r] = Over(lengths[r], Steps[n].lengths)]
        /\ types' = [types EXCEPT ![r] = Over(types[r], Steps[n].types)]
        /\ offsets' = [offsets EXCEPT ![r] = Over(offsets[r], OffsetOf(m))]
    BY DEF makeDataType, Making, Made
  <2>2. /\ lengths'[r] = Over(lengths[r], Steps[n].lengths)
        /\ types'[r] = Over(types[r], Steps[n].types)
        /\ offsets'[r] = Over(offsets[r], OffsetOf(m))
    BY <1>1, <2>1
  <2>3. datatypes' = [datatypes EXCEPT
           ![r] = [t \in DOMAIN @ \union {t0} |->
                      IF t = t0
                      THEN [at |-> CreateStruct(Steps[n].count, lengths'[r], offsets'[r], types'[r]),
                            extent |-> Extent(Steps[n], types'[r],
                               CreateStruct(Steps[n].count, lengths'[r], offsets'[r], types'[r]))]
                      ELSE @[t]]]
    BY DEF makeDataType, Making, Made
  <2> HIDE DEF n, m, t0
  <2>4. PICK lens : lens = lengths'[r]
    OBVIOUS
  <2>5. PICK ts : ts = types'[r]
    OBVIOUS
  <2>6. PICK offs : offs = offsets'[r]
    OBVIOUS
  <2>7. PICK at : at = CreateStruct(Steps[n].count, lens, offs, ts)
    OBVIOUS
  <2>8. datatypes' = [datatypes EXCEPT
                         ![r] = [t \in DOMAIN @ \union {t0} |->
                                    IF t = t0
                                    THEN [at |-> at, extent |-> Extent(Steps[n], ts, at)]
                                    ELSE @[t]]]
    BY <2>3, <2>4, <2>5, <2>6, <2>7
  <2>9. /\ lens = Over(lengths[r], Steps[n].lengths) /\ lengths' = [lengths EXCEPT ![r] = lens]
        /\ ts = Over(types[r], Steps[n].types) /\ types' = [types EXCEPT ![r] = ts]
        /\ offs = Over(offsets[r], OffsetOf(m)) /\ offsets' = [offsets EXCEPT ![r] = offs]
    BY <2>1, <2>2, <2>4, <2>5, <2>6
  <2> QED
    BY <2>7, <2>8, <2>9
<1>4. /\ lengths[r] \in [1 .. 3 -> Nat] /\ offsets[r] \in [1 .. 3 -> Nat]
      /\ types[r] \in [1 .. 3 -> DOMAIN MPIBytes] /\ LeftBy(n - 1, lengths[r], types[r])
  BY <1>1, <1>2 DEF TypeOK, ArraysOK
<1>5. /\ lens \in [1 .. 3 -> Nat] /\ ts \in [1 .. 3 -> DOMAIN MPIBytes]
      /\ LeftBy(n, lens, ts) /\ Fits(m, lens, ts)
  <2> HIDE DEF n
  <2> QED
    BY <1>2, <1>3, <1>4, StepFits
<1>6. /\ offs \in [1 .. 3 -> Nat] /\ at = MembersAt(m) /\ Extent(Steps[n], ts, at) = SizeOf(m)
  <2> HIDE DEF n
  <2> QED
    BY <1>2, <1>3, <1>4, <1>5, CreatedFits
<1>7. /\ DOMAIN datatypes'[r] = DOMAIN datatypes[r] \union {t0}
      /\ datatypes'[r][t0] = [at |-> at, extent |-> Extent(Steps[n], ts, at)]
      /\ \A t \in DOMAIN datatypes[r] \ {t0} : datatypes'[r][t] = datatypes[r][t]
  <2> HIDE DEF n, m, t0
  <2> QED
    BY <1>1, <1>3
<1>8. /\ t0 \notin DOMAIN datatypes[r]
      /\ Cardinality(DOMAIN datatypes'[r]) = n
      /\ DOMAIN datatypes'[r] = {Steps[k].of : k \in 1 .. n}
  <2>1. PICK D, c : D = DOMAIN datatypes[r] /\ c = n - 1
    OBVIOUS
  <2>2. /\ c \in 0 .. 5 /\ D = {Steps[k].of : k \in 1 .. c} /\ Cardinality(D) = c /\ n = c + 1
    BY <1>1, <1>2, <2>1 DEF MadeInOrder, Made
  <2> HIDE DEF n
  <2>3. /\ Steps[c + 1].of \notin D
        /\ Cardinality(D \union {Steps[c + 1].of}) = c + 1
        /\ D \union {Steps[c + 1].of} = {Steps[k].of : k \in 1 .. c + 1}
    BY <2>2, MadeOneMore
  <2> QED
    BY <1>7, <2>1, <2>2, <2>3
<1>9. ASSUME NEW q \in Ranks, q # r
      PROVE  /\ lengths'[q] = lengths[q] /\ types'[q] = types[q] /\ offsets'[q] = offsets[q]
             /\ datatypes'[q] = datatypes[q]
  <2> HIDE DEF n, m, t0
  <2> QED
    BY <1>1, <1>3, <1>9
<1>10. /\ DOMAIN lengths' = Ranks /\ DOMAIN types' = Ranks /\ DOMAIN offsets' = Ranks
       /\ DOMAIN datatypes' = Ranks /\ Ranks' = Ranks
       /\ lengths'[r] = lens /\ types'[r] = ts /\ offsets'[r] = offs
  <2> HIDE DEF n, m, t0
  <2> QED
    BY <1>1, <1>3 DEF Ranks
<1>11. Made(r)' = n /\ MadeInOrder(r)' /\ ArraysOK(r)'
  <2> HIDE DEF n
  <2>1. n \in 0 .. 6
    BY <1>2
  <2> QED
    BY <1>5, <1>8, <1>10, <2>1 DEF Made, MadeInOrder, ArraysOK
<1>12. ASSUME NEW q \in Ranks, q # r PROVE MadeInOrder(q)' /\ ArraysOK(q)'
  BY <1>9, <1>12 DEF ApplicationInv, Made, MadeInOrder, ArraysOK
<1>13. DOMAIN datatypes'[r] \subseteq DOMAIN Structures
  <2> HIDE DEF n
  <2>1. ASSUME NEW k \in 1 .. 6 PROVE Steps[k].of \in DOMAIN Structures
    <3>1. PICK m_k : m_k = Structures[Steps[k].of]
      OBVIOUS
    <3> QED
      BY <3>1, StructureFacts
  <2>2. \A k \in 1 .. n : k \in 1 .. 6
    BY <1>2
  <2> QED
    BY <1>8, <2>1, <2>2
<1>14. TypeOK'
  <2> HIDE DEF n, m, t0
  <2>1. ASSUME NEW q \in Ranks
        PROVE  /\ lengths'[q] \in [1 .. 3 -> Nat] /\ offsets'[q] \in [1 .. 3 -> Nat]
               /\ types'[q] \in [1 .. 3 -> DOMAIN MPIBytes]
               /\ DOMAIN datatypes'[q] \subseteq DOMAIN Structures
    <3>1. CASE q = r
      BY <1>5, <1>6, <1>10, <1>13, <3>1
    <3>2. CASE q # r
      BY <1>1, <1>9, <3>2 DEF TypeOK
    <3> QED
      BY <3>1, <3>2
  <2> QED
    BY <1>1, <1>10, <2>1 DEF TypeOK
<1>15. MessagesFitTheirTypes'
  <2>1. ASSUME NEW q \in Ranks, NEW t \in DOMAIN datatypes'[q]
        PROVE  /\ datatypes'[q][t].at = MembersAt(Structures[t])
               /\ datatypes'[q][t].extent = SizeOf(Structures[t])
    <3>1. CASE q # r
      BY <1>9, <3>1 DEF ApplicationInv, MessagesFitTheirTypes
    <3>2. CASE q = r /\ t # t0
      <4>1. t \in DOMAIN datatypes[r] \ {t0}
        BY <1>7, <3>2
      <4> QED
        BY <1>7, <3>2, <4>1 DEF ApplicationInv, MessagesFitTheirTypes
    <3>3. CASE q = r /\ t = t0
      BY <1>6, <1>7, <3>3
    <3> QED
      BY <3>1, <3>2, <3>3
  <2> QED
    BY <1>10, <2>1 DEF MessagesFitTheirTypes
<1> QED
  BY <1>10, <1>11, <1>12, <1>14, <1>15 DEF ApplicationInv
-----------------------------------------------------------------------------
(***************************************************************************)
(* The other steps leave the arrays and the data types alone, and those    *)
(* but TakeRole the roles as well.                                         *)
(***************************************************************************)
LEMMA DataTypesKept ==
    ASSUME ApplicationInv, UNCHANGED <<size, lengths, types, offsets, datatypes>>, TypeOK'
    PROVE  ApplicationInv'
<1>1. Ranks' = Ranks
  BY DEF Ranks
<1> QED
  BY <1>1 DEF ApplicationInv, MadeInOrder, ArraysOK, Made, MessagesFitTheirTypes

LEMMA RankGoes ==
    ASSUME ApplicationInv, NEW r \in Ranks, NEW from,
           NEW to \in {"read", "init", "types", "roles", "role", "finalize", "ended", "thrown"},
           Goes(r, from, to), UNCHANGED <<m_nWorkers, role>>
    PROVE  ApplicationInv'
<1>1. UNCHANGED <<size, argc, readable, lengths, types, offsets, datatypes, m_nWorkers, role>>
  BY DEF Goes
<1>2. TypeOK /\ Ranks' = Ranks
  BY <1>1 DEF ApplicationInv, Ranks
<1>3. pc' \in [Ranks -> {"read", "init", "types", "roles", "role", "finalize", "ended", "thrown"}]
  BY <1>2 DEF TypeOK, Goes
<1>4. TypeOK'
  BY <1>1, <1>2, <1>3 DEF TypeOK
<1> QED
  BY <1>1, <1>4, DataTypesKept

\* There is a worker when there are enough processes, and everyone has a role.
LEMMA RoleTaken ==
    ASSUME ApplicationInv, NEW r \in Ranks, TakeRole(r)
    PROVE  ApplicationInv'
<1>1. /\ UNCHANGED <<size, argc, readable, lengths, types, offsets, datatypes>>
      /\ pc' = [pc EXCEPT ![r] = "role"]
      /\ m_nWorkers' = [m_nWorkers EXCEPT ![r] = size - 3]
      /\ role' = [role EXCEPT ![r] = RoleOf(r)]
      /\ ~ size < MINIMUM_SIZE
  BY DEF TakeRole, Goes, TooSmall, WorkersOf
<1>2. TypeOK /\ Ranks' = Ranks
  BY <1>1 DEF ApplicationInv, Ranks
<1>3. size \in Nat /\ size - 3 \in 1 .. size
  BY <1>1, <1>2, ApplicationAssumption DEF TypeOK
<1>4. RoleOf(r) \in Roles \ {"none"}
  <2>1. r \in 0 .. size - 1
    BY DEF Ranks
  <2>2. CASE r < 3
    <3>1. r = 0 \/ r = 1 \/ r = 2
      BY <1>3, <2>1, <2>2
    <3>2. <<"dealer", "farmer", "outputter">>[r + 1] \in {"dealer", "farmer", "outputter"}
      BY <3>1
    <3> QED
      BY <2>2, <3>2 DEF RoleOf, Roles
  <2>3. CASE ~ r < 3
    BY <2>3 DEF RoleOf, Roles
  <2> QED
    BY <2>2, <2>3
<1>5. PICK w, own : w = size - 3 /\ own = RoleOf(r)
  OBVIOUS
<1>6. /\ pc' \in [Ranks -> {"read", "init", "types", "roles", "role", "finalize", "ended", "thrown"}]
      /\ role' \in [Ranks -> Roles] /\ DOMAIN m_nWorkers' = Ranks
      /\ role'[r] # "none" /\ m_nWorkers'[r] \in 1 .. size
      /\ \A q \in Ranks \ {r} : role'[q] = role[q] /\ m_nWorkers'[q] = m_nWorkers[q]
  <2>1. pc' \in [Ranks -> {"read", "init", "types", "roles", "role", "finalize", "ended", "thrown"}]
    BY <1>1, <1>2 DEF TypeOK
  <2>2. role' \in [Ranks -> Roles] /\ role'[r] # "none"
    BY <1>1, <1>2, <1>4, <1>5 DEF TypeOK
  <2>3. DOMAIN m_nWorkers' = Ranks /\ m_nWorkers'[r] \in 1 .. size
    BY <1>1, <1>2, <1>3, <1>5 DEF TypeOK
  <2>4. \A q \in Ranks \ {r} : role'[q] = role[q] /\ m_nWorkers'[q] = m_nWorkers[q]
    BY <1>1, <1>2 DEF TypeOK
  <2> QED
    BY <2>1, <2>2, <2>3, <2>4
<1>7. \A q \in Ranks : m_nWorkers'[q] \in IF role'[q] = "none" THEN {0} ELSE 1 .. size
  BY <1>2, <1>6 DEF TypeOK
<1>8. TypeOK'
  BY <1>1, <1>2, <1>6, <1>7 DEF TypeOK
<1> QED
  BY <1>1, <1>8, DataTypesKept
-----------------------------------------------------------------------------
LEMMA ApplicationInit == Init => ApplicationInv
<1> SUFFICES ASSUME Init PROVE ApplicationInv
  OBVIOUS
<1>1. ASSUME NEW r \in Ranks
      PROVE  /\ lengths[r] = [k \in 1 .. 3 |-> 1] /\ types[r] = [k \in 1 .. 3 |-> "MPI_INT"]
             /\ offsets[r] = [k \in 1 .. 3 |-> 0] /\ datatypes[r] = [t \in {} |-> 0]
             /\ m_nWorkers[r] = 0 /\ role[r] = "none"
  BY DEF Init
<1>2. \A r \in Ranks : DOMAIN datatypes[r] = {} /\ Made(r) = 0
  BY <1>1, FS_EmptySet DEF Made
<1>3. TypeOK
  <2>1. readable \in [Ranks -> BOOLEAN]
    BY DEF Init
  <2>2. /\ pc \in [Ranks -> {"read", "init", "types", "roles", "role", "finalize", "ended", "thrown"}]
        /\ role \in [Ranks -> Roles] /\ DOMAIN m_nWorkers = Ranks
    BY DEF Init, Roles
  <2>3. \A r \in Ranks : /\ lengths[r] \in [1 .. 3 -> Nat] /\ offsets[r] \in [1 .. 3 -> Nat]
                         /\ types[r] \in [1 .. 3 -> DOMAIN MPIBytes]
                         /\ DOMAIN datatypes[r] \subseteq DOMAIN Structures
    BY <1>1, <1>2, ByteTables
  <2> QED
    BY <1>1, <2>1, <2>2, <2>3 DEF TypeOK, Init
<1>4. \A r \in Ranks : MadeInOrder(r)
  <2>1. {Steps[k].of : k \in 1 .. 0} = {} /\ 0 \in 0 .. 6
    OBVIOUS
  <2> QED
    BY <1>2, <2>1 DEF MadeInOrder
<1>5. \A r \in Ranks : ArraysOK(r)
  BY <1>1, <1>2 DEF ArraysOK, LeftBy
<1>6. MessagesFitTheirTypes
  BY <1>2 DEF MessagesFitTheirTypes
<1>7. /\ DOMAIN lengths = Ranks /\ DOMAIN types = Ranks /\ DOMAIN offsets = Ranks
      /\ DOMAIN datatypes = Ranks
  BY DEF Init
<1> QED
  BY <1>3, <1>4, <1>5, <1>6, <1>7 DEF ApplicationInv

LEMMA ApplicationNext == ApplicationInv /\ [Next]_vars => ApplicationInv'
<1> SUFFICES ASSUME ApplicationInv, [Next]_vars PROVE ApplicationInv'
  OBVIOUS
<1>1. CASE UNCHANGED vars
  <2>1. /\ UNCHANGED <<size, lengths, types, offsets, datatypes>>
        /\ UNCHANGED <<argc, readable, pc, m_nWorkers, role>>
    BY <1>1 DEF vars
  <2>2. Ranks' = Ranks /\ TypeOK
    BY <2>1 DEF Ranks, ApplicationInv
  <2>3. TypeOK'
    BY <2>1, <2>2 DEF TypeOK
  <2> QED
    BY <2>1, <2>3, DataTypesKept
<1>2. ASSUME NEW r \in Ranks, Step(r) PROVE ApplicationInv'
  <2>1. CASE Read(r)
    <3>1. PICK to \in {"init", "thrown"} : Goes(r, "read", to)
      BY <2>1 DEF Read
    <3> QED
      BY <2>1, <3>1, RankGoes DEF Read
  <2>2. CASE MPI_Init(r)
    BY <2>2, RankGoes DEF MPI_Init
  <2>3. CASE makeDataType(r)
    BY <2>3, DataTypeMade
  <2>4. CASE MPI_Comm_rank(r)
    BY <2>4, RankGoes DEF MPI_Comm_rank
  <2>5. CASE ThrowTooSmall(r)
    BY <2>5, RankGoes DEF ThrowTooSmall
  <2>6. CASE TakeRole(r)
    BY <2>6, RoleTaken
  <2>7. CASE ThrowArguments(r)
    BY <2>7, RankGoes DEF ThrowArguments
  <2>8. CASE RoleEnds(r)
    BY <2>8, RankGoes DEF RoleEnds
  <2>9. CASE MPI_Finalize(r)
    BY <2>9, RankGoes DEF MPI_Finalize
  <2> QED
    BY <1>2, <2>1, <2>2, <2>3, <2>4, <2>5, <2>6, <2>7, <2>8, <2>9 DEF Step
<1> QED
  BY <1>1, <1>2 DEF Next

LEMMA ApplicationInvHolds == Spec => []ApplicationInv
BY ApplicationInit, ApplicationNext, PTL DEF Spec

(***************************************************************************)
(* Every process has types, arrays and a role that fit its size: a process *)
(* that has a role counts at least one worker                              *)
(* (AbstractApplication::operator()).                                      *)
(***************************************************************************)
THEOREM ApplicationTypeCorrect == Spec => []TypeOK
<1>1. ApplicationInv => TypeOK
  BY DEF ApplicationInv
<1> QED
  BY <1>1, ApplicationInvHolds, PTL

(***************************************************************************)
(* Each data type that a process has described to MPI is exactly its       *)
(* structure, for any lengths of names and units, although all are made    *)
(* with the same arrays, which most steps set only in part                 *)
(* (AbstractApplication::makeDataTypes).                                   *)
(***************************************************************************)
THEOREM TypesAreStructures == Spec => []MessagesFitTheirTypes
<1>1. ApplicationInv => MessagesFitTheirTypes
  BY DEF ApplicationInv
<1> QED
  BY <1>1, ApplicationInvHolds, PTL
=============================================================================
