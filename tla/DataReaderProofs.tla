-------------------------- MODULE DataReaderProofs --------------------------
(***************************************************************************)
(* The reader's blocks are the file, for files of any length and buffers   *)
(* of any size, where FilesAreReadable.                                    *)
(***************************************************************************)
EXTENDS DataReader, FiniteSetTheorems, SequenceTheorems, TLAPS

\* How much of the file was handed out and given back.
Start == fpos - m_nBytes

\* No item of f lies on both sides of b.
Boundary(f, b) == b = 0 \/ f[b].at = f[b].size

\* The item of f behind b is cut off.
Torn(f, b) == b < Len(f) /\ b + f[b + 1].size > Len(f)

\* Where the items of f end that end behind a and not behind b.
EndsIn(f, a, b) == {i \in a + 1 .. b : f[i].at = f[i].size}

(***************************************************************************)
(* What the hypothesis says of one file and one buffer.                    *)
(***************************************************************************)
Readable(f, b) ==
    /\ f \in Seq(Cell) /\ ItemsInARow(f)
    /\ Aligned(Len(f)) /\ \A i \in DOMAIN f : Aligned(f[i].size)
    /\ b \in Nat \ {0} /\ Aligned(b)
    /\ \A n \in Shortfalls :
          /\ n \in Nat /\ n <= b /\ Aligned(n)
          /\ \A i \in DOMAIN f : 2 * (f[i].size + n) <= b + 2 * SizeField

(***************************************************************************)
(* The inductive invariant.  Where the buffer stands in the file: all      *)
(* amounts are aligned, and the buffer is full unless the file is at its   *)
(* end.                                                                    *)
(***************************************************************************)
Counts ==
    /\ Readable(file, m_nBufferSize)
    /\ m_pBuffer \in [Slots -> Cell]
    /\ m_nBytes \in Nat /\ m_nBytes <= m_nBufferSize
    /\ fpos \in Nat /\ m_nBytes <= fpos /\ fpos <= Len(file)
    /\ m_nUserBytes \in Nat /\ m_nUserItems \in Nat
    /\ Aligned(fpos) /\ Aligned(m_nBytes) /\ Aligned(m_nUserBytes)
    /\ m_eof \in BOOLEAN /\ (m_eof => fpos = Len(file))
    /\ pc = "construct" => fpos = 0 /\ m_nBytes = 0
    /\ pc # "construct" => m_nBytes = m_nBufferSize \/ fpos = Len(file)

(***************************************************************************)
(* The buffer holds what follows in the file.  Of an item that is cut off  *)
(* at the end of the file done() may have moved no more than the size.     *)
(***************************************************************************)
Contents ==
    \A c \in 1 .. m_nBytes :
       \/ m_pBuffer[c] = file[Start + c]
       \/ c > SizeField /\ fpos = Len(file) /\ Torn(file, Start)

\* What was handed out is the file up to the front, or to the end of the block.
Handed ==
    /\ handed \in Seq(Cell)
    /\ handed = SubSeq(file, 1, Len(handed))
    /\ Len(handed) = IF pc = "held" THEN Start + m_nUserBytes ELSE Start
    /\ Boundary(file, Len(handed))
    /\ handedItems = Cardinality(EndsIn(file, 0, Len(handed)))

(***************************************************************************)
(* The block begins at the front, and consists of whole items.             *)
(***************************************************************************)
Probing ==
    pc \in {"probe", "held"} =>
       /\ m_nUserBytes <= m_nBytes
       /\ Boundary(file, Start) /\ Boundary(file, Start + m_nUserBytes)
       /\ m_nUserItems = Cardinality(EndsIn(file, Start, Start + m_nUserBytes))
       /\ m_nUserBytes > 0 => ~ (fpos = Len(file) /\ Torn(file, Start))

Asked ==
    pc = "probe" =>
       /\ m_nUserBytes <= maxBytes
       /\ \E n \in Shortfalls : maxBytes = Smaller(m_nBufferSize - n, m_nBytes)

(***************************************************************************)
(* What is left of a buffer is no more than the block, which is all that   *)
(* done() moves, or it is an item that is cut off at the end of the file.  *)
(***************************************************************************)
Left ==
    pc = "held" =>
       /\ m_nUserBytes > 0
       /\ \/ m_nBytes - m_nUserBytes <= m_nUserBytes
          \/ fpos = Len(file) /\ Torn(file, Start + m_nUserBytes)

Control ==
    /\ pc \in {"construct", "idle", "probe", "held", "ended", "thrown"}
    /\ pc = "ended" => Start = Len(file)

ReaderInv == Counts /\ Contents /\ Handed /\ Probing /\ Asked /\ Left /\ Control
-----------------------------------------------------------------------------
(***************************************************************************)
(* Multiples of SizeField.                                                 *)
(***************************************************************************)
LEMMA FieldType == SizeField \in Nat \ {0}
BY ReaderAssumption

LEMMA TimesMonotone ==
    ASSUME NEW k \in Nat, NEW l \in Nat, NEW S \in Nat, k <= l
    PROVE  k * S <= l * S
<1>1. PICK d \in Nat : l = k + d
  <2>1. l - k \in Nat /\ l = k + (l - k)
    OBVIOUS
  <2> QED
    BY <2>1
<1>2. l * S = k * S + d * S
  BY <1>1
<1>3. d * S \in Nat /\ k * S \in Nat /\ l * S \in Nat
  OBVIOUS
<1> QED
  BY <1>2, <1>3

LEMMA AlignedSum ==
    ASSUME NEW a \in Nat, NEW b \in Nat, Aligned(a), Aligned(b)
    PROVE  Aligned(a + b)
<1>1. PICK k \in 0 .. a : a = k * SizeField
  BY DEF Aligned
<1>2. PICK l \in 0 .. b : b = l * SizeField
  BY DEF Aligned
<1>3. k + l \in 0 .. a + b
  OBVIOUS
<1>4. a + b = (k + l) * SizeField
  BY <1>1, <1>2, FieldType
<1> QED
  BY <1>3, <1>4 DEF Aligned

LEMMA AlignedApart ==
    ASSUME NEW a \in Nat, NEW b \in Nat, Aligned(a), Aligned(b), a < b
    PROVE  a + SizeField <= b
<1>1. PICK k \in Nat : a = k * SizeField
  BY DEF Aligned
<1>2. PICK l \in Nat : b = l * SizeField
  BY DEF Aligned
<1>3. ~ l <= k
  BY <1>1, <1>2, TimesMonotone, FieldType
<1>4. (k + 1) * SizeField <= l * SizeField
  BY <1>3, TimesMonotone, FieldType
<1>5. (k + 1) * SizeField = k * SizeField + SizeField
  BY FieldType
<1> QED
  BY <1>1, <1>2, <1>4, <1>5

LEMMA AlignedZero == Aligned(0)
BY FieldType DEF Aligned

LEMMA AlignedDifference ==
    ASSUME NEW a \in Nat, NEW b \in Nat, Aligned(a), Aligned(b), b <= a
    PROVE  Aligned(a - b)
<1>1. PICK k \in Nat : a = k * SizeField
  BY DEF Aligned
<1>2. PICK l \in Nat : b = l * SizeField
  BY DEF Aligned
<1>3. CASE k <= l
  <2>1. a <= b
    BY <1>1, <1>2, <1>3, TimesMonotone, FieldType
  <2> QED
    BY <2>1, AlignedZero
<1>4. CASE l <= k
  <2>1. PICK d \in Nat : k = l + d
    <3>1. k - l \in Nat /\ k = l + (k - l)
      BY <1>4
    <3> QED
      BY <3>1
  <2>2. k * SizeField = l * SizeField + d * SizeField
    BY <2>1, FieldType
  <2>3. d * SizeField \in Nat /\ l * SizeField \in Nat
    BY FieldType
  <2>4. a - b = d * SizeField
    BY <1>1, <1>2, <2>2, <2>3
  <2>5. d * 1 <= d * SizeField
    <3>1. 1 * d <= SizeField * d
      BY TimesMonotone, FieldType
    <3> QED
      BY <3>1, FieldType
  <2>6. d \in 0 .. a - b
    BY <2>4, <2>5, <2>3
  <2> QED
    BY <2>4, <2>6 DEF Aligned
<1> QED
  BY <1>3, <1>4

LEMMA SmallerAligned ==
    ASSUME NEW a \in Nat, NEW b \in Nat, Aligned(a), Aligned(b)
    PROVE  /\ Smaller(a, b) \in Nat /\ Aligned(Smaller(a, b))
           /\ Smaller(a, b) <= a /\ Smaller(a, b) <= b
           /\ Smaller(a, b) = a \/ Smaller(a, b) = b
BY DEF Smaller
-----------------------------------------------------------------------------
(***************************************************************************)
(* Items in a row.                                                         *)
(***************************************************************************)
LEMMA CellType ==
    ASSUME NEW f \in Seq(Cell), NEW i \in 1 .. Len(f)
    PROVE  /\ f[i] \in Cell /\ DOMAIN f = 1 .. Len(f) /\ Len(f) \in Nat
           /\ f[i].item \in Nat /\ f[i].at \in Nat /\ f[i].size \in Nat
<1>1. f[i] \in Cell /\ DOMAIN f = 1 .. Len(f) /\ Len(f) \in Nat
  OBVIOUS
<1> QED
  BY <1>1 DEF Cell

\* Where no item ends or begins is within one.
LEMMA ItemStart ==
    ASSUME NEW f \in Seq(Cell), ItemsInARow(f),
           NEW b \in Nat, b < Len(f), Boundary(f, b)
    PROVE  f[b + 1].at = 1 /\ f[b + 1].size \in Nat /\ f[b + 1].size >= 1
<1> DEFINE i == b + 1
<1>1. i \in 1 .. Len(f) /\ f[i].at \in Nat /\ f[i].size \in Nat /\ DOMAIN f = 1 .. Len(f)
  BY CellType
<1>2. f[i].at \in 1 .. f[i].size /\ f[i].at <= i
  BY <1>1 DEF ItemsInARow
<1>3. f[i].at = 1
  <2>1. CASE b = 0
    BY <2>1, <1>1, <1>2
  <2>2. CASE b # 0 /\ f[i].at # 1
    <3>1. b \in DOMAIN f /\ i - f[i].at < b /\ b <= i - f[i].at + f[i].size
      BY <2>2, <1>1, <1>2
    <3>2. f[b] = [item |-> f[i].item, at |-> b + f[i].at - i, size |-> f[i].size]
      BY <3>1, <1>1 DEF ItemsInARow
    <3>3. f[b].at = f[i].at - 1 /\ f[b].size = f[i].size
      BY <3>2, <1>1
    <3>4. f[b].at = f[b].size
      BY <2>2 DEF Boundary
    <3> QED
      BY <3>3, <3>4, <1>1, <1>2
  <2> QED
    BY <2>1, <2>2
<1> QED
  BY <1>1, <1>2, <1>3

LEMMA ItemCells ==
    ASSUME NEW f \in Seq(Cell), ItemsInARow(f),
           NEW b \in Nat, b < Len(f), Boundary(f, b),
           NEW j \in 1 .. Len(f), b < j, j <= b + f[b + 1].size
    PROVE  /\ f[j].item = f[b + 1].item
           /\ f[j].at = j - b
           /\ f[j].size = f[b + 1].size
<1> DEFINE i == b + 1
<1>1. i \in 1 .. Len(f) /\ f[i].at = 1 /\ f[i].size \in Nat /\ DOMAIN f = 1 .. Len(f)
  BY ItemStart, CellType
<1>2. j \in DOMAIN f /\ i - f[i].at < j /\ j <= i - f[i].at + f[i].size
  BY <1>1
<1>3. f[j] = [item |-> f[i].item, at |-> j + f[i].at - i, size |-> f[i].size]
  BY <1>1, <1>2 DEF ItemsInARow
<1> QED
  BY <1>1, <1>3

LEMMA ItemEnd ==
    ASSUME NEW f \in Seq(Cell), ItemsInARow(f),
           NEW b \in Nat, b < Len(f), Boundary(f, b), b + f[b + 1].size <= Len(f),
           NEW a \in 0 .. b
    PROVE  /\ Boundary(f, b + f[b + 1].size)
           /\ EndsIn(f, a, b + f[b + 1].size) = EndsIn(f, a, b) \union {b + f[b + 1].size}
           /\ b + f[b + 1].size \notin EndsIn(f, a, b)
<1> DEFINE s == f[b + 1].size
<1>1. s \in Nat /\ s >= 1
  BY ItemStart
<1>2. \A j \in b + 1 .. b + s : f[j].at = j - b /\ f[j].size = s
  BY <1>1, ItemCells
<1> HIDE DEF s
<1>3. b + s \in b + 1 .. b + s /\ b + s - b = s
  BY <1>1
<1>4. f[b + s].at = f[b + s].size
  BY <1>1, <1>2
<1>5. \A j \in b + 1 .. b + s : f[j].at = f[j].size <=> j = b + s
  BY <1>1, <1>2
<1>6. EndsIn(f, a, b + s) = EndsIn(f, a, b) \union {b + s}
  BY <1>1, <1>5 DEF EndsIn
<1>7. b + s \notin EndsIn(f, a, b)
  BY <1>1 DEF EndsIn
<1> QED
  BY <1>4, <1>6, <1>7 DEF Boundary, s

LEMMA EndsFinite ==
    ASSUME NEW f, NEW a \in Nat, NEW b \in Nat
    PROVE  /\ IsFiniteSet(EndsIn(f, a, b)) /\ Cardinality(EndsIn(f, a, b)) \in Nat
           /\ Cardinality(EndsIn(f, a, a)) = 0
<1>1. IsFiniteSet(a + 1 .. b) /\ EndsIn(f, a, b) \in SUBSET (a + 1 .. b)
  BY FS_Interval DEF EndsIn
<1>2. EndsIn(f, a, a) = {}
  BY DEF EndsIn
<1> QED
  BY <1>1, <1>2, FS_Subset, FS_CardinalityType, FS_EmptySet

LEMMA EndsSum ==
    ASSUME NEW f, NEW a \in Nat, NEW b \in Nat, NEW c \in Nat, a <= b, b <= c
    PROVE  Cardinality(EndsIn(f, a, b)) + Cardinality(EndsIn(f, b, c))
              = Cardinality(EndsIn(f, a, c))
<1>1. EndsIn(f, a, c) = EndsIn(f, a, b) \union EndsIn(f, b, c)
  BY DEF EndsIn
<1>2. EndsIn(f, a, b) \intersect EndsIn(f, b, c) = {}
  BY DEF EndsIn
<1>3. IsFiniteSet(EndsIn(f, a, b)) /\ IsFiniteSet(EndsIn(f, b, c))
  BY EndsFinite
<1>4. Cardinality(EndsIn(f, a, b)) \in Nat /\ Cardinality(EndsIn(f, b, c)) \in Nat
  BY EndsFinite
<1> QED
  BY <1>1, <1>2, <1>3, <1>4, FS_Union, FS_EmptySet
-----------------------------------------------------------------------------
(***************************************************************************)
(* What the invariant says of the next item.  Its size is in the buffer,   *)
(* and probeData reads it right.                                           *)
(***************************************************************************)
LEMMA CountsType ==
    ASSUME Counts
    PROVE  /\ Start \in Nat /\ Start + m_nBytes = fpos /\ Len(file) \in Nat
           /\ m_nBufferSize \in Nat \ {0} /\ Aligned(m_nBufferSize)
           /\ Aligned(Len(file)) /\ file \in Seq(Cell) /\ ItemsInARow(file)
           /\ Aligned(Start)
<1>1. /\ Start \in Nat /\ Start + m_nBytes = fpos /\ Len(file) \in Nat
      /\ m_nBufferSize \in Nat \ {0} /\ Aligned(m_nBufferSize)
      /\ Aligned(Len(file)) /\ file \in Seq(Cell) /\ ItemsInARow(file)
  BY DEF Counts, Readable, Start
<1>2. Aligned(fpos - m_nBytes)
  BY AlignedDifference DEF Counts
<1> QED
  BY <1>1, <1>2 DEF Start

LEMMA ItemSize ==
    ASSUME Counts, NEW b \in Nat, b < Len(file), Boundary(file, b)
    PROVE  /\ file[b + 1].size \in Nat /\ Aligned(file[b + 1].size)
           /\ file[b + 1].size >= SizeField
           /\ \A n \in Shortfalls :
                 /\ n \in Nat /\ n <= m_nBufferSize /\ Aligned(n)
                 /\ 2 * (file[b + 1].size + n) <= m_nBufferSize + 2 * SizeField
<1>1. b + 1 \in DOMAIN file /\ file[b + 1].size \in Nat /\ file[b + 1].size >= 1
  BY CountsType, ItemStart
<1>2. Aligned(file[b + 1].size)
  BY <1>1 DEF Counts, Readable
<1>3. 0 + SizeField <= file[b + 1].size
  BY <1>1, <1>2, AlignedApart, AlignedZero
<1>4. \A n \in Shortfalls :
         /\ n \in Nat /\ n <= m_nBufferSize /\ Aligned(n)
         /\ 2 * (file[b + 1].size + n) <= m_nBufferSize + 2 * SizeField
  BY <1>1 DEF Counts, Readable
<1> QED
  BY <1>1, <1>2, <1>3, <1>4, FieldType

LEMMA AskedIsAligned ==
    ASSUME Counts, NEW n \in Shortfalls
    PROVE  /\ m_nBufferSize - n \in Nat
           /\ Smaller(m_nBufferSize - n, m_nBytes) \in Nat
           /\ Aligned(Smaller(m_nBufferSize - n, m_nBytes))
           /\ Smaller(m_nBufferSize - n, m_nBytes) <= m_nBytes
           /\ \/ Smaller(m_nBufferSize - n, m_nBytes) = m_nBufferSize - n
              \/ Smaller(m_nBufferSize - n, m_nBytes) = m_nBytes
<1>1. n \in Nat /\ n <= m_nBufferSize /\ Aligned(n) /\ m_nBytes \in Nat /\ Aligned(m_nBytes)
  BY DEF Counts, Readable
<1>2. m_nBufferSize - n \in Nat /\ Aligned(m_nBufferSize - n)
  BY <1>1, CountsType, AlignedDifference
<1> QED
  BY <1>1, <1>2, SmallerAligned

LEMMA SizeIsRead ==
    ASSUME Counts, Contents, Probing, Asked, pc = "probe", m_nUserBytes < maxBytes
    PROVE  /\ SizesAt(m_nUserBytes) = {file[Start + m_nUserBytes + 1].size}
           /\ Start + m_nUserBytes \in Nat /\ Start + m_nUserBytes < Len(file)
           /\ Boundary(file, Start + m_nUserBytes)
           /\ maxBytes \in Nat /\ maxBytes <= m_nBytes /\ Aligned(maxBytes)
<1> DEFINE b == Start + m_nUserBytes
           u == m_nUserBytes
<1>1. /\ u \in Nat /\ m_nBytes \in Nat /\ Aligned(u) /\ Aligned(m_nBytes)
      /\ fpos <= Len(file) /\ fpos \in Nat /\ m_nBytes <= m_nBufferSize
  BY DEF Counts
<1>2. maxBytes \in Nat /\ maxBytes <= m_nBytes /\ Aligned(maxBytes)
  <2>1. PICK n \in Shortfalls : maxBytes = Smaller(m_nBufferSize - n, m_nBytes)
    BY DEF Asked
  <2> QED
    BY <2>1, AskedIsAligned
<1>3. u + SizeField <= m_nBytes
  BY <1>1, <1>2, AlignedApart
<1>4. b \in Nat /\ b < Len(file) /\ b + SizeField <= fpos
  BY <1>1, <1>3, CountsType, FieldType
<1>5. Boundary(file, b)
  BY DEF Probing
<1>6. \A k \in 1 .. SizeField :
         file[b + k].at = k /\ file[b + k].item = file[b + 1].item
  <2> SUFFICES ASSUME NEW k \in 1 .. SizeField
               PROVE  file[b + k].at = k /\ file[b + k].item = file[b + 1].item
    OBVIOUS
  <2>1. file[b + 1].size \in Nat /\ file[b + 1].size >= SizeField
    BY <1>4, <1>5, ItemSize
  <2>2. b + k \in 1 .. Len(file) /\ b < b + k /\ b + k <= b + file[b + 1].size
    BY <1>1, <1>4, <2>1, FieldType, CountsType
  <2>3. b + k - b = k
    BY <1>4, FieldType
  <2> QED
    BY <2>2, <2>3, <1>4, <1>5, ItemCells, CountsType
<1>7. \A k \in 1 .. SizeField : m_pBuffer[u + k] = file[b + k]
  <2> SUFFICES ASSUME NEW k \in 1 .. SizeField
               PROVE  m_pBuffer[u + k] = file[b + k]
    OBVIOUS
  <2>1. u + k \in 1 .. m_nBytes /\ Start + (u + k) = b + k
    BY <1>1, <1>3, FieldType, CountsType
  <2>2. \/ m_pBuffer[u + k] = file[b + k]
        \/ u + k > SizeField /\ fpos = Len(file) /\ Torn(file, Start)
    BY <2>1 DEF Contents
  <2>3. u = 0 => ~ (u + k > SizeField)
    BY FieldType
  <2>4. u > 0 => ~ (fpos = Len(file) /\ Torn(file, Start))
    BY DEF Probing
  <2> QED
    BY <2>2, <2>3, <2>4, <1>1
<1>8. u + SizeField <= m_nBufferSize /\ 1 \in 1 .. SizeField
  BY <1>1, <1>3, FieldType, CountsType
<1>9. SizesAt(u) = {m_pBuffer[u + 1].size}
  BY <1>6, <1>7, <1>8 DEF SizesAt
<1>10. m_pBuffer[u + 1] = file[b + 1]
  BY <1>7, <1>8
<1> QED
  BY <1>2, <1>4, <1>5, <1>9, <1>10
-----------------------------------------------------------------------------
(***************************************************************************)
(* fillBuffer reads on in the file, behind what is in use.                 *)
(***************************************************************************)
LEMMA Fills ==
    ASSUME Counts, NEW memory \in [Slots -> Cell], NEW n \in 0 .. m_nBytes, n < m_nBufferSize, Aligned(n),
           fillBuffer(memory, n), UNCHANGED <<file, m_nBufferSize>>,
           \A c \in 1 .. n :
              \/ memory[c] = file[fpos - n + c]
              \/ c > SizeField /\ fpos = Len(file) /\ Torn(file, fpos - n)
    PROVE  /\ m_pBuffer' \in [Slots -> Cell]' /\ Start' = fpos - n
           /\ m_nBytes' \in Nat /\ m_nBytes' <= m_nBufferSize'
           /\ fpos' \in Nat /\ m_nBytes' <= fpos' /\ fpos' <= Len(file')
           /\ Aligned(fpos') /\ Aligned(m_nBytes')
           /\ m_eof' \in BOOLEAN /\ (m_eof' => fpos' = Len(file'))
           /\ m_nBytes' = m_nBufferSize' \/ fpos' = Len(file')
           /\ Contents'
<1> DEFINE k == IF m_eof THEN 0 ELSE ReadResult(m_nBufferSize - n)
<1>1. /\ m_nBytes \in Nat /\ Aligned(m_nBytes) /\ fpos <= Len(file) /\ fpos \in Nat
      /\ Aligned(fpos) /\ m_nBytes <= m_nBufferSize /\ m_nBytes <= fpos
      /\ m_eof \in BOOLEAN /\ (m_eof => fpos = Len(file)) /\ n \in Nat
  BY DEF Counts
<1>2. /\ m_nBufferSize - n \in Nat /\ Aligned(m_nBufferSize - n)
      /\ Len(file) - fpos \in Nat /\ Aligned(Len(file) - fpos)
  <2>1. m_nBufferSize \in Nat /\ n <= m_nBufferSize /\ Aligned(m_nBufferSize)
    BY <1>1, CountsType
  <2>2. Len(file) \in Nat /\ Aligned(Len(file))
    BY CountsType
  <2>3. Aligned(m_nBufferSize - n) /\ Aligned(Len(file) - fpos)
    BY <1>1, <2>1, <2>2, AlignedDifference
  <2> QED
    BY <1>1, <2>1, <2>2, <2>3
<1>3. /\ k \in Nat /\ Aligned(k) /\ k <= m_nBufferSize - n /\ k <= Len(file) - fpos
      /\ k = m_nBufferSize - n \/ k = Len(file) - fpos
  <2>1. CASE m_eof
    BY <2>1, <1>1, <1>2, AlignedZero
  <2>2. CASE ~ m_eof
    BY <2>2, <1>2, SmallerAligned DEF ReadResult
  <2> QED
    BY <2>1, <2>2
<1>5. /\ m_nBytes' = n + k /\ fpos' = fpos + k /\ m_eof' \in BOOLEAN
      /\ m_eof' => (m_eof \/ k = 0)
      /\ m_pBuffer' = [c \in Slots |-> IF c \in n + 1 .. n + k
                                       THEN file[fpos + c - n] ELSE memory[c]]
  <2>1. CASE m_eof
    <3>1. k = 0 /\ m_pBuffer' = memory /\ m_nBytes' = n /\ fpos' = fpos /\ m_eof'
      BY <2>1 DEF fillBuffer
    <3>2. \A c \in Slots : c \notin n + 1 .. n + k
      BY <3>1, <1>1
    <3>3. memory = [c \in Slots |-> IF c \in n + 1 .. n + k
                                    THEN file[fpos + c - n] ELSE memory[c]]
      BY <3>2
    <3> QED
      BY <3>1, <3>3, <1>1, <2>1
  <2>2. CASE ~ m_eof
    BY <2>2 DEF fillBuffer
  <2> QED
    BY <2>1, <2>2
<1> HIDE DEF k
<1>6. Aligned(fpos + k) /\ Aligned(n + k)
  BY <1>1, <1>3, AlignedSum
<1>7. m_pBuffer' \in [Slots -> Cell]
  <2> SUFFICES ASSUME NEW c \in Slots, c \in n + 1 .. n + k
               PROVE  file[fpos + c - n] \in Cell
    BY <1>5
  <2>1. fpos + c - n \in 1 .. Len(file)
    BY <1>1, <1>3, CountsType
  <2> QED
    BY <2>1, CellType, CountsType
<1>8. Start' = fpos - n
  BY <1>5, <1>1, <1>3 DEF Start
<1>9. Contents'
  <2> SUFFICES ASSUME NEW c \in 1 .. n + k
               PROVE  \/ m_pBuffer'[c] = file[fpos - n + c]
                      \/ c > SizeField /\ fpos + k = Len(file) /\ Torn(file, fpos - n)
    BY <1>5, <1>8 DEF Contents
  <2>1. c \in Slots
    BY <1>1, <1>3, CountsType DEF Slots
  <2>2. CASE c \in n + 1 .. n + k
    <3>1. fpos + c - n = fpos - n + c
      BY <1>1
    <3> QED
      BY <2>1, <2>2, <3>1, <1>5
  <2>3. CASE c \in 1 .. n
    <3>1. m_pBuffer'[c] = memory[c]
      BY <2>1, <2>3, <1>1, <1>5
    <3>2. fpos = Len(file) => fpos + k = Len(file)
      BY <1>1, <1>3
    <3> QED
      BY <2>3, <3>1, <3>2
  <2> QED
    BY <2>2, <2>3, <1>1, <1>3
<1>10. [Slots -> Cell]' = [Slots -> Cell]
  BY DEF Slots
<1>11. /\ n + k <= m_nBufferSize /\ n + k <= fpos + k /\ fpos + k <= Len(file)
       /\ n + k \in Nat /\ fpos + k \in Nat
       /\ n + k = m_nBufferSize \/ fpos + k = Len(file)
       /\ (m_eof \/ k = 0) => fpos + k = Len(file)
  <2> DEFINE l == Len(file)
             s == m_nBufferSize
  <2>1. l \in Nat /\ s \in Nat /\ n \in Nat /\ n < s /\ fpos <= l
    BY <1>1, CountsType
  <2>2. k <= s - n /\ k <= l - fpos /\ (k = s - n \/ k = l - fpos) /\ (m_eof => fpos = l)
    BY <1>1, <1>3
  <2> HIDE DEF l, s
  <2>3. n + k <= s /\ n + k <= fpos + k /\ fpos + k <= l /\ (n + k = s \/ fpos + k = l)
    BY <2>1, <2>2, <1>1, <1>3
  <2>4. (m_eof \/ k = 0) => fpos + k = l
    BY <2>1, <2>2, <1>1, <1>3
  <2> QED
    BY <2>3, <2>4, <1>1, <1>3 DEF l, s
<1>12. m_nBufferSize' = m_nBufferSize /\ Len(file') = Len(file)
  OBVIOUS
<1>13. m_eof' => fpos' = Len(file')
  BY <1>5, <1>11, <1>12
<1> QED
  BY <1>5, <1>6, <1>7, <1>8, <1>9, <1>10, <1>11, <1>12, <1>13
-----------------------------------------------------------------------------
(***************************************************************************)
(* The invariant holds initially, and every step keeps it.                 *)
(***************************************************************************)
LEMMA FilesReadable ==
    ASSUME FilesAreReadable, NEW f \in Files, NEW b \in BufferSizes
    PROVE  Readable(f, b)
<1>1. f \in Seq(Cell) /\ b \in Nat \ {0} /\ Shortfalls \subseteq Nat
  BY ReaderAssumption
<1>2. ItemsInARow(f)
  BY DEF FilesAreReadable
<1>3. /\ Aligned(Len(f)) /\ Aligned(b)
      /\ \A i \in DOMAIN f : Aligned(f[i].size)
      /\ \A n \in Shortfalls : Aligned(n)
  BY DEF FilesAreReadable, SizesAligned
<1>4. \A n \in Shortfalls : n <= b
  BY DEF FilesAreReadable, ShortfallsFit
<1>5. \A n \in Shortfalls : \A i \in DOMAIN f : 2 * (f[i].size + n) <= b + 2 * SizeField
  BY DEF FilesAreReadable, ItemsSmall
<1> QED
  BY <1>1, <1>2, <1>3, <1>4, <1>5 DEF Readable

LEMMA ReaderInit ==
    ASSUME FilesAreReadable, Init
    PROVE  ReaderInv
<1>1. Readable(file, m_nBufferSize) /\ Len(file) \in Nat /\ m_nBufferSize \in Nat
  <2>1. Readable(file, m_nBufferSize)
    BY FilesReadable DEF Init
  <2> QED
    BY <2>1 DEF Readable
<1>2. m_pBuffer \in [Slots -> Cell]
  <2>1. Junk \in Cell
    BY DEF Junk, Cell
  <2> QED
    BY <2>1 DEF Init
<1>3. Counts
  <2>1. Aligned(fpos) /\ Aligned(m_nBytes) /\ Aligned(m_nUserBytes)
    BY AlignedZero DEF Init
  <2>2. m_eof \in BOOLEAN /\ ~ m_eof
    BY DEF Init
  <2> QED
    BY <1>1, <1>2, <2>1, <2>2 DEF Counts, Init
<1>4. Contents
  BY DEF Contents, Init
<1>5. Handed
  <2>1. Cardinality(EndsIn(file, 0, 0)) = 0
    BY EndsFinite
  <2>2. <<>> \in Seq(Cell) /\ Len(<<>>) = 0 /\ <<>> = SubSeq(file, 1, 0)
    BY EmptySeq, SubSeqEmpty
  <2>3. handed = <<>> /\ handedItems = 0 /\ pc = "construct" /\ Start = 0
    BY DEF Init, Start
  <2> QED
    BY <2>1, <2>2, <2>3 DEF Handed, Boundary
<1> QED
  BY <1>3, <1>4, <1>5 DEF ReaderInv, Probing, Asked, Left, Control, Init

\* The parts of Counts that no step but fillBuffer touches.
LEMMA CountsKept ==
    ASSUME Counts, UNCHANGED <<file, m_nBufferSize, m_pBuffer, m_nBytes, fpos, m_eof>>,
           pc # "construct", pc' # "construct",
           m_nUserBytes' \in Nat, m_nUserItems' \in Nat, Aligned(m_nUserBytes')
    PROVE  Counts' /\ Start' = Start /\ (Contents => Contents')
<1>1. [Slots -> Cell]' = [Slots -> Cell]
  BY DEF Slots
<1>2. Counts'
  BY <1>1 DEF Counts
<1>3. Start' = Start
  BY DEF Start
<1> QED
  BY <1>2, <1>3 DEF Contents

LEMMA ConstructKeeps ==
    ASSUME ReaderInv, Construct
    PROVE  ReaderInv'
<1>0. /\ Counts /\ Handed /\ pc = "construct" /\ pc' = "idle" /\ fillBuffer(m_pBuffer, 0)
      /\ UNCHANGED <<file, m_nBufferSize, m_nUserBytes, m_nUserItems, handed, handedItems>>
  BY DEF ReaderInv, Construct, request, history
<1>1. m_nBytes = 0 /\ fpos = 0 /\ m_pBuffer \in [Slots -> Cell] /\ m_nBufferSize \in Nat \ {0}
  BY <1>0, CountsType DEF Counts
<1>2. 0 \in 0 .. m_nBytes /\ 0 < m_nBufferSize /\ \A c \in 1 .. 0 : FALSE
  BY <1>1
<1>3. /\ m_pBuffer' \in [Slots -> Cell]' /\ Start' = fpos - 0
      /\ m_nBytes' \in Nat /\ m_nBytes' <= m_nBufferSize'
      /\ fpos' \in Nat /\ m_nBytes' <= fpos' /\ fpos' <= Len(file')
      /\ Aligned(fpos') /\ Aligned(m_nBytes')
      /\ m_eof' \in BOOLEAN /\ (m_eof' => fpos' = Len(file'))
      /\ m_nBytes' = m_nBufferSize' \/ fpos' = Len(file')
      /\ Contents'
  BY <1>0, <1>1, <1>2, AlignedZero, Fills
<1>4. Counts'
  BY <1>0, <1>3 DEF Counts
<1>5. Start' = 0 /\ Start = 0
  <2>1. Start' = 0
    BY <1>1, <1>3
  <2>2. Start = 0
    BY <1>1 DEF Start
  <2> QED
    BY <2>1, <2>2
<1>6. Handed'
  BY <1>0, <1>5 DEF Handed
<1> QED
  BY <1>0, <1>3, <1>4, <1>6 DEF ReaderInv, Probing, Asked, Left, Control

LEMMA GetBlockKeeps ==
    ASSUME ReaderInv, NEW n \in Shortfalls, getBlock(m_nBufferSize - n)
    PROVE  ReaderInv'
<1>0. /\ Counts /\ Contents /\ Handed /\ pc = "idle" /\ pc' = "probe"
      /\ m_nUserBytes' = 0 /\ m_nUserItems' = 0
      /\ maxBytes' = Smaller(m_nBufferSize - n, m_nBytes)
      /\ UNCHANGED <<file, m_nBufferSize, m_pBuffer, m_nBytes, fpos, m_eof, handed, handedItems>>
  BY DEF ReaderInv, getBlock, history
<1>1. Counts' /\ Contents' /\ Start' = Start
  BY <1>0, CountsKept, AlignedZero
<1>2. Handed'
  BY <1>0, <1>1 DEF Handed
<1>3. Start \in Nat /\ m_nBytes \in Nat /\ Boundary(file, Start) /\ Start + 0 = Start
  BY <1>0, CountsType DEF Handed, Counts
<1>4. Cardinality(EndsIn(file, Start, Start)) = 0
  BY <1>3, EndsFinite
<1>5. Probing'
  BY <1>0, <1>1, <1>3, <1>4 DEF Probing
<1>6. Asked'
  <2>1. 0 <= Smaller(m_nBufferSize - n, m_nBytes)
    BY <1>0, AskedIsAligned
  <2> QED
    BY <1>0, <2>1 DEF Asked, Smaller
<1> QED
  BY <1>0, <1>1, <1>2, <1>5, <1>6 DEF ReaderInv, Left, Control

LEMMA ProbeItemKeeps ==
    ASSUME ReaderInv, ProbeItem
    PROVE  ReaderInv'
<1> DEFINE b == Start + m_nUserBytes
           s == file[b + 1].size
<1>0. /\ Counts /\ Contents /\ Handed /\ Probing /\ Asked
      /\ pc = "probe" /\ m_nUserBytes < maxBytes
      /\ UNCHANGED <<file, m_nBufferSize, m_pBuffer, m_nBytes, fpos, m_eof, maxBytes,
                     handed, handedItems>>
  BY DEF ReaderInv, ProbeItem, history
<1>1. /\ SizesAt(m_nUserBytes) = {s} /\ b \in Nat /\ b < Len(file) /\ Boundary(file, b)
      /\ maxBytes \in Nat /\ maxBytes <= m_nBytes
  BY <1>0, SizeIsRead
<1>2. /\ ~ Overflows(s) /\ Fits(s)
      /\ m_nUserBytes' = m_nUserBytes + s
      /\ m_nUserItems' = m_nUserItems + 1
      /\ pc' = IF s = 0 THEN "spin" ELSE "probe"
  BY <1>1 DEF ProbeItem
<1>3. s \in Nat /\ s >= SizeField /\ Aligned(s)
  BY <1>0, <1>1, ItemSize
<1>4. /\ Start \in Nat /\ m_nUserBytes \in Nat /\ m_nUserItems \in Nat /\ m_nBytes \in Nat
      /\ Start + m_nBytes = fpos /\ fpos <= Len(file) /\ Aligned(m_nUserBytes)
      /\ file \in Seq(Cell) /\ ItemsInARow(file) /\ Len(file) \in Nat
  BY <1>0, CountsType DEF Counts
<1>5. s + m_nUserBytes <= maxBytes /\ s <= m_nBytes
  BY <1>2, <1>3, <1>4, <1>1 DEF Fits, Overflows
<1> HIDE DEF s
<1>6. /\ pc' = "probe" /\ m_nUserBytes' \in Nat /\ m_nUserItems' \in Nat
      /\ Aligned(m_nUserBytes')
  BY <1>2, <1>3, <1>4, FieldType, AlignedSum
<1>7. Counts' /\ Contents' /\ Start' = Start
  BY <1>0, <1>6, CountsKept
<1>8. Handed'
  BY <1>0, <1>6, <1>7 DEF Handed
<1>9. Asked'
  BY <1>0, <1>2, <1>3, <1>4, <1>5, <1>6 DEF Asked, Smaller
<1>10. /\ b + s <= Len(file) /\ b + s = Start' + m_nUserBytes' /\ Start \in 0 .. b
  BY <1>1, <1>2, <1>3, <1>4, <1>5, <1>7
<1>11. /\ Boundary(file, b + s)
       /\ EndsIn(file, Start, b + s) = EndsIn(file, Start, b) \union {b + s}
       /\ b + s \notin EndsIn(file, Start, b)
  BY <1>1, <1>4, <1>10, ItemEnd DEF s
<1>12. m_nUserItems' = Cardinality(EndsIn(file, Start, b + s))
  <2>1. IsFiniteSet(EndsIn(file, Start, b))
    BY <1>1, <1>4, EndsFinite
  <2>2. m_nUserItems = Cardinality(EndsIn(file, Start, b))
    BY <1>0 DEF Probing
  <2> QED
    BY <1>2, <1>11, <2>1, <2>2, FS_AddElement
<1>13. ~ (fpos = Len(file) /\ Torn(file, Start))
  <2>1. CASE m_nUserBytes = 0
    <3>1. b = Start
      BY <2>1, <1>4
    <3>2. Start + s <= Len(file) /\ s = file[Start + 1].size
      BY <3>1, <1>10 DEF s
    <3> QED
      BY <3>2, <1>3, <1>4 DEF Torn
  <2>2. CASE m_nUserBytes > 0
    BY <2>2, <1>0 DEF Probing
  <2> QED
    BY <2>1, <2>2, <1>4
<1>14. Probing'
  <2>1. m_nUserBytes' <= m_nBytes' /\ Boundary(file', Start')
    <3>1. Boundary(file, Start)
      BY <1>0 DEF Probing
    <3> QED
      BY <3>1, <1>0, <1>1, <1>2, <1>3, <1>4, <1>5, <1>7
  <2> QED
    BY <2>1, <1>0, <1>7, <1>10, <1>11, <1>12, <1>13 DEF Probing
<1> QED
  BY <1>6, <1>7, <1>8, <1>9, <1>14 DEF ReaderInv, Left, Control

LEMMA ProbeThrowKeeps ==
    ASSUME ReaderInv, ProbeThrow
    PROVE  ReaderInv'
<1>1. /\ Counts /\ Contents /\ Handed /\ pc = "probe" /\ pc' = "thrown"
      /\ UNCHANGED <<file, m_nBufferSize, m_pBuffer, m_nBytes, fpos, m_eof,
                     m_nUserBytes, m_nUserItems, handed, handedItems>>
  BY DEF ReaderInv, ProbeThrow, request, history
<1>2. m_nUserBytes \in Nat /\ m_nUserItems \in Nat /\ Aligned(m_nUserBytes)
  BY <1>1 DEF Counts
<1>3. Counts' /\ Contents' /\ Start' = Start
  BY <1>1, <1>2, CountsKept
<1>4. Handed'
  BY <1>1, <1>3 DEF Handed
<1> QED
  BY <1>1, <1>3, <1>4 DEF ReaderInv, Probing, Asked, Left, Control

(***************************************************************************)
(* Why no more than the block is left: the loop stops where the next item  *)
(* does not fit, and the items are small.                                  *)
(***************************************************************************)
LEMMA LittleIsLeft ==
    ASSUME Counts, Contents, Probing, Asked, Return, pc = "probe", m_nUserBytes > 0
    PROVE  \/ m_nBytes - m_nUserBytes <= m_nUserBytes
           \/ fpos = Len(file) /\ Torn(file, Start + m_nUserBytes)
<1> DEFINE u == m_nUserBytes
           buf == m_nBufferSize
           b == Start + u
           s == file[b + 1].size
<1>1. PICK n \in Shortfalls : maxBytes = Smaller(buf - n, m_nBytes)
  BY DEF Asked
<1>2. /\ u \in Nat /\ m_nBytes \in Nat /\ buf \in Nat /\ Start \in Nat
      /\ m_nBytes <= buf /\ Start + m_nBytes = fpos /\ fpos <= Len(file) /\ Len(file) \in Nat
      /\ Aligned(u) /\ file \in Seq(Cell) /\ u <= maxBytes /\ u > 0 /\ u <= m_nBytes
      /\ m_nBytes = buf \/ fpos = Len(file)
  BY CountsType DEF Counts, Asked, Probing
<1>3. /\ buf - n \in Nat /\ maxBytes \in Nat /\ Aligned(maxBytes) /\ maxBytes <= m_nBytes
      /\ maxBytes = buf - n \/ maxBytes = m_nBytes
  BY <1>1, AskedIsAligned
<1>4. CASE m_nUserBytes < maxBytes
  <2>1. /\ SizesAt(u) = {s} /\ b \in Nat /\ b < Len(file) /\ Boundary(file, b)
    BY <1>4, SizeIsRead
  <2>2. ~ Fits(s)
    BY <1>4, <2>1 DEF Return
  <2>3. s \in Nat /\ Aligned(s) /\ n \in Nat /\ 2 * (s + n) <= buf + 2 * SizeField
    BY <2>1, ItemSize
  <2>4. Torn(file, b) <=> b + s > Len(file)
    BY <2>1 DEF Torn
  <2> HIDE DEF s
  <2>5. s + u > maxBytes
    BY <2>2, <2>3, <1>2, <1>3 DEF Fits
  <2>6. maxBytes + SizeField <= s + u
    BY <2>3, <2>5, <1>2, <1>3, AlignedSum, AlignedApart
  <2>7. CASE maxBytes = buf - n \/ m_nBytes = buf
    <3>1. maxBytes + n >= buf
      BY <2>7, <1>2, <1>3, <2>3
    <3>2. 2 * u >= buf
      BY <3>1, <2>3, <2>6, <1>2, <1>3, FieldType
    <3> QED
      BY <3>2, <1>2
  <2>8. CASE maxBytes = m_nBytes /\ fpos = Len(file)
    <3>1. b + s > Len(file)
      BY <2>8, <2>5, <1>2, <2>3
    <3> QED
      BY <3>1, <2>4, <2>8
  <2> QED
    BY <2>7, <2>8, <1>2, <1>3
<1>5. CASE ~ (m_nUserBytes < maxBytes)
  <2>1. u = maxBytes
    BY <1>2, <1>3, <1>5
  <2>2. CASE maxBytes = m_nBytes
    BY <2>1, <2>2, <1>2
  <2>3. CASE maxBytes = buf - n
    <3>1. 0 < Len(file) /\ Boundary(file, 0) /\ 0 \in Nat
      BY <1>2 DEF Boundary
    <3>2. PICK z \in Nat : z >= SizeField /\ 2 * (z + n) <= buf + 2 * SizeField /\ n \in Nat
      BY <3>1, ItemSize
    <3>3. 2 * n <= buf
      BY <3>2, <1>2, FieldType
    <3> QED
      BY <3>2, <3>3, <2>1, <2>3, <1>2
  <2> QED
    BY <2>2, <2>3, <1>3
<1> QED
  BY <1>4, <1>5

(***************************************************************************)
(* Why an empty block comes after the last item: one that fits into what   *)
(* is asked for was taken, and one that does not is an exception.          *)
(***************************************************************************)
LEMMA EmptyAtTheEnd ==
    ASSUME Counts, Contents, Probing, Asked, Return, pc = "probe", m_nUserBytes = 0
    PROVE  Start = Len(file)
<1>1. PICK n \in Shortfalls : maxBytes = Smaller(m_nBufferSize - n, m_nBytes)
  BY DEF Asked
<1>2. /\ m_nBytes \in Nat /\ m_nBufferSize \in Nat \ {0} /\ Start \in Nat
      /\ m_nBytes <= m_nBufferSize /\ Start + m_nBytes = fpos
      /\ fpos <= Len(file) /\ Len(file) \in Nat
      /\ m_nBytes = m_nBufferSize \/ fpos = Len(file)
  BY CountsType DEF Counts
<1>3. /\ m_nBufferSize - n \in Nat /\ maxBytes \in Nat
      /\ maxBytes = m_nBufferSize - n \/ maxBytes = m_nBytes
  BY <1>1, AskedIsAligned
<1>4. m_nUserItems = 0
  <2>1. m_nUserItems = Cardinality(EndsIn(file, Start, Start)) 
    BY <1>2 DEF Probing
  <2> QED
    BY <2>1, <1>2, EndsFinite
<1>5. ~ (m_nUserBytes < maxBytes)
  <2> SUFFICES ASSUME m_nUserBytes < maxBytes
               PROVE  FALSE
    OBVIOUS
  <2> DEFINE s == file[Start + m_nUserBytes + 1].size
  <2>1. /\ SizesAt(m_nUserBytes) = {s}
        /\ Start + m_nUserBytes \in Nat /\ Start + m_nUserBytes < Len(file)
        /\ Boundary(file, Start + m_nUserBytes)
    BY SizeIsRead
  <2>2. ~ Overflows(s) /\ ~ Fits(s)
    BY <2>1 DEF Return
  <2>3. s \in Nat
    BY <2>1, ItemSize
  <2> HIDE DEF s
  <2>4. ~ (s > maxBytes) /\ s + 0 > maxBytes
    BY <2>2, <2>3, <1>3, <1>4 DEF Overflows, Fits
  <2> QED
    BY <2>3, <2>4, <1>3
<1>6. maxBytes = 0
  BY <1>3, <1>5
<1>7. CASE m_nBytes = 0
  BY <1>7, <1>2
<1>8. CASE m_nBufferSize - n = 0
  <2>1. ~ (0 < Len(file))
    <3> SUFFICES ASSUME 0 < Len(file)
                 PROVE  FALSE
      OBVIOUS
    <3>1. Boundary(file, 0) /\ 0 \in Nat
      BY DEF Boundary
    <3>2. PICK z \in Nat : z >= SizeField /\ 2 * (z + n) <= m_nBufferSize + 2 * SizeField
                           /\ n \in Nat
      BY <3>1, ItemSize
    <3> QED
      BY <3>2, <1>2, <1>8, FieldType
  <2> QED
    BY <2>1, <1>2
<1> QED
  BY <1>3, <1>6, <1>7, <1>8

LEMMA ReturnKeeps ==
    ASSUME ReaderInv, Return
    PROVE  ReaderInv'
<1> DEFINE u == m_nUserBytes
           b == Start + u
           block == SubSeq(m_pBuffer, 1, u)
<1>0. /\ Counts /\ Contents /\ Handed /\ Probing /\ Asked /\ pc = "probe"
      /\ handed' = handed \o block /\ handedItems' = handedItems + m_nUserItems
      /\ pc' = IF u = 0 THEN "ended" ELSE "held"
      /\ UNCHANGED <<file, m_nBufferSize, m_pBuffer, m_nBytes, fpos, m_eof,
                     m_nUserBytes, m_nUserItems, maxBytes>>
  BY DEF ReaderInv, Return, request
<1>1. /\ u \in Nat /\ m_nBytes \in Nat /\ m_nUserItems \in Nat /\ Start \in Nat /\ b \in Nat
      /\ m_nBytes <= m_nBufferSize /\ Start + m_nBytes = fpos /\ fpos <= Len(file)
      /\ Len(file) \in Nat /\ Aligned(u) /\ file \in Seq(Cell) /\ u <= m_nBytes
      /\ m_pBuffer \in [Slots -> Cell] /\ b <= Len(file)
  BY <1>0, CountsType DEF Counts, Probing
<1>2. Counts' /\ Contents' /\ Start' = Start
  BY <1>0, <1>1, CountsKept
<1>3. Handed'
  <2>1. \A c \in 1 .. u : m_pBuffer[c] = file[Start + c] /\ m_pBuffer[c] \in Cell
    <3> SUFFICES ASSUME NEW c \in 1 .. u
                 PROVE  m_pBuffer[c] = file[Start + c] /\ m_pBuffer[c] \in Cell
      OBVIOUS
    <3>1. c \in Slots /\ c \in 1 .. m_nBytes /\ u > 0
      BY <1>0, <1>1, CountsType DEF Slots
    <3>2. ~ (fpos = Len(file) /\ Torn(file, Start))
      BY <3>1, <1>0 DEF Probing
    <3> QED
      BY <3>1, <3>2, <1>0, <1>1 DEF Contents
  <2>2. block \in Seq(Cell) /\ Len(block) = u /\ \A c \in 1 .. u : block[c] = m_pBuffer[c]
    BY <2>1, <1>1, SubSeqProperties
  <2>3. handed \in Seq(Cell) /\ Len(handed) = Start /\ handed = SubSeq(file, 1, Start)
    BY <1>0 DEF Handed
  <2>4. /\ handed' \in Seq(Cell) /\ Len(handed') = b
        /\ \A i \in 1 .. b : handed'[i] = IF i <= Start THEN handed[i] ELSE block[i - Start]
    <3>1. /\ handed \o block \in Seq(Cell)
          /\ Len(handed \o block) = Len(handed) + Len(block)
          /\ \A i \in 1 .. Len(handed) + Len(block) :
                (handed \o block)[i] = IF i <= Len(handed) THEN handed[i]
                                                          ELSE block[i - Len(handed)]
      BY <2>2, <2>3, ConcatProperties, Zenon
    <3> HIDE DEF block
    <3> QED
      BY <3>1, <2>2, <2>3, <1>0, <1>1
  <2>5. \A i \in 1 .. Len(file) : file[i] \in Cell
    BY <1>1
  <2>6. \A i \in 1 .. Start : handed[i] = file[i]
    <3>1. \A i \in 1 .. Start : SubSeq(file, 1, Start)[i] = file[1 + i - 1]
      BY <2>5, <1>1, SubSeqProperties
    <3> QED
      BY <3>1, <2>3, <1>1
  <2>7. \A i \in 1 .. b : handed'[i] = file[i]
    <3> SUFFICES ASSUME NEW i \in 1 .. b
                 PROVE  handed'[i] = file[i]
      OBVIOUS
    <3>1. CASE i <= Start
      BY <3>1, <2>4, <2>6, <1>1
    <3>2. CASE i > Start
      <4>1. i - Start \in 1 .. u /\ Start + (i - Start) = i
        BY <3>2, <1>1
      <4>2. handed'[i] = block[i - Start]
        BY <3>2, <2>4, <1>1
      <4> QED
        BY <4>1, <4>2, <2>1, <2>2
    <3> QED
      BY <3>1, <3>2, <1>1
  <2>8. /\ SubSeq(file, 1, b) \in Seq(Cell) /\ Len(SubSeq(file, 1, b)) = b
        /\ \A i \in 1 .. b : SubSeq(file, 1, b)[i] = file[i]
    <3>1. \A i \in 1 .. b : file[i] \in Cell /\ 1 + i - 1 = i
      BY <2>5, <1>1
    <3> QED
      BY <3>1, <1>1, SubSeqProperties
  <2>9. handed' = SubSeq(file, 1, b)
    BY <2>4, <2>7, <2>8, SeqEqual
  <2>10. Boundary(file, b)
    BY <1>0 DEF Probing
  <2>11. handedItems' = Cardinality(EndsIn(file, 0, b))
    <3>1. handedItems = Cardinality(EndsIn(file, 0, Start))
      BY <2>3, <1>0 DEF Handed
    <3>2. m_nUserItems = Cardinality(EndsIn(file, Start, b))
      BY <1>0 DEF Probing
    <3>3. 0 <= Start /\ Start <= b
      BY <1>1
    <3> QED
      BY <3>1, <3>2, <3>3, <1>0, <1>1, EndsSum
  <2>12. b = IF pc' = "held" THEN Start' + m_nUserBytes' ELSE Start'
    BY <1>0, <1>1, <1>2
  <2> HIDE DEF b, block
  <2> QED
    BY <2>4, <2>9, <2>10, <2>11, <2>12, <1>0 DEF Handed
<1>4. Probing'
  BY <1>0, <1>2 DEF Probing
<1>5. Left'
  BY <1>0, <1>1, <1>2, LittleIsLeft DEF Left
<1>6. Control'
  BY <1>0, <1>2, EmptyAtTheEnd DEF Control
<1> QED
  BY <1>0, <1>2, <1>3, <1>4, <1>5, <1>6 DEF ReaderInv, Asked

(***************************************************************************)
(* done() moves the size of the next item, and all of it that is needed.   *)
(***************************************************************************)
LEMMA DoneKeeps ==
    ASSUME ReaderInv, done
    PROVE  ReaderInv'
<1> DEFINE u == m_nUserBytes
           n == m_nBytes - u
<1>0. /\ Counts /\ Contents /\ Handed /\ Probing /\ Left /\ pc = "held" /\ pc' = "idle"
      /\ fillBuffer(Moved, n)
      /\ UNCHANGED <<file, m_nBufferSize, m_nUserBytes, m_nUserItems, handed, handedItems>>
  BY DEF ReaderInv, done, request, history
<1>1. /\ u \in Nat /\ m_nBytes \in Nat /\ Start \in Nat /\ u <= m_nBytes /\ u > 0
      /\ m_nBytes <= m_nBufferSize /\ m_nBufferSize \in Nat /\ Start + m_nBytes = fpos
      /\ Aligned(u) /\ Aligned(m_nBytes) /\ m_pBuffer \in [Slots -> Cell]
      /\ Slots = 1 .. m_nBufferSize
  BY <1>0, CountsType DEF Counts, Probing, Left, Slots
<1>2. n \in 0 .. m_nBytes /\ n < m_nBufferSize /\ fpos - n = Start + u
  BY <1>1
<1>3. Aligned(n)
  BY <1>1, AlignedDifference
<1>4. Moved \in [Slots -> Cell]
  <2>1. Junk \in Cell
    BY DEF Junk, Cell
  <2>2. \A c \in Slots : u + c <= m_nBufferSize => u + c \in Slots
    BY <1>1
  <2> QED
    BY <2>1, <2>2, <1>1 DEF Moved
<1>5. \A c \in 1 .. n :
         \/ Moved[c] = file[fpos - n + c]
         \/ c > SizeField /\ fpos = Len(file) /\ Torn(file, fpos - n)
  <2> SUFFICES ASSUME NEW c \in 1 .. n
               PROVE  \/ Moved[c] = file[Start + u + c]
                      \/ c > SizeField /\ fpos = Len(file) /\ Torn(file, Start + u)
    BY <1>2
  <2>1. CASE c <= u
    <3>1. c \in Slots /\ u + c \in 1 .. m_nBytes /\ ~ (u + c > m_nBufferSize)
      BY <1>1, <1>2
    <3>2. Moved[c] = m_pBuffer[u + c]
      BY <2>1, <3>1, <1>1 DEF Moved
    <3>3. m_pBuffer[u + c] = file[Start + (u + c)]
      BY <3>1, <1>0, <1>1 DEF Contents, Probing
    <3> QED
      BY <3>2, <3>3, <1>1
  <2>2. CASE c > u
    <3>1. 0 + SizeField <= u
      BY <1>1, AlignedZero, AlignedApart
    <3>2. c > SizeField
      BY <3>1, <2>2, <1>1, FieldType
    <3>3. ~ (n <= u)
      BY <2>2, <1>1, <1>2
    <3> QED
      BY <3>2, <3>3, <1>0 DEF Left
  <2> QED
    BY <2>1, <2>2, <1>1
<1> HIDE DEF n
<1>6. /\ m_pBuffer' \in [Slots -> Cell]' /\ Start' = fpos - n
      /\ m_nBytes' \in Nat /\ m_nBytes' <= m_nBufferSize'
      /\ fpos' \in Nat /\ m_nBytes' <= fpos' /\ fpos' <= Len(file')
      /\ Aligned(fpos') /\ Aligned(m_nBytes')
      /\ m_eof' \in BOOLEAN /\ (m_eof' => fpos' = Len(file'))
      /\ m_nBytes' = m_nBufferSize' \/ fpos' = Len(file')
      /\ Contents'
  BY <1>0, <1>2, <1>3, <1>4, <1>5, Fills
<1>7. Counts'
  BY <1>0, <1>6 DEF Counts
<1>8. Handed'
  <2>1. Start' = Start + u
    BY <1>2, <1>6
  <2> QED
    BY <2>1, <1>0 DEF Handed
<1> QED
  BY <1>0, <1>6, <1>7, <1>8 DEF ReaderInv, Probing, Asked, Left, Control

LEMMA ReaderStutters ==
    ASSUME ReaderInv, UNCHANGED vars
    PROVE  ReaderInv'
<1>1. UNCHANGED <<pc, file, fpos, m_nBufferSize, m_pBuffer, m_nBytes, m_eof,
                  m_nUserBytes, m_nUserItems, maxBytes, handed, handedItems>>
  BY DEF vars
<1>2. Start' = Start
  BY <1>1 DEF Start
<1>3. Counts'
  <2>1. [Slots -> Cell]' = [Slots -> Cell]
    BY <1>1 DEF Slots
  <2> QED
    BY <2>1, <1>1 DEF ReaderInv, Counts
<1>4. Contents' /\ Handed' /\ Probing' /\ Asked' /\ Left' /\ Control'
  BY <1>1, <1>2 DEF ReaderInv, Contents, Handed, Probing, Asked, Left, Control
<1> QED
  BY <1>3, <1>4 DEF ReaderInv

LEMMA ReaderKeeps ==
    ASSUME ReaderInv, [Next]_vars
    PROVE  ReaderInv'
<1>1. CASE Construct
  BY <1>1, ConstructKeeps
<1>2. CASE \E n \in Shortfalls : getBlock(m_nBufferSize - n)
  BY <1>2, GetBlockKeeps
<1>3. CASE ProbeItem
  BY <1>3, ProbeItemKeeps
<1>4. CASE ProbeThrow
  BY <1>4, ProbeThrowKeeps
<1>5. CASE Return
  BY <1>5, ReturnKeeps
<1>6. CASE done
  BY <1>6, DoneKeeps
<1>7. CASE Stopped \/ UNCHANGED vars
  BY <1>7, ReaderStutters DEF Stopped
<1> QED
  BY <1>1, <1>2, <1>3, <1>4, <1>5, <1>6, <1>7 DEF Next

LEMMA ReaderIsFaithful ==
    ASSUME ReaderInv
    PROVE  BlocksAreTheFile
<1> DEFINE l == Len(handed)
<1>1. /\ Counts /\ Handed /\ Probing /\ Control
      /\ Start \in Nat /\ Start + m_nBytes = fpos /\ fpos <= Len(file) /\ Len(file) \in Nat
      /\ m_nUserBytes \in Nat /\ m_nBytes \in Nat /\ fpos \in Nat
      /\ file \in Seq(Cell) /\ handed \in Seq(Cell) /\ l \in Nat
  BY CountsType DEF ReaderInv, Counts, Handed
<1>2. l <= Len(file) /\ l = IF pc = "held" THEN Start + m_nUserBytes ELSE Start
  BY <1>1 DEF Handed, Probing
<1>3. handed = SubSeq(file, 1, l) /\ Boundary(file, l)
  BY <1>1 DEF Handed
<1>4. handed # <<>> => l \in EndsOfItems(file)
  <2> SUFFICES ASSUME handed # <<>>
               PROVE  l \in EndsOfItems(file)
    OBVIOUS
  <2>1. l \in Nat \ {0}
    BY <1>1, EmptySeq
  <2>2. l \in DOMAIN file
    BY <2>1, <1>1, <1>2
  <2>3. file[l].at = file[l].size
    BY <2>1, <1>3 DEF Boundary
  <2> QED
    BY <2>2, <2>3 DEF EndsOfItems
<1>5. handedItems = Cardinality(EndsOfItems(handed))
  <2>1. \A i \in 1 .. l : handed[i] = file[i]
    <3>1. \A i \in 1 .. l : file[i] \in Cell /\ 1 + i - 1 = i
      BY <1>1, <1>2
    <3>2. \A i \in 1 .. l - 1 + 1 : SubSeq(file, 1, l)[i] = file[1 + i - 1]
      BY <3>1, <1>1, SubSeqProperties
    <3> QED
      BY <3>1, <3>2, <1>1, <1>3
  <2>2. DOMAIN handed = 1 .. l /\ 0 + 1 = 1
    BY <1>1
  <2>3. EndsOfItems(handed) = EndsIn(file, 0, l)
    BY <2>1, <2>2 DEF EndsOfItems, EndsIn
  <2> QED
    BY <2>3, <1>1 DEF Handed
<1>6. pc = "ended" => handed = file
  BY <1>1, <1>2, <1>3, SubSeqFull DEF Control
<1> QED
  BY <1>3, <1>4, <1>5, <1>6 DEF BlocksAreTheFile

(***************************************************************************)
(* Every file comes out of the reader as it is, in blocks of whole items   *)
(* which are counted right, and the block that ends the run comes behind   *)
(* its last item (CDataReader::getBlock, probeData, done, fillBuffer):     *)
(* for all files of items in a row and buffers as FilesAreReadable says.   *)
(***************************************************************************)
THEOREM ReaderReturnsTheFile == FilesAreReadable => (Spec => []BlocksAreTheFile)
<1> SUFFICES ASSUME FilesAreReadable
             PROVE  Spec => []BlocksAreTheFile
  OBVIOUS
<1>1. Init => ReaderInv
  BY ReaderInit
<1>2. ReaderInv /\ [Next]_vars => ReaderInv'
  BY ReaderKeeps
<1>3. ReaderInv => BlocksAreTheFile
  BY ReaderIsFaithful
<1> QED
  BY <1>1, <1>2, <1>3, PTL DEF Spec
-----------------------------------------------------------------------------
(***************************************************************************)
(* Whatever is in the file, the counts stay within the buffer.  A block    *)
(* has no more than was asked for and is there.                            *)
(***************************************************************************)
ReaderTypeInv ==
    /\ TypeOK
    /\ m_nUserBytes <= m_nBufferSize
    /\ pc \in {"probe", "held"} => m_nUserBytes <= maxBytes /\ maxBytes <= m_nBytes

LEMMA InRange ==
    ASSUME NEW u \in Nat, NEW b \in Nat, NEW a \in Nat, u <= b
    PROVE  u \in 0 .. a + b
OBVIOUS

LEMMA FillsType ==
    ASSUME TypeOK, NEW memory \in [Slots -> Cell], NEW n \in 0 .. m_nBufferSize,
           fillBuffer(memory, n), UNCHANGED <<file, m_nBufferSize>>
    PROVE  /\ m_pBuffer' \in [Slots -> Cell] /\ m_nBytes' \in 0 .. m_nBufferSize
           /\ m_eof' \in BOOLEAN /\ fpos' \in 0 .. Len(file)
<1>1. /\ m_nBufferSize \in Nat /\ Len(file) \in Nat /\ fpos \in 0 .. Len(file)
      /\ file \in Seq(Cell) /\ m_eof \in BOOLEAN
  BY ReaderAssumption DEF TypeOK
<1>2. CASE m_eof
  BY <1>1, <1>2 DEF fillBuffer
<1>3. CASE ~ m_eof
  <2>0. ReadResult(m_nBufferSize - n) \in Nat
    BY <1>1 DEF ReadResult, Smaller
  <2>1. PICK k \in Nat : k = ReadResult(m_nBufferSize - n)
    BY <2>0
  <2>2. k <= m_nBufferSize - n /\ k <= Len(file) - fpos
    BY <1>1, <2>1 DEF ReadResult, Smaller
  <2>3. /\ m_nBytes' = n + k /\ fpos' = fpos + k /\ m_eof' = (k = 0)
        /\ m_pBuffer' = [c \in Slots |-> IF c \in n + 1 .. n + k
                                         THEN file[fpos + c - n] ELSE memory[c]]
    BY <1>3, <2>1 DEF fillBuffer
  <2>4. \A c \in n + 1 .. n + k : file[fpos + c - n] \in Cell
    <3> SUFFICES ASSUME NEW c \in n + 1 .. n + k
                 PROVE  file[fpos + c - n] \in Cell
      OBVIOUS
    <3>1. fpos + c - n \in 1 .. Len(file)
      BY <1>1, <2>2
    <3> QED
      BY <3>1, <1>1, ElementOfSeq
  <2>5. m_pBuffer' \in [Slots -> Cell]
    BY <2>3, <2>4
  <2> QED
    BY <2>2, <2>3, <2>5, <1>1
<1> QED
  BY <1>1, <1>2, <1>3

LEMMA ReaderTypeKept ==
    ASSUME ShortfallsFit, ReaderTypeInv, [Next]_vars
    PROVE  ReaderTypeInv'
<1>1. TypeOK
  BY DEF ReaderTypeInv
<1>2. /\ m_nBufferSize \in Nat \ {0} /\ m_nBytes \in Nat /\ m_nUserBytes \in Nat
      /\ maxBytes \in Nat /\ m_nBytes <= m_nBufferSize /\ maxBytes <= m_nBufferSize
      /\ m_nUserItems \in Nat /\ Slots = 1 .. m_nBufferSize /\ Junk \in Cell
  BY <1>1, ReaderAssumption DEF TypeOK, Slots, Junk, Cell
<1>3. CASE Construct
  <2>1. /\ pc' = "idle" /\ fillBuffer(m_pBuffer, 0) /\ m_pBuffer \in [Slots -> Cell]
        /\ 0 \in 0 .. m_nBufferSize
        /\ UNCHANGED <<file, m_nBufferSize, m_fReleased, m_nUserBytes, m_nUserItems, maxBytes,
                       handed, handedItems>>
    BY <1>1, <1>2, <1>3 DEF Construct, request, history, TypeOK
  <2>2. /\ m_pBuffer' \in [Slots -> Cell] /\ m_nBytes' \in 0 .. m_nBufferSize
        /\ m_eof' \in BOOLEAN /\ fpos' \in 0 .. Len(file)
    BY <1>1, <2>1, FillsType
  <2>3. m_nUserBytes \in 0 .. m_nBytes' + m_nBufferSize
    <3>1. m_nUserBytes <= m_nBufferSize /\ m_nBytes' \in Nat
      BY <2>2, <1>2 DEF ReaderTypeInv
    <3>2. m_nUserBytes \in Nat /\ m_nBufferSize \in Nat
      BY <1>2
    <3> QED
      BY <3>1, <3>2, InRange
  <2> QED
    BY <2>1, <2>2, <2>3, <1>1 DEF ReaderTypeInv, TypeOK, Slots
<1>4. ASSUME NEW n \in Shortfalls, getBlock(m_nBufferSize - n)
      PROVE  ReaderTypeInv'
  <2>1. m_nBufferSize - n \in 0 .. m_nBufferSize
    BY <1>1, <1>2, ReaderAssumption DEF ShortfallsFit, TypeOK
  <2>2. maxBytes' \in 0 .. m_nBufferSize /\ maxBytes' <= m_nBytes
    BY <1>2, <1>4, <2>1 DEF getBlock, Smaller
  <2>3. /\ pc' = "probe" /\ m_nUserBytes' = 0 /\ m_nUserItems' = 0
        /\ UNCHANGED <<file, m_nBufferSize, fpos, m_pBuffer, m_nBytes, m_eof, m_fReleased,
                       handed, handedItems>>
    BY <1>4 DEF getBlock, history
  <2> QED
    BY <1>1, <1>2, <2>2, <2>3 DEF ReaderTypeInv, TypeOK, Slots
<1>5. SizesAt(m_nUserBytes) \subseteq Nat
  <2>1. CASE m_nUserBytes + SizeField <= m_nBufferSize
    <3>1. m_nUserBytes + 1 \in Slots
      BY <1>2, <2>1, FieldType
    <3>2. m_pBuffer[m_nUserBytes + 1] \in Cell
      BY <1>1, <3>1 DEF TypeOK
    <3>3. m_pBuffer[m_nUserBytes + 1].size \in Nat
      BY <3>2 DEF Cell
    <3> QED
      BY <3>3, <1>2 DEF SizesAt
  <2>2. CASE ~ (m_nUserBytes + SizeField <= m_nBufferSize)
    BY <2>2, <1>2 DEF SizesAt
  <2> QED
    BY <2>1, <2>2
<1>6. CASE ProbeItem
  <2>1. PICK s \in Nat : /\ s + m_nUserBytes <= maxBytes
                         /\ m_nUserBytes' = m_nUserBytes + s
                         /\ m_nUserItems' = m_nUserItems + 1
                         /\ pc' \in {"spin", "probe"}
    BY <1>5, <1>6 DEF ProbeItem, Fits
  <2>2. /\ pc = "probe"
        /\ UNCHANGED <<file, m_nBufferSize, fpos, m_pBuffer, m_nBytes, m_eof, m_fReleased,
                       maxBytes, handed, handedItems>>
    BY <1>6 DEF ProbeItem, history
  <2>3. /\ maxBytes <= m_nBytes /\ m_nUserBytes' <= maxBytes /\ m_nUserItems' \in Nat
        /\ m_nUserBytes' \in 0 .. m_nBytes + m_nBufferSize /\ m_nUserBytes' <= m_nBufferSize
    BY <1>2, <2>1, <2>2 DEF ReaderTypeInv
  <2> QED
    BY <1>1, <2>1, <2>2, <2>3 DEF ReaderTypeInv, TypeOK, Slots
<1>7. CASE ProbeThrow
  BY <1>1, <1>7 DEF ProbeThrow, ReaderTypeInv, TypeOK, Slots, request, history
<1>8. CASE Return
  <2>1. /\ pc = "probe" /\ pc' \in {"ended", "held"} /\ m_fReleased' = FALSE
        /\ handed' = handed \o SubSeq(m_pBuffer, 1, m_nUserBytes)
        /\ handedItems' = handedItems + m_nUserItems
        /\ UNCHANGED <<file, m_nBufferSize, fpos, m_pBuffer, m_nBytes, m_eof,
                       m_nUserBytes, m_nUserItems, maxBytes>>
    BY <1>8 DEF Return, request
  <2>2. \A c \in 1 .. m_nUserBytes : m_pBuffer[c] \in Cell
    BY <1>1, <1>2 DEF ReaderTypeInv, TypeOK
  <2>3. SubSeq(m_pBuffer, 1, m_nUserBytes) \in Seq(Cell)
    BY <1>2, <2>2, SubSeqProperties
  <2>4. handed' \in Seq(Cell)
    <3>1. handed \o SubSeq(m_pBuffer, 1, m_nUserBytes) \in Seq(Cell)
      BY <1>1, <2>3, ConcatProperties DEF TypeOK
    <3> QED
      BY <2>1, <3>1
  <2>5. handedItems' \in Nat
    BY <1>1, <2>1 DEF TypeOK
  <2>6. m_fReleased' \in BOOLEAN
    BY <2>1
  <2>7. m_nUserBytes <= m_nBufferSize /\ m_nUserBytes <= maxBytes /\ maxBytes <= m_nBytes
    BY <2>1 DEF ReaderTypeInv
  <2> QED
    BY <1>1, <2>1, <2>4, <2>5, <2>6, <2>7 DEF ReaderTypeInv, TypeOK, Slots
<1>9. CASE done
  <2>1. m_nBytes - m_nUserBytes \in 0 .. m_nBufferSize
    BY <1>2, <1>9 DEF ReaderTypeInv, done
  <2>2. Moved \in [Slots -> Cell]
    <3>1. \A c \in Slots : ~ (m_nUserBytes + c > m_nBufferSize) => m_nUserBytes + c \in Slots
      BY <1>2
    <3> QED
      BY <1>1, <1>2, <3>1 DEF Moved, TypeOK
  <2>3. /\ pc' = "idle" /\ m_fReleased' = TRUE /\ fillBuffer(Moved, m_nBytes - m_nUserBytes)
        /\ UNCHANGED <<file, m_nBufferSize, m_nUserBytes, m_nUserItems, maxBytes,
                       handed, handedItems>>
    BY <1>9 DEF done, request, history
  <2>4. /\ m_pBuffer' \in [Slots -> Cell] /\ m_nBytes' \in 0 .. m_nBufferSize
        /\ m_eof' \in BOOLEAN /\ fpos' \in 0 .. Len(file)
    BY <1>1, <2>1, <2>2, <2>3, FillsType
  <2>5. m_nUserBytes \in 0 .. m_nBytes' + m_nBufferSize /\ m_fReleased' \in BOOLEAN
    <3>1. m_nUserBytes <= m_nBufferSize /\ m_nBytes' \in Nat
      BY <2>4, <1>2 DEF ReaderTypeInv
    <3>2. m_nUserBytes \in Nat /\ m_nBufferSize \in Nat
      BY <1>2
    <3>3. m_nUserBytes \in 0 .. m_nBytes' + m_nBufferSize
      BY <3>1, <3>2, InRange
    <3>4. m_fReleased' \in BOOLEAN
      BY <2>3
    <3> QED
      BY <3>3, <3>4
  <2> QED
    BY <2>3, <2>4, <2>5, <1>1 DEF ReaderTypeInv, TypeOK, Slots
<1>10. CASE Stopped \/ UNCHANGED vars
  BY <1>1, <1>10 DEF Stopped, vars, ReaderTypeInv, TypeOK, Slots
<1> QED
  BY <1>3, <1>4, <1>6, <1>7, <1>8, <1>9, <1>10 DEF Next

(***************************************************************************)
(* Type correctness of CDataReader, for any file, broken off or not of     *)
(* ring items at all: what is in use, asked for and handed out never       *)
(* exceeds the buffer, if no client asks for less than nothing.            *)
(***************************************************************************)
THEOREM ReaderTypeCorrect == ShortfallsFit => (Spec => []TypeOK)
<1> SUFFICES ASSUME ShortfallsFit
             PROVE  Spec => []TypeOK
  OBVIOUS
<1>1. Init => ReaderTypeInv
  <2> SUFFICES ASSUME Init
               PROVE  ReaderTypeInv
    OBVIOUS
  <2>1. m_nBufferSize \in Nat \ {0} /\ file \in Seq(Cell) /\ Len(file) \in Nat
    BY ReaderAssumption DEF Init
  <2>2. m_pBuffer \in [Slots -> Cell]
    BY DEF Init, Junk, Cell
  <2>3. m_eof \in BOOLEAN /\ m_fReleased \in BOOLEAN
    BY DEF Init
  <2>4. handed \in Seq(Cell)
    BY EmptySeq DEF Init
  <2> QED
    BY <2>1, <2>2, <2>3, <2>4 DEF Init, ReaderTypeInv, TypeOK
<1>2. ReaderTypeInv /\ [Next]_vars => ReaderTypeInv'
  BY ReaderTypeKept
<1>3. ReaderTypeInv => TypeOK
  BY DEF ReaderTypeInv
<1> QED
  BY <1>1, <1>2, <1>3, PTL DEF Spec
=============================================================================
