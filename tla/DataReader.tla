----------------------------- MODULE DataReader -----------------------------
(***************************************************************************)
(* CDataReader: hands a file out in blocks of whole ring items from one    *)
(* buffer.  The client (either dealer) takes a block with getBlock, is     *)
(* done with it, and stops at the first block that is empty.  Memory is a  *)
(* row of cells, SizeField of which hold the size an item starts with.     *)
(***************************************************************************)
EXTENDS Naturals, SequencesExt

CONSTANTS Files,      \* the files: sequences of cells
          BufferSizes, \* how many cells a buffer may have
          Shortfalls, \* how much less than the buffer clients ask for
          SizeField   \* cells a std::uint32_t takes

\* The at-th cell of an item of that size; item 0 is memory never written.
Cell == [item : Nat, at : Nat, size : Nat]
Junk == [item |-> 0, at |-> 0, size |-> 0]

ASSUME ReaderAssumption ==
    /\ Files \subseteq Seq(Cell)
    /\ BufferSizes \union {SizeField} \subseteq Nat \ {0}
    /\ Shortfalls \subseteq Nat

VARIABLES pc,           \* what the client is at
          file,         \* the file, and
          fpos,         \* how much of it read() has returned
          m_nBufferSize, m_pBuffer, m_nBytes, m_eof, m_fReleased,
          m_nUserBytes, m_nUserItems,
          maxBytes,     \* the argument of probeData
          handed,       \* history: all cells in the blocks returned
          handedItems   \* history: the sum of their s_nItems

request == <<m_nUserBytes, m_nUserItems, maxBytes>>

history == <<handed, handedItems>>

vars == <<pc, file, fpos, m_nBufferSize, m_pBuffer, m_nBytes, m_eof, m_fReleased,
          m_nUserBytes, m_nUserItems, maxBytes, handed, handedItems>>

Slots == 1 .. m_nBufferSize

Init ==
    /\ pc = "construct" /\ file \in Files /\ fpos = 0
    /\ m_nBufferSize \in BufferSizes
    /\ m_pBuffer = [c \in Slots |-> Junk]
    /\ m_nBytes = 0 /\ m_eof = FALSE /\ m_fReleased = TRUE
    /\ m_nUserBytes = 0 /\ m_nUserItems = 0 /\ maxBytes = 0
    /\ handed = <<>> /\ handedItems = 0
-----------------------------------------------------------------------------
Smaller(a, b) == IF a < b THEN a ELSE b

\* What read() returns when asked for n cells of a regular file.
ReadResult(n) == Smaller(n, Len(file) - fpos)

\* Mutant: read() is asked for a whole buffer, whatever is in use.
fillBufferWhole(memory, n) ==
    IF m_eof
    THEN m_pBuffer' = memory /\ m_nBytes' = n /\ UNCHANGED <<fpos, m_eof>>
    ELSE LET k == ReadResult(m_nBufferSize) IN
            /\ m_pBuffer' = [c \in Slots |-> IF c \in n + 1 .. n + k
                                             THEN file[fpos + c - n] ELSE memory[c]]
            /\ m_nBytes' = n + k
            /\ fpos' = fpos + k
            /\ m_eof' = (k = 0)

\* fillBuffer, when n cells of memory are in use; 0 from read() means the end.
fillBuffer(memory, n) ==
    IF m_eof
    THEN m_pBuffer' = memory /\ m_nBytes' = n /\ UNCHANGED <<fpos, m_eof>>
    ELSE LET k == ReadResult(m_nBufferSize - n) IN
            /\ m_pBuffer' = [c \in Slots |-> IF c \in n + 1 .. n + k
                                             THEN file[fpos + c - n] ELSE memory[c]]
            /\ m_nBytes' = n + k
            /\ fpos' = fpos + k
            /\ m_eof' = (k = 0)

Construct ==
    /\ pc = "construct"
    /\ fillBuffer(m_pBuffer, 0)
    /\ pc' = "idle"
    /\ UNCHANGED <<file, m_nBufferSize, m_fReleased, request, history>>

getBlock(bytes) ==
    /\ pc = "idle" /\ m_fReleased
    /\ maxBytes' = Smaller(bytes, m_nBytes)
    /\ m_nUserBytes' = 0 /\ m_nUserItems' = 0
    /\ pc' = "probe"
    /\ UNCHANGED <<file, m_nBufferSize, fpos, m_pBuffer, m_nBytes, m_eof, m_fReleased, history>>

(***************************************************************************)
(* The size probeData reads after n cells: that of the item there or, when *)
(* the cells do not all hold the size of one item, anything.  A cell       *)
(* stands for as many bytes of it as there are, and they may be 0: of a    *)
(* multiple of 256 the first is.                                           *)
(***************************************************************************)
SizesAt(n) ==
    IF n + SizeField <= m_nBufferSize
       /\ \A k \in 1 .. SizeField :
             /\ m_pBuffer[n + k].at = k
             /\ m_pBuffer[n + k].item = m_pBuffer[n + 1].item
    THEN {m_pBuffer[n + 1].size}
    ELSE 0 .. m_nBufferSize + 1

Overflows(size) == size > m_nBytes \/ (size > maxBytes /\ m_nUserItems = 0)

Fits(size) == size + m_nUserBytes <= maxBytes

\* Mutant: the loop forgets to step past the item.
ProbeItemForgets ==
    /\ pc = "probe" /\ m_nUserBytes < maxBytes
    /\ \E size \in SizesAt(m_nUserBytes) : ~ Overflows(size) /\ Fits(size)
    /\ UNCHANGED vars

\* The loop of probeData counts one more item, for ever if its size is 0.
ProbeItem ==
    /\ pc = "probe" /\ m_nUserBytes < maxBytes
    /\ \E size \in SizesAt(m_nUserBytes) :
          /\ ~ Overflows(size) /\ Fits(size)
          /\ m_nUserBytes' = m_nUserBytes + size
          /\ m_nUserItems' = m_nUserItems + 1
          /\ pc' = IF size = 0 THEN "spin" ELSE "probe"
    /\ UNCHANGED <<file, m_nBufferSize, fpos, m_pBuffer, m_nBytes, m_eof, m_fReleased, maxBytes, history>>

ProbeThrow ==
    /\ pc = "probe" /\ m_nUserBytes < maxBytes
    /\ \E size \in SizesAt(m_nUserBytes) : Overflows(size)
    /\ pc' = "thrown"
    /\ UNCHANGED <<file, m_nBufferSize, fpos, m_pBuffer, m_nBytes, m_eof, m_fReleased, request, history>>

\* The block is as large as it gets; an empty one ends the run of the client.
Return ==
    /\ pc = "probe"
    /\ m_nUserBytes < maxBytes =>
          \E size \in SizesAt(m_nUserBytes) : ~ Overflows(size) /\ ~ Fits(size)
    /\ handed' = handed \o SubSeq(m_pBuffer, 1, m_nUserBytes)
    /\ handedItems' = handedItems + m_nUserItems
    /\ m_fReleased' = FALSE
    /\ pc' = IF m_nUserBytes = 0 THEN "ended" ELSE "held"
    /\ UNCHANGED <<file, m_nBufferSize, fpos, m_pBuffer, m_nBytes, m_eof, request>>

\* memmove(front, front + m_nUserBytes, m_nUserBytes)
Moved ==
    [c \in Slots |-> IF c > m_nUserBytes THEN m_pBuffer[c]
                     ELSE IF m_nUserBytes + c > m_nBufferSize THEN Junk
                     ELSE m_pBuffer[m_nUserBytes + c]]

\* Mutant: what is left is not moved to the front.
doneWithoutMove ==
    /\ pc = "held" /\ ~ m_fReleased
    /\ fillBuffer(m_pBuffer, m_nBytes - m_nUserBytes)
    /\ m_fReleased' = TRUE
    /\ pc' = "idle"
    /\ UNCHANGED <<file, m_nBufferSize, request, history>>

done ==
    /\ pc = "held" /\ ~ m_fReleased
    /\ fillBuffer(Moved, m_nBytes - m_nUserBytes)
    /\ m_fReleased' = TRUE
    /\ pc' = "idle"
    /\ UNCHANGED <<file, m_nBufferSize, request, history>>

Stopped == pc \in {"ended", "thrown", "refused", "spin"} /\ UNCHANGED vars

Next ==
    \/ Construct
    \/ \E n \in Shortfalls : getBlock(m_nBufferSize - n)
    \/ ProbeItem
    \/ ProbeThrow
    \/ Return
    \/ done
    \/ Stopped

Spec == Init /\ [][Next]_vars /\ WF_vars(Next)
-----------------------------------------------------------------------------
TypeOK ==
    /\ pc \in {"write", "construct", "idle", "probe", "held", "ended", "thrown", "spin", "refused"}
    /\ file \in Seq(Cell) /\ fpos \in 0 .. Len(file)
    /\ m_nBufferSize \in BufferSizes /\ m_pBuffer \in [Slots -> Cell]
    /\ m_nBytes \in 0 .. m_nBufferSize
    /\ m_eof \in BOOLEAN /\ m_fReleased \in BOOLEAN
    /\ m_nUserBytes \in 0 .. m_nBytes + m_nBufferSize /\ m_nUserItems \in Nat
    /\ maxBytes \in 0 .. m_nBufferSize
    /\ handed \in Seq(Cell) /\ handedItems \in Nat

\* The last cells of the items that are whole.
EndsOfItems(cells) == {i \in DOMAIN cells : cells[i].at = cells[i].size}

\* A file that breaks off within an item, or has one no block can hold.
Unreadable ==
    \/ file # <<>> /\ Last(file).at # Last(file).size
    \/ \E i \in DOMAIN file, n \in Shortfalls : file[i].size > m_nBufferSize - n

(***************************************************************************)
(* The blocks, one after the other, are the file: no cell is lost,         *)
(* repeated or replaced where a block ends and the rest of the buffer is   *)
(* slid to the front, each block holds the whole items it counts, and the  *)
(* empty block that ends a run comes after the last item.                  *)
(***************************************************************************)
BlocksAreTheFile ==
    /\ handed = SubSeq(file, 1, Len(handed))
    /\ handed # <<>> => Len(handed) \in EndsOfItems(file)
    /\ handedItems = Cardinality(EndsOfItems(handed))
    /\ pc = "ended" => handed = file

(***************************************************************************)
(* A client that goes on until it gets no data is told the end of the file *)
(* or gets an exception, and that for one reason, an "Internal buffer or   *)
(* user request overflowed by a single ring item" (DataReader.cpp:193):    *)
(* never at a file whose items are whole and fit.                          *)
(***************************************************************************)
ReachesTheEnd == <>(pc \in {"ended", "refused"} \/ (pc = "thrown" /\ Unreadable))
-----------------------------------------------------------------------------
(***************************************************************************)
(* Where the blocks are the file, whatever its length and the buffer's:    *)
(* items lie in a row, the last one maybe cut off; all sizes are multiples *)
(* of SizeField, so that the end of the buffer never splits the size of an *)
(* item; and no item is much larger than half a buffer, as done() moves    *)
(* only as many bytes as it gives up.                                      *)
(***************************************************************************)
ItemsInARow(f) ==
    \A i \in DOMAIN f :
       /\ f[i].at \in 1 .. f[i].size /\ f[i].at <= i
       /\ \A j \in DOMAIN f : i - f[i].at < j /\ j <= i - f[i].at + f[i].size =>
             f[j] = [item |-> f[i].item, at |-> j + f[i].at - i, size |-> f[i].size]

Aligned(n) == \E k \in 0 .. n : n = k * SizeField

ShortfallsFit == \A b \in BufferSizes, n \in Shortfalls : n <= b

SizesAligned ==
    /\ \A b \in BufferSizes : Aligned(b)
    /\ \A n \in Shortfalls : Aligned(n)
    /\ \A f \in Files : Aligned(Len(f)) /\ \A i \in DOMAIN f : Aligned(f[i].size)

ItemsSmall ==
    \A f \in Files, b \in BufferSizes, n \in Shortfalls : \A i \in DOMAIN f :
       2 * (f[i].size + n) <= b + 2 * SizeField

FilesAreReadable ==
    (\A f \in Files : ItemsInARow(f)) /\ SizesAligned /\ ItemsSmall /\ ShortfallsFit
=============================================================================
