---------------------------- MODULE MCResultFile ----------------------------
(***************************************************************************)
(* Files of items of two and four cells and a buffer of eight: blocks of   *)
(* one to four items, with every split of an item at the end of it.        *)
(* Result files with names up to and beyond MAX_IDENT, units that fill     *)
(* their field or not, events with one parameter or none, and a disk that  *)
(* is full in the definitions or behind them; the larger buffer holds the  *)
(* definitions, but not the whole file.  All items have even sizes but     *)
(* for that of OddParameters.                                              *)
(***************************************************************************)
EXTENDS ResultFile

SeqsUpTo(S, n) == UNION {[1 .. k -> S] : k \in 0 .. n}

ItemOf(i, size) == [k \in 1 .. size |-> [item |-> i, at |-> k, size |-> size]]

FileOf(sizes) == FlattenSeq([i \in 1 .. Len(sizes) |-> ItemOf(i, sizes[i])])

WithoutLast(f, n) == SubSeq(f, 1, Len(f) - n)

\* Items that the size field divides evenly, up to half of the buffer.
AlignedFiles == {FileOf(s) : s \in SeqsUpTo({2, 4}, 5)}

\* The same, cut off two cells before the end.
CutFiles == {WithoutLast(FileOf(Append(s, 4)), 2) : s \in SeqsUpTo({2, 4}, 4)}

MCFiles == AlignedFiles \union CutFiles

MCParameters ==
    {<<>>,
     <<[number |-> 2, name |-> <<1>>]>>,
     <<[number |-> 2, name |-> <<1, 1>>], [number |-> 1, name |-> <<1, 1, 2, 1>>]>>}

MCVariables ==
    {<<[value |-> 5, units |-> <<1, 2, 1>>, name |-> <<2, 2>>]>>,
     <<[value |-> 5, units |-> <<1, 1, 1, 1>>, name |-> <<1>>],
       [value |-> 6, units |-> <<2>>, name |-> <<2, 1, 1>>]>>}

\* A name that makes the size of its item odd.
OddParameters == {<<[number |-> 1, name |-> <<1, 1>>]>>}

MCCalls ==
    {[what |-> "event", trigger |-> 0, event |-> <<[number |-> 1, value |-> 7]>>],
     [what |-> "event", trigger |-> 1, event |-> <<>>],
     [what |-> "item", size |-> 8]}

MCCapacities == {30, 44, 58, 200}

\* The disk is never full.
Enough == {200}

NoFiles == {}

\* What the theorem about the blocks is about.
ASSUME MCFilesAreReadable == FilesAreReadable
=============================================================================
