---------------------------- MODULE ElementNames ----------------------------
(***************************************************************************)
(* The names of the elements of parameter and variable arrays: the base, a *)
(* dot and the index, filled with zeroes to the number of digits that the  *)
(* array needs (CTreeParameterArray::CreateParameters, the constructor and *)
(* BuildArray of CTreeVariableArray).                                      *)
(***************************************************************************)
EXTENDS Integers, FiniteSets

CONSTANTS Bases,    \* the names of arrays, and of what is no element of one
          UintMod   \* 2^32, or less: where an unsigned wraps

ASSUME NamesAssumption == UintMod \in Nat \ {0}

\* What is no element has width 0: its name is just the base.
IsName(name) == /\ DOMAIN name = {"base", "width", "index"}
                /\ name.base \in Bases /\ name.width \in Nat /\ name.index \in Int

Scalar(base) == [base |-> base, width |-> 0, index |-> 0]

Abs(n) == IF n < 0 THEN -n ELSE n

\* (int)(log10(n) + 1); of 0 it is less than that of any index.
Digits(n) == Cardinality({k \in 0 .. 9 : 10 ^ k <= n})

\* Mutant: the last index may have more digits.
NumDigitsOfFirst(first, size) == Digits(Abs(first))

(***************************************************************************)
(* The digits of the first index or of the one behind the last, whichever  *)
(* are more; first + size is unsigned: if it is negative, it wraps.        *)
(***************************************************************************)
NumDigits(first, size) ==
    LET low  == Digits(Abs(first))
        high == Digits((first + size) % UintMod) IN
       IF low > high THEN low ELSE high

Element(base, first, size, index) ==
    [base |-> base, width |-> NumDigits(first, size), index |-> index]

\* The names of the elements, in the order in which they are made.
Elements(base, first, size) ==
    [k \in 1 .. size |-> Element(base, first, size, first + k - 1)]
=============================================================================
